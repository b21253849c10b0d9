------------------------------ MODULE PageCache ------------------------------
(* The page cache of fs/page_cache.c over the element cache: pages map       *)
(* extents of a block device, clients map, grow and change them, the cache   *)
(* thread writes dirty pages back and evicts.  All I/O goes through one file *)
(* descriptor, and eio.c does it in two steps: lseek(), then read() or       *)
(* write().  pc_mutex covers the mapping functions, ca_mutex the table of    *)
(* the cache below, ce_mutex one page.                                       *)
(*                                                                           *)
(* Of fs/cache.c only what this layer sees is kept: a pass of the thread     *)
(* takes one page at a time, and the victim of an LRU eviction is any page.  *)
(* Module Cache has the rest.  Broken... operators are plausible bugs, used  *)
(* by the mutation checks of PROJECT.json only.                              *)
EXTENDS Integers, Sequences

CONSTANTS
  Clients,    \* threads calling the page cache
  Blocks,     \* the blocks of the device: 0 .. some last block
  Extents,    \* the extents <<addr, numblocks>> the clients map
  Capacity,   \* elements_capacity
  MaxCalls,   \* bound: the calls one client makes
  MaxWrites,  \* bound: the versions of data written
  Faults,     \* "malloc": memory can run out
  Careful,    \* TRUE: the clients follow the rules stated at MayMap
  Thread,     \* the cache thread
  NoOne       \* the owner of a free mutex

ASSUME PagesAssumption ==
  /\ Blocks \subseteq Nat /\ 0 \in Blocks
  /\ \A e \in Extents : e[1] \in Blocks /\ e[2] \in Nat \ {0}
  /\ Capacity \in Nat \ {0} /\ MaxCalls \in Nat /\ MaxWrites \in Nat
  /\ Careful \in BOOLEAN /\ Thread \notin Clients
  /\ NoOne \notin Clients \union {Thread}

Slots == 1 .. Capacity
Procs == Clients \union {Thread}
NoPage == 0
NoAddr == -1   \* ce_id before a page is mapped: the element's own address

VARIABLES
  pc_mutex, ca_mutex, ce_mutex,
  slot,       \* per slot: "empty", "live", or "freed" but still in the table
  ce_flags,
  ce_id,
  pe_num_blocks,
  mem,        \* what pe_mem_ptr points to, one entry per block
  offset,     \* the file offset of pc_fd
  disk,       \* what is on each block
  newest,     \* the last version a client has given each block
  clock,      \* versions given out
  pc, cur,    \* per process: program counter and page
  seen,       \* the flags the thread has copied
  want,       \* the extent a client is mapping
  zero,       \* the mapping is pgcache_element_map_zero()
  handle,     \* the page a client holds
  left        \* the calls it has left

locks  == <<pc_mutex, ca_mutex, ce_mutex>>
pages  == <<slot, ce_flags, ce_id, pe_num_blocks, mem>>
device == <<offset, disk>>
ghosts == <<newest, clock>>
calls  == <<want, zero, handle, left>>
vars   == <<locks, pages, device, ghosts, calls, pc, cur, seen>>

\* A block holds data that was written for some block, in some version.  A page
\* mapped by pgcache_element_map_zero() holds Blank until it is written to, and
\* a read past the end of the device leaves what malloc() gave.
Blank == <<-1, 0>>
Junk  == <<-2, 0>>
Contents == (Blocks \X (0 .. MaxWrites)) \union {Blank, Junk}

Init ==
  /\ pc_mutex = NoOne /\ ca_mutex = NoOne /\ ce_mutex = [i \in Slots |-> NoOne]
  /\ slot = [i \in Slots |-> "empty"] /\ ce_flags = [i \in Slots |-> {}]
  /\ ce_id = [i \in Slots |-> NoAddr] /\ pe_num_blocks = [i \in Slots |-> 0]
  /\ mem = [i \in Slots |-> <<>>] /\ seen = {}
  /\ offset = 0 /\ disk = [b \in Blocks |-> <<b, 0>>]
  /\ newest = [b \in Blocks |-> 0] /\ clock = 0
  /\ pc = [p \in Procs |-> "idle"] /\ cur = [p \in Procs |-> 1]
  /\ want = [c \in Clients |-> <<0, 1>>] /\ zero = [c \in Clients |-> FALSE]
  /\ handle = [c \in Clients |-> NoPage] /\ left = [c \in Clients |-> MaxCalls]

Goto(p, label) == pc' = [pc EXCEPT ![p] = label]
Step(p, from, to) == pc[p] = from /\ Goto(p, to) /\ UNCHANGED <<cur, calls>>

\* Assigned with ce_id, but 0 before.
BrokenBlockAddr(i) == ce_id[i]
pe_block_addr(i) == IF ce_id[i] = NoAddr THEN 0 ELSE ce_id[i]

\* The blocks whose contents are in the memory of page i, and the contents.
Covered(i) == {b \in Blocks : b \in ce_id[i] .. ce_id[i] + Len(mem[i]) - 1}
At(i, b) == mem[i][b - ce_id[i] + 1]

-----------------------------------------------------------------------------
(* eio.c: extent_read() and extent_write() on the shared descriptor.         *)

LSeek(addr) == offset' = addr /\ UNCHANGED disk

\* What disk is after the memory of page i is written at the file offset.
BrokenWritten(i) ==
  [b \in Blocks |-> IF b \in offset .. offset + Len(mem[i]) - 1
                    THEN mem[i][1] ELSE disk[b]]
Written(i) ==
  [b \in Blocks |-> IF b \in offset .. offset + Len(mem[i]) - 1
                    THEN mem[i][b - offset + 1] ELSE disk[b]]

Write(i) == disk' = Written(i) /\ offset' = offset + Len(mem[i])

Read(i, n) ==
  /\ mem' = [mem EXCEPT ![i] = [j \in 1 .. n |->
               IF offset + j - 1 \in Blocks THEN disk[offset + j - 1] ELSE Junk]]
  /\ offset' = offset + n /\ UNCHANGED disk

\* pgcache_on_flush(): the two steps, by whoever has locked the page.
FlushSeek(p, from, to) ==
  /\ Step(p, from, to) /\ LSeek(pe_block_addr(cur[p]))
  /\ UNCHANGED <<locks, pages, ghosts, seen>>
FlushWrite(p, from, to) ==
  /\ Step(p, from, to) /\ Write(cur[p]) /\ UNCHANGED <<locks, pages, ghosts, seen>>

\* The bookkeeping of a flush in fs/cache.c; growing a page has none.
Cleaned(i) == [ce_flags EXCEPT ![i] = (@ \ {"DIRTY"}) \union {"CLEAN"}]

\* pgcache_on_evict() frees the memory, then the element is freed.
FreePage(i) ==
  /\ slot' = [slot EXCEPT ![i] = "freed"] /\ mem' = [mem EXCEPT ![i] = <<>>]
  /\ ce_flags' = [ce_flags EXCEPT ![i] = {}] /\ UNCHANGED <<ce_id, pe_num_blocks>>

-----------------------------------------------------------------------------
(* The cache thread.                                                         *)

BrokenWorkOn(flags) == IF "EVICT" \in flags THEN "free" ELSE "seek"
WorkOn(flags) == IF "DIRTY" \in flags THEN "seek" ELSE "free"

\* The flags are copied before the page is locked.
ThreadReads ==
  /\ pc[Thread] = "idle" /\ ca_mutex = NoOne /\ ca_mutex' = Thread
  /\ \E i \in Slots :
       /\ slot[i] = "live" /\ ce_flags[i] \intersect {"DIRTY", "EVICT"} # {}
       /\ cur' = [cur EXCEPT ![Thread] = i] /\ seen' = ce_flags[i]
  /\ Goto(Thread, "lock")
  /\ UNCHANGED <<pc_mutex, ce_mutex, pages, device, ghosts, calls>>

\* pthread_mutex_trylock(): a page that is locked is left for another pass.
ThreadLocks ==
  /\ \/ /\ ce_mutex[cur[Thread]] = NoOne /\ Step(Thread, "lock", WorkOn(seen))
        /\ ce_mutex' = [ce_mutex EXCEPT ![cur[Thread]] = Thread]
        /\ UNCHANGED ca_mutex
     \/ /\ ce_mutex[cur[Thread]] # NoOne /\ Step(Thread, "lock", "idle")
        /\ ca_mutex' = NoOne /\ UNCHANGED ce_mutex
  /\ UNCHANGED <<pc_mutex, pages, device, ghosts, seen>>

ThreadSettles ==
  /\ ce_flags' = Cleaned(cur[Thread])
  /\ \/ "EVICT" \in seen /\ Step(Thread, "settle", "free") /\ UNCHANGED locks
     \/ /\ "EVICT" \notin seen /\ Step(Thread, "settle", "idle")
        /\ ca_mutex' = NoOne /\ ce_mutex' = [ce_mutex EXCEPT ![cur[Thread]] = NoOne]
        /\ UNCHANGED pc_mutex
  /\ UNCHANGED <<slot, ce_id, pe_num_blocks, mem, device,
                 ghosts, seen>>

ThreadFrees ==
  /\ Step(Thread, "free", "clear") /\ FreePage(cur[Thread])
  /\ ce_mutex' = [ce_mutex EXCEPT ![cur[Thread]] = NoOne]
  /\ UNCHANGED <<pc_mutex, ca_mutex, device, ghosts, seen>>

ThreadClears ==
  /\ Step(Thread, "clear", "idle") /\ ca_mutex' = NoOne
  /\ slot' = [slot EXCEPT ![cur[Thread]] = "empty"]
  /\ UNCHANGED <<pc_mutex, ce_mutex, ce_flags, ce_id, pe_num_blocks, mem, device,
                 ghosts, seen>>

ThreadNext ==
  \/ ThreadReads \/ ThreadLocks
  \/ FlushSeek(Thread, "seek", "write") \/ FlushWrite(Thread, "write", "settle")
  \/ ThreadSettles \/ ThreadFrees \/ ThreadClears

-----------------------------------------------------------------------------
(* pgcache_element_map() and pgcache_element_map_zero().                     *)

\* The rules of careful clients: they map only once all other pages are CLEAN,
\* and only once what they asked to evict is gone.
MayMap(e) ==
  Careful =>
    \A i \in Slots :
      /\ slot[i] # "freed" /\ "EVICT" \notin ce_flags[i]
      /\ slot[i] = "live" /\ ce_id[i] # e[1] => "CLEAN" \in ce_flags[i]

\* A page mapped with zeros is written to by a careful client before anything
\* else: until then its memory says nothing of the block.
IsBlank(i) == i # NoPage /\ mem[i] # <<>> /\ mem[i][1] = Blank

CallMap(c) ==
  /\ pc[c] = "idle" /\ left[c] > 0 /\ Goto(c, "pc_lock")
  /\ \E e \in Extents : MayMap(e) /\ want' = [want EXCEPT ![c] = e]
  /\ \E z \in BOOLEAN : zero' = [zero EXCEPT ![c] = z]
  /\ Careful => ~IsBlank(handle[c])
  /\ handle' = [handle EXCEPT ![c] = NoPage] /\ left' = [left EXCEPT ![c] = @ - 1]
  /\ UNCHANGED <<locks, pages, device, ghosts, seen, cur>>

\* The end of a mapping: the page, or NoPage for NULL.
Return(c, i) ==
  /\ pc_mutex' = NoOne /\ Goto(c, "idle") /\ handle' = [handle EXCEPT ![c] = i]
  /\ UNCHANGED <<cur, want, zero, left>>

\* Under pc_mutex, but without ca_mutex, the table is searched for the address:
\* of a slot whose element has been freed it reads whatever is there.
BrokenHits(addr, stale) ==
  {i \in Slots : slot[i] = "live" /\ ce_id[i] = addr /\ "EVICT" \notin ce_flags[i]}
Hits(addr, stale) ==
  {i \in Slots : slot[i] = "live" /\ ce_id[i] = addr} \union stale

PcLock(c) ==
  /\ pc[c] = "pc_lock" /\ pc_mutex = NoOne /\ pc_mutex' = c /\ Goto(c, "scan")
  /\ UNCHANGED <<ca_mutex, ce_mutex, pages, device, ghosts, seen, calls, cur>>

\* The page, freed or not, is big enough.
BrokenEnough(i, numblocks) == {TRUE}
Enough(i, numblocks) ==
  IF slot[i] = "live" THEN {numblocks <= pe_num_blocks[i]} ELSE BOOLEAN

Scan(c) ==
  /\ pc[c] = "scan"
  /\ \E stale \in SUBSET {i \in Slots : slot[i] = "freed"} :
       LET hits == Hits(want[c][1], stale)
           i == CHOOSE k \in hits : \A j \in hits : k <= j
       IN  \/ hits = {} /\ Goto(c, "room") /\ UNCHANGED <<pc_mutex, calls, cur>>
           \/ hits # {} /\ zero[c] /\ Return(c, NoPage)
           \/ hits # {} /\ ~zero[c] /\ TRUE \in Enough(i, want[c][2]) /\ Return(c, i)
           \/ /\ hits # {} /\ ~zero[c] /\ FALSE \in Enough(i, want[c][2])
              /\ cur' = [cur EXCEPT ![c] = i] /\ Goto(c, "grow")
              /\ UNCHANGED <<pc_mutex, calls>>
  /\ UNCHANGED <<ca_mutex, ce_mutex, pages, device, ghosts, seen>>

\* The page is mapped already but must grow: lock it, flush it if it is dirty,
\* realloc(), read it again.
GrowLock(c) ==
  /\ pc[c] = "grow" /\ ce_mutex[cur[c]] = NoOne
  /\ ce_mutex' = [ce_mutex EXCEPT ![cur[c]] = c]
  /\ Goto(c, IF "DIRTY" \in ce_flags[cur[c]] THEN "grow_seek" ELSE "realloc")
  /\ UNCHANGED <<pc_mutex, ca_mutex, pages, device, ghosts, seen, calls, cur>>

\* When realloc() fails NULL is returned and the page stays locked, its memory
\* pointer lost.
Realloc(c) ==
  \/ /\ Step(c, "realloc", "read_seek")
     /\ UNCHANGED <<locks, pages, device, ghosts, seen>>
  \/ /\ "malloc" \in Faults /\ pc[c] = "realloc" /\ Return(c, NoPage)
     /\ mem' = [mem EXCEPT ![cur[c]] = <<>>]
     /\ UNCHANGED <<ca_mutex, ce_mutex, slot, ce_flags, ce_id, pe_num_blocks, device,
                    ghosts, seen>>

\* cache_element_map(): an empty slot, or a victim.
Room(c) ==
  /\ pc[c] = "room" /\ ca_mutex = NoOne /\ ca_mutex' = c
  /\ \E i \in Slots :
       /\ cur' = [cur EXCEPT ![c] = i]
       /\ \/ slot[i] = "empty" /\ Goto(c, "new")
          \/ /\ \A j \in Slots : slot[j] # "empty"
             /\ Goto(c, "victim")
  /\ UNCHANGED <<pc_mutex, ce_mutex, pages, device, ghosts, seen, calls>>

VictimLock(c) ==
  /\ pc[c] = "victim" /\ ce_mutex[cur[c]] = NoOne
  /\ ce_mutex' = [ce_mutex EXCEPT ![cur[c]] = c]
  /\ Goto(c, IF "DIRTY" \in ce_flags[cur[c]] THEN "victim_seek" ELSE "victim_free")
  /\ UNCHANGED <<pc_mutex, ca_mutex, pages, device, ghosts, seen, calls, cur>>

VictimFree(c) ==
  /\ Step(c, "victim_free", "new") /\ FreePage(cur[c])
  /\ ce_mutex' = [ce_mutex EXCEPT ![cur[c]] = NoOne]
  /\ UNCHANGED <<pc_mutex, ca_mutex, device, ghosts, seen>>

\* The element is in the table, clean and without memory, before its page is.
New(c) ==
  /\ slot' = [slot EXCEPT ![cur[c]] = "live"]
  /\ ce_flags' = [ce_flags EXCEPT ![cur[c]] = {"CLEAN"}]
  /\ ce_id' = [ce_id EXCEPT ![cur[c]] = NoAddr]
  /\ pe_num_blocks' = [pe_num_blocks EXCEPT ![cur[c]] = 0]
  /\ mem' = [mem EXCEPT ![cur[c]] = <<>>]
  /\ ca_mutex' = NoOne /\ Step(c, "new", "malloc")
  /\ UNCHANGED <<pc_mutex, ce_mutex, device, ghosts, seen>>

\* The last assignments of both mappings.
Place(c) ==
  /\ ce_id' = [ce_id EXCEPT ![cur[c]] = want[c][1]]
  /\ pe_num_blocks' = [pe_num_blocks EXCEPT ![cur[c]] = want[c][2]]

\* The memory of the page: read from the device, or cleared.  Without memory NULL
\* is returned; only pgcache_element_map() then gives the element up.
Malloc(c) ==
  \/ /\ ~zero[c] /\ Step(c, "malloc", "read_seek")
     /\ UNCHANGED <<locks, pages, device, ghosts, seen>>
  \/ /\ zero[c] /\ pc[c] = "malloc" /\ Place(c) /\ Return(c, cur[c])
     /\ mem' = [mem EXCEPT ![cur[c]] = [j \in 1 .. want[c][2] |-> Blank]]
     /\ UNCHANGED <<ca_mutex, ce_mutex, slot, ce_flags, device, ghosts, seen>>
  \/ /\ "malloc" \in Faults /\ pc[c] = "malloc" /\ Return(c, NoPage)
     /\ ce_flags' = IF zero[c] THEN ce_flags
                    ELSE [ce_flags EXCEPT ![cur[c]] = @ \union {"EVICT"}]
     /\ UNCHANGED <<ca_mutex, ce_mutex, slot, ce_id, pe_num_blocks, mem, device,
                 ghosts, seen>>

ReadSeek(c) ==
  /\ Step(c, "read_seek", "read") /\ LSeek(want[c][1])
  /\ UNCHANGED <<locks, pages, ghosts, seen>>

\* The read, the fields of the page, and the unlock of a page that was locked.
ReadPage(c) ==
  /\ pc[c] = "read" /\ Read(cur[c], want[c][2]) /\ Place(c) /\ Return(c, cur[c])
  /\ ce_mutex' = [ce_mutex EXCEPT ![cur[c]] = IF @ = c THEN NoOne ELSE @]
  /\ UNCHANGED <<ca_mutex, slot, ce_flags, ghosts, seen>>

-----------------------------------------------------------------------------
(* What a client does with the page it holds.                                *)

\* It changes the memory, then calls cache_element_mark_dirty().
Change(c) ==
  LET i == handle[c]
  IN  /\ pc[c] = "idle" /\ left[c] > 0 /\ i # NoPage /\ mem[i] # <<>>
      /\ clock < MaxWrites /\ clock' = clock + 1
      /\ newest' = [b \in Blocks |-> IF b \in Covered(i) THEN clock + 1 ELSE newest[b]]
      /\ mem' = [mem EXCEPT ![i] = [j \in DOMAIN @ |->
                   IF ce_id[i] + j - 1 \in Blocks
                   THEN <<ce_id[i] + j - 1, clock + 1>> ELSE @[j]]]
      /\ left' = [left EXCEPT ![c] = @ - 1] /\ Goto(c, "mark")
      /\ UNCHANGED <<locks, slot, ce_flags, ce_id, pe_num_blocks, device, cur, seen,
                     want, zero, handle>>

BrokenMarked(f) == f \union {"DIRTY"}
Marked(f) == (f \union {"DIRTY"}) \ {"CLEAN"}

\* An element that is not ACTIVE is refused, any other is locked.
Flag(i, flags) ==
  IF slot[i] = "live"
  THEN ce_mutex[i] = NoOne /\ ce_flags' = [ce_flags EXCEPT ![i] = flags]
  ELSE UNCHANGED ce_flags

MarkDirty(c) ==
  /\ Step(c, "mark", "idle") /\ Flag(handle[c], Marked(ce_flags[handle[c]]))
  /\ UNCHANGED <<locks, slot, ce_id, pe_num_blocks, mem, device,
                 ghosts, seen>>

\* cache_element_mark_eviction(), after which the pointer is forgotten.
MarkEviction(c) ==
  /\ pc[c] = "idle" /\ left[c] > 0 /\ handle[c] # NoPage
  /\ Careful => ~IsBlank(handle[c])
  /\ Flag(handle[c], ce_flags[handle[c]] \union {"EVICT"})
  /\ handle' = [handle EXCEPT ![c] = NoPage] /\ left' = [left EXCEPT ![c] = @ - 1]
  /\ UNCHANGED <<locks, slot, ce_id, pe_num_blocks, mem, device, ghosts, seen, pc, cur,
                 want, zero>>

ClientNext(c) ==
  \/ CallMap(c) \/ PcLock(c) \/ Scan(c)
  \/ GrowLock(c) \/ FlushSeek(c, "grow_seek", "grow_write")
  \/ FlushWrite(c, "grow_write", "realloc") \/ Realloc(c)
  \/ Room(c) \/ VictimLock(c) \/ FlushSeek(c, "victim_seek", "victim_write")
  \/ FlushWrite(c, "victim_write", "victim_free") \/ VictimFree(c)
  \/ New(c) \/ Malloc(c) \/ ReadSeek(c) \/ ReadPage(c)
  \/ Change(c) \/ MarkDirty(c) \/ MarkEviction(c)

Next == ThreadNext \/ \E c \in Clients : ClientNext(c)

Spec == Init /\ [][Next]_vars

-----------------------------------------------------------------------------
(* Properties.                                                               *)

\* Every variable has its type; the page a client holds is a slot.
TypeOK ==
  /\ pc_mutex \in Clients \union {NoOne} /\ ca_mutex \in Procs \union {NoOne}
  /\ ce_mutex \in [Slots -> Procs \union {NoOne}]
  /\ slot \in [Slots -> {"empty", "live", "freed"}]
  /\ ce_flags \in [Slots -> SUBSET {"CLEAN", "DIRTY", "EVICT"}]
  /\ ce_id \in [Slots -> Blocks \union {NoAddr}] /\ pe_num_blocks \in [Slots -> Nat]
  /\ \A i \in Slots : mem[i] \in Seq(Contents)
  /\ offset \in Nat /\ disk \in [Blocks -> Contents]
  /\ newest \in [Blocks -> 0 .. MaxWrites] /\ clock \in 0 .. MaxWrites
  /\ cur \in [Procs -> Slots] /\ seen \subseteq {"CLEAN", "DIRTY", "EVICT"}
  /\ handle \in [Clients -> Slots \union {NoPage}]

\* Whenever no mapping is under way, no two pages of the table are mapped at the
\* same address: what pc_mutex is there for, with every page that is marked for
\* eviction, freed or left over from a failed malloc() still in the table.
PagesDistinct ==
  pc_mutex = NoOne =>
    \A i, j \in Slots :
      /\ i # j /\ slot[i] = "live" /\ slot[j] = "live" /\ ce_id[i] # NoAddr
      => ce_id[i] # ce_id[j]

\* The memory of a page holds data of the blocks the page is mapped to, and a
\* block of the device data of that block: no lseek() of one thread comes
\* between the lseek() and the read() or write() of another.
Placed ==
  /\ \A b \in Blocks : disk[b][1] = b
  /\ \A i \in Slots : slot[i] = "live" /\ ce_id[i] # NoAddr =>
       \A b \in Covered(i) : At(i, b)[1] = b \/ At(i, b) = Blank

\* The newest version a client has given a block is never lost: it is on the
\* device, or in a page that is DIRTY or about to be marked so.
NothingLost ==
  \A b \in Blocks :
    \/ disk[b] = <<b, newest[b]>>
    \/ \E i \in Slots :
         /\ slot[i] = "live" /\ b \in Covered(i) /\ At(i, b) = <<b, newest[b]>>
         /\ \/ "DIRTY" \in ce_flags[i]
            \/ \E c \in Clients : pc[c] = "mark" /\ handle[c] = i

\* The page a mapping has returned has memory for the blocks asked for, unless
\* a realloc() failed, and it shows the newest version of each of them.
Coherent ==
  \A c \in Clients :
    pc[c] = "idle" /\ handle[c] # NoPage /\ mem[handle[c]] # <<>> =>
      /\ Len(mem[handle[c]]) >= want[c][2]
      /\ \A b \in Covered(handle[c]) : At(handle[c], b) \in {<<b, newest[b]>>, Blank}

-----------------------------------------------------------------------------
(* Refinement.                                                               *)

\* Data of another block on block b has no version of b.
Version(b) == IF disk[b][1] = b THEN disk[b][2] ELSE -1

WB == INSTANCE WriteBack WITH MaxVersion <- MaxWrites,
                              stored <- [b \in Blocks |-> Version(b)]

\* Careful clients get the write-back store: every write of a page to the device,
\* by the thread, by an LRU eviction or by a growing page, brings each of its
\* blocks to its newest version and leaves the other blocks alone.
ImplementsWriteBack == WB!WriteBackSpec

=============================================================================
