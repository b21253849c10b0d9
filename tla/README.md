# Verification of kanekfs

TLA+ models of kanekfs (a graph file system under construction, C, user space),
checked with TLC, with theorems checked by TLAPS. Line numbers refer to the
sources under `src/fs/`.

## 1. The system

| Component | State | Operations | Meets |
|---|---|---|---|
| Element cache, `cache.c` | table of element pointers, count in use, flag word, `ca_mutex`; per element flags, access count, `ce_mutex` | init, enable, map (LRU), lookup, evict, mark dirty/eviction, pin/unpin, sync, pause, disable, waits; one background thread | calls the flush and evict callbacks |
| Page cache, `page_cache.c`, `eio.c` | an element cache whose elements own the memory of some blocks; `pc_mutex`; one file descriptor | map, map zero, grow, sync wrappers, destroy | implements the callbacks, shares the descriptor with the cache thread |
| Bitmap, `map.c` | none of its own: a byte array and a number of bits | set/get a bit, set an extent, count a run, find a gap, can an extent grow | called by the slot table and mkfs |
| mkfs, `kfs_mkfs.c` | options, a layout computed from them, the device | parse, compute, fill with zeros, write superblock, tables and maps | bitmap, eio |
| Superblock, `kfs_super.c`, `kfs_config.c` | the global `__sb`, the superblock's page, the settings | read the settings, open, verify, mount, active, umount, display | owns the page cache, reads what mkfs wrote; its thread writes the superblock back |
| Slot table, `kfs_slot.c` | counters in `__sb`; bitmap, slot table and index extents on disk | reserve, remove | reads the device past the page cache, on its descriptor |
| Dictionary, `dict.c` | growing array of key/value pairs that own strings | add, search, update, remove, clean, print | - |
| Allocation list, `gc.c`, `list.h` | ring of allocated blocks, linked through their own memory | alloc, realloc, free, sweep, destroy | - |
| Slot cache, `slot_cache.c` | an element cache of slots | draft, does not compile | - |
| Server, hash, random, dumps | - | fork-per-connection echo, pure functions | - |

The hard behaviour is in three places.

*The two caches.* The thread runs all the time (its `nanosleep()` is given 5e9 ns,
which the system refuses, so passes follow each other without a pause); it holds
`ca_mutex` for a whole pass and takes each element's mutex by `trylock`. Clients
call into the cache at the same time. Several reads and writes of the two flag
words happen under no mutex at all. Above, `pc_mutex` serialises mappings only with
each other; under both, every read and write of the device is an `lseek()` followed
by the I/O on a shared descriptor.

*The life of a file system.* kfs_mkfs makes it by hundreds of writes and may be
killed at any of them, also over an older file system; a mount changes its
superblock in a page that the thread writes back whenever it likes, a process may
die, and an unmount relies on a flush that may have happened already. The slot calls
read on the descriptor of that write-back, which no lock protects: what they move
between its `lseek()` and its `write()` sends the superblock to another block.

*Arithmetic.* The bitmap's bytes shared between extents, the rounding of
percentages to blocks, extents whose lengths have 16 bits, ids computed once by
bytes and once by entries.

What makes each component correct:

* element cache: the count, the table and the heap agree; a pinned element stays;
  nothing declared dirty is freed unflushed; no element is used after it is freed;
  sync and disable answer only when they are done; every call returns;
* page cache: a block is cached once; data stays with its block; the newest
  version of a block is on the device or in a page that will be written; in one
  sentence, it is a write-back store;
* bitmap: only the bits of the extent change; counts, gaps and answers are right;
* mkfs: the parts of a file system do not overlap and fit; the block map marks them;
  what is finished verifies, and what is not does not;
* superblock: the parts never move again; a clean page is what the device has; a
  mount answers what it did; a mounted device says so in the end;
* slot table: its calls change nothing of the file system - which the descriptor they
  share makes false, so what is stated is how far the damage can go;
* dictionary: a string is freed once, an entry lies inside the table;
* allocation list: the ring holds exactly what is allocated, as long as nobody has
  written over its links.

The hazards list of `PROJECT.json` names the line where each can go wrong.

## 2. Modules

| Module | Of | Uses |
|---|---|---|
| `Cache` | `cache.c` | - |
| `PageCache`, `WriteBack` | `page_cache.c`, `eio.c`, and the store it implements | `INSTANCE WriteBack` |
| `MapFunctions`, `BitMap` | `map.c`: its functions, and a caller | `BitMap` extends the functions |
| `Layout` | `kfs_mkfs.c` up to the first write | - |
| `Mkfs` | the writes of `kfs_mkfs.c` | `Layout`, `MapFunctions` |
| `Super` | `kfs_super.c`, `kfs_config.c` | `Mkfs` |
| `SlotTable` | `kfs_slot.c` | `Super` |
| `Volume` | all of these on one device | `SlotTable` |
| `Dict`, `AllocList` | `dict.c`, `gc.c` | - |
| `MC...` | instances for TLC | |
| `...Proofs` | theorems | |

### Cache

The processes are the clients and the thread. `pc` holds where each is;
`ca_mutex`, `ce_mutex` the owners of the mutexes; `ca_ptr` the table;
`heap` the addresses now allocated (a freed element keeps its last flags, and its
address may be handed out again); `unsaved` is a history variable: the elements
somebody declared dirty and nobody has flushed since.

One step is what happens between two points where another process can
interfere: taking or releasing a mutex, and every read or write of a flag word
outside the mutex that protects it. So `ca_flags |= f` is two steps (`ReadFlags`,
`WriteFlags`; `ThreadStart`, `ThreadStartWrite`), because the thread writes the
word without `ca_mutex` when it starts and when it ends; the thread's copy of an
element's flags (line 54) is a step before its `trylock` (line 60); the client's
look at ACTIVE (e.g. line 556) is a step before its lock. The scan of the table for
room or for a key is one step: the table changes under `ca_mutex` only. The
counts and flags it also reads can change meanwhile, as a pin or an eviction
mark does not need `ca_mutex`; with the scan in one step the mark comes just
before it or just after it.

| Code | Actions |
|---|---|
| `cache_init`, `cache_enable` | `Init`, `CacheEnable` |
| `cache_thread` | `ThreadStart` .. `ThreadFinish`, and `Dispose(Thread)` |
| `cache_element_evict_by_idx` | `EvictLock`, `Flush`, `Retire`, `Free`, `Clear` |
| `cache_element_map` | `CallLocked`, `LockCa`, `FindRoom`, `Alloc`, `AllocFails`, `UnlockCa` |
| `cache_lookup`, `cache_element_evict` | `CallKeyed`, `Lookup`, `FindKey` |
| mark_dirty, mark_eviction, pin, unpin | `CallElement`, `ElLock`, `ElUpdate` |
| `cache_element_wait_for_flags` | `CallWaitEl`, `ElLock`, `ElUpdate` |
| `cache_sync`, `cache_disable` | `CallSync`, `CallDisable`, `Mark`, `ReadFlags`, `WriteFlags`, `Poll`, `Join` |
| pause, clear_pause, clear_loop_done, set_flags | `CallLocked`, `ReadFlags`, `WriteFlags` |

Undefined behaviour: a lock of a freed element may hang (the step need not
happen) or be granted; a step of the thread on a destroyed cache is not taken.
`cache_disable()` and `cache_destroy()` are called by the last user only.

`Careful` clients follow what the headers ask: they wait for CACHE_ACTIVE before
the first call (as `pgcache_enable_sync()` and `test_cache.c` do), forget a pointer
once they have asked for the element to go, do not ask that of a pinned element, and
leave EXIT and SET_LOOP_DONE to the functions that wait for the answer. With
`Careful = FALSE` they call anything at any time with stale pointers.

### PageCache and WriteBack

Of the element cache it keeps what this layer sees: the thread takes a page that
is DIRTY or EVICT in any order, and the LRU victim is any page. It has the device:
`offset` of the shared descriptor, `disk`, and per page the memory, as one
`<<block, version>>` per block. `newest` is a history variable. `pgcache_on_flush()`
is two steps, `FlushSeek` and `FlushWrite`, by the thread, by an LRU eviction or by a
growing page; a mapping is `PcLock`, `Scan` and then a hit, or `GrowLock` ..
`ReadPage`, or `Room` .. `New`, `Malloc`, `ReadSeek`, `ReadPage`. `Scan` runs under
`pc_mutex` only: a freed slot may match and look as big as it likes. The look at
ACTIVE that a mark begins with is one step with the mark; Cache separates them.

A careful client maps only when every other page is CLEAN and what it asked to
evict is gone, and writes a page mapped with zeros before anything else. The
run `offset` shows why: without the first rule blocks are overwritten.

`WriteBack` is what is left when pages, mutexes, thread and descriptor are taken
away: clients give blocks versions, and the device catches up with some of them.
`ImplementsWriteBack` maps `stored` to the version a block of the disk holds (or to
an impossible one if it holds data of another block) and asks every step of a
careful client's `PageCache` to be a step of it or a stutter.

### MapFunctions and BitMap

The ten functions of `map.c` as operators on the set of bits that are 1, with the byte
arithmetic of the code: the shared first byte, whole bytes, the rest. The size of the
map, `total_bits`, is an argument of each, as a file system has maps of many sizes; the
width of a byte, `Width`, is a constant, 8 in the code. The scans of `bm_count()` and
`bm_find()` are recursive functions on the state of the scan, so that they can be proved
about. A search that leaves the map returns `Overrun`. `BitMap` is a caller: `last` is
the call that has just returned. The operators were compared with the compiled functions
on 300 000 random inputs without a difference. `uint64_t` wrap-around of an address plus
a count is left out.

### Layout and Mkfs

`Layout` is what kfs_mkfs computes before it writes: `Options` is what `parse_opts()`
makes of a command line and of the target, `Accepts` when it lets it through,
`compute_values` the numbers, `Parts` the five extents. `Plain` is the command of the
help text that asks for a complete file system, `Sound` that its parts are where
they may be. `Mkfs` writes: `file` is the target, `disk` its blocks, `mkfs` the run of
the program. `Write(bc, n)` is the n-th block that is written: first zeros everywhere,
then superblock, tables and maps, each block reduced to the magic number, the count
and the last id that `kfs_verify()` looks at, and the bits it holds; one write is one
step, and `MkfsKilled` may come between any two. As the code stands, `parse_opts()` ends
in `exit(0)` (line 1122) and fills a local variable that hides the options: nothing is
ever built. What is modelled is the program that `main()` is written for.

### Super, SlotTable and Volume

`sb` is `__sb`, `page` the one page of the page cache, with the superblock in it,
`cache` the life of that cache, `call` the call under way and its result, `fd` the
descriptor: the block where it stands, and whether the thread is between its `lseek()`
and its `write()`. A mount is nine steps, from the settings to the look at
`kfs_active()`, each with its failure. `pgcache_on_flush()` is two steps of the thread,
`ThreadSeek` and `ThreadWrite`, and any step of a call may come between them, or before
them, as may `ProcessEnds`; `pgcache_destroy()` waits for the thread and is one step.

`SlotTable` adds the two functions of `kfs_slot.c`: the tests in front (`SlotCall`), the
`lseek()` to the map of the slots (`SlotSeek`) and the `read()` that moves the descriptor
on (`SlotRead`). There both end: lines 41 and 217 take 0 for a failure, and
`extent_read()` returns nothing else. The rest of the two functions is never reached,
so no slot is ever reserved or removed and there is no count to be wrong; nothing of it
is modelled. A slot call may be made whenever `kfs_active()` lets it, also while the
mount's own change is still to be flushed - which is when it can do harm:

| What happens between the thread's `lseek(0)` and its `write()` | The superblock is written over |
|---|---|
| the slot call's `lseek()` | block m, the first of the map of the slots |
| its `lseek()` and its `read()` | block m + n, behind that map: the block map in the layout of `kfs` |
| its `read()`, the `lseek()` having come before | block n |

where m is the address of the map and n its length. The page is marked clean after
any of the three, and as nothing marks it dirty again the flag of that mount
never reaches block 0. `fd.diverted` counts these writes; it is a history variable.

`Volume` puts them together: kfs_mkfs and a process have the target one at a time.

The disk layer does not compile at this commit (two prototypes of `get_bd_size`,
`pages_alloc` undefined, `__sb` not declared in `kfs_slot.c`); it is modelled as written.

### Dict, AllocList, MCLibraries

`Dict` is the array with its entries, capacity and the strings that are allocated;
`AllocList` the ring of `list.h` with its two links per node. `gc_realloc()` returns the
node and not the data behind its links, and asks for a size that has no room for them,
so it either moves or cuts the node, or leaves it in `heads`, the nodes whose client has
the wrong pointer and spoils the links by using it (`UseHead`). A `gc_strncat()` of
anything, and a `gc_sweep()`, read or write in front of a node or over its links. Memory
that nobody knows any more is `spoilt`, and the list ends there. Each has a
specification of its own (`DictSpec`, `AllocSpec`). `MCLibraries` runs BitMap, Dict or
AllocList, which share nothing.

### Broken operators

Operators named `Broken...` and `LazyWork` are plausible bugs of the
definition they precede; no specification uses them. For every property of a
passing run one of them, put in place of the right definition, makes TLC find the
property violated (`mutants` in `PROJECT.json`).

## 3. Runs

| Run | Instance | Result |
|---|---|---|
| `table` | Cache: 2 clients, no rules, 3 addresses, 2 slots, 2 calls each, pins among them, timeouts, failing malloc and pthread_create | count, table, heap and CLEAN agree |
| `careful` | Cache: 1 careful client, 3 addresses, 2 slots, 5 calls | the count with every slot pinned, no lost write, no use after free, exclusive elements, pins, sync, disable |
| `live` | Cache: careful client, fairness | calls return, dirty data is flushed |
| `lost_write` | Cache: 2 careful clients | **violated**: EVICT by one, DIRTY by the other after the thread copied the flags; freed unflushed |
| `lost_exit` | Cache: disable right after enable, fairness | **violated**: EXIT overwritten by the unlocked `\|= ACTIVE`, the join never returns |
| `calls` | bitmap of 3 bytes of 4 bits, 9 in use, all arguments; dictionary of 5 entries; ring of 4 nodes | 5 properties of the bitmap, strings owned once, entries inside the table, exact ring until the memory is spoilt |
| `find` | bitmap | **violated**: 0 and an address where there is no gap |
| `shared_pages` | PageCache: 2 clients, no rules, growing pages, failing malloc | a block address is cached once |
| `careful_pages` | PageCache: 1 careful client, 4 extents, 2 slots, 6 calls | data in its place, newest version kept and shown; a write-back store |
| `offset` | PageCache: 1 client that maps while a page is dirty | **violated**: block 0's data written over block 2 |
| `volume` | Volume: 7 command lines on 3 targets, made twice, killed anywhere, 4 settings files, every failure of a mount, slot calls at any time, one diverted flush, fairness | what is finished verifies and nothing else does, marks, places, flags; what a diverted flush leaves as it was |
| `umount` | Volume: one mount and unmount without a fault | **violated**: the device still says it is mounted |

Bounds. Two slots and three addresses are enough for an LRU eviction, for an
address to be reused while an old pointer to it is around, and for a pass to meet
an element while another is being evicted. Two clients and the thread are the
fewest that show every pairwise race; a careful single client needs more calls
(map, mark, pin, evict, sync in one behaviour), hence five. The LRU comparison with
INT_MAX is above every count reached. Four-bit bytes have every case of the bitmap's
arithmetic, as `MCBitMap` says; 9 of 12 bits leave padding. Model time has no
clock: a timeout may come at any poll, or never when `"timeout"` is not in `Faults`.
Only the run `table` has timeouts; `careful` has none, to stay small, so that a wait
that gives up is covered there by the theorems about a careful client, which allow
timeouts (all but `SyncsEvict`), and not by a run. A table in which every slot is pinned
takes five calls of one client, so `careful` reaches it and `table`, with its pins of
two clients, does not.

In Volume a block has 8 bytes, one of them its header, and holds two entries or 56 bits,
so that the smallest file system has 40 blocks and one of 60 has a block map of two,
with a first block that is not like the second. The command lines are the smallest file
system, a larger one, one that takes the size of a device, one with no part, the command
`meta` with the whole percentage for each table, and two that must be refused, one of
them because its size wraps around (`Word`, 2^64 in the code, is 1000; `Short`, 2^16, is
16, above every table). The device ends inside a block. `MaxFormats` is two, so that
what is killed may lie over an older file system. Two rules keep the run small, each
named where it is: a kill among the zeros is not followed by another kfs_mkfs, and after
`MaxDiverted` (one) diverted flushes there is no further mount and no further kfs_mkfs.
A mount makes one change of its own that is flushed, so that a second diverted flush
needs a second mount; the theorems hold for any `MaxDiverted`. The libraries' bounds:
five entries make the dictionary's table grow, three strings show a duplicate; four
nodes have neighbours that are not each other's.

Symmetry is used in safety runs over clients and addresses only. Deadlock is not
checked: calls run out, a cache may be destroyed, nothing follows a list whose memory is
spoilt, and a volume may be left alone; that no call hangs is `CallReturns`.

Fairness. In Cache the operating system keeps running the thread and any call under way
(weak), and a mutex that becomes free again and again is granted in the end (strong, for
`ca_mutex` and an element's mutex): the thread releases `ca_mutex` at the end of each
pass and takes it again at once, so weak fairness would let it starve every client.
Clients need not call. The code relies on both; POSIX default mutexes do not promise the
second, so `CallReturns` is a statement under that assumption. In the run `live` nobody
pauses the thread - a client that paused it and never came back would stop every flush -
and no timeout ends a wait: sync and disable return because the thread answers them. In
Volume a call under way goes on (`WF(InCall)`) and the thread flushes a dirty page in
the end, by both of its steps (`WF(ThreadFlush)`): that is what `CallReturns` and
`DirtyIsFlushed` say of Cache. Nobody has to mount, unmount, write or stay alive:
`MountIsWritten` is about a file system that stays mounted and whose flush no slot call
has diverted.

## 4. Proofs

Everything here holds for every value of the constants that satisfies the
assumptions named, which say that sets are sets of numbers, that numbers that count
something are not negative, and that the names of the thread and of nobody are not
those of clients. `LayoutAssumption` also says what the code's constants satisfy: a
block has two entries at least, the smallest file system 40 blocks, and its two
tables can be two blocks each.

| Module | Theorems | Assumptions |
|---|---|---|
| `CacheProofs` | `TypeCorrect`, `InUseCorrect`, `TableCorrect`, `CleanCorrect`: the run `table` | `ConstantsAssumption` |
| `CarefulProofs` | `HandlesCorrect`, `ElementsExclusive`, `UnsavedCorrect`, `ThreadOutlived`, `WritesSafe`, `PinnedCorrect`, `EvictedCorrect`, `SyncsEvict`: the run `careful` | the same, and `OneCareful`; `SyncsEvict` also that no wait times out |
| `PageCacheProofs` | `TypeCorrect`, `AddressesDistinct`: the run `shared_pages` | `PagesAssumption` |
| `WriteBackProofs` | `DataIsPlaced`, `NoWriteIsLost`, `MappedIsCoherent`, `RefinesWriteBack`: the run `careful_pages` | the same, `OneCareful`, `Apart` |
| `LayoutProofs` | `PlainIsSound`: all accepted command lines | `LayoutAssumption` |
| `VolumeProofs` | `KilledIsNotVerified`, `BuiltVerifies`, `MarksAreRight`, `PartsStay`, `CleanCorrect`, `LayoutCorrect`, `LayoutStays`, `MountCorrect`, `TypesAreRight`: the run `volume` but liveness | `LayoutAssumption`, `MkfsAssumption` |
| `MapProofs` | lemmas about `map.c`, for every width of a byte and size of a map | `WidthAssumption` |
| `LibraryProofs` | `NeighboursKept`, `ExtentsSet`, `CountIsExact`, `FindIsComplete`, `GrowIsExact`, `MapTypes`, `StringsOwned`, `EntriesFit`, `RingIsExact`: the run `calls` | `MapAssumption`, `WidthAssumption`, `DictAssumption`, `AllocAssumption` |

**CacheProofs.** None of the first three invariants is inductive. `IInv` adds

* `MutexInv`: `ca_mutex` is held by exactly the process that is between its lock and
  its unlock (`HoldsCa`, label by label);
* `LocalInv`: slot index, element, flag and function are meaningful at the labels that
  use them;
* `TableInv`: what `TableSound` becomes at any moment. The only slot in transit is that
  of the owner of `ca_mutex`: between `ce_flags = 0` and the clearing of the slot its
  element is inactive (`Retired`), between `free()` and the clearing it is not allocated
  (`Freed`);
* `CountInv`: the count is the number of used slots not `Retired`, at any moment.

When `ca_mutex` is free nothing is in transit, which gives `TableSound` and
`InUseExact`. The argument of each step: a process that does not own `ca_mutex`
cannot touch table, heap or count; the owner moves its one slot from one window to
the next. There is a lemma per conjunct (`TypeStep`, `MutexStep`, `LocalStep`,
`TableStep`, `CountStep`), and `IInvStep` puts them together; the cardinality facts
are `LiveSlotsFinite` and `OneLess`. `CleanMeansClean` is kept by every step from a
state of `IInv` (`CleanStep`).

**CarefulProofs** takes one client (`OneCareful`): careful, and without lookups, which
hand out pointers to anything. On top of `IInv`, `CInv` has eight parts. What the
client points to is allocated and not marked (`HandleInv`), unless it is inside an
eviction of its own; what the thread has decided to take out nobody points to
(`ThreadInv`): it was marked when the thread looked, and who marks gives the pointer
up. Hence nobody declares it dirty any more, and the flags the thread has copied are
good enough (`SavedInv`): this is what fails with two clients. `StartInv` says that
nobody calls before ACTIVE is set, which makes the unlocked `|=` at the thread's start
harmless - the run `lost_exit` shows the other case - and `ExitInv` that EXIT, once
set, stays. `EInv` follows a cache that is disabled: `cache_disable()` has marked
what it has passed, nothing is mapped and nobody holds a mutex any more, so the pass
that sees EXIT finds every `trylock` granted and empties each slot it passes.

`SInv` follows `cache_sync()`. Request (SET_LOOP_DONE) and answer (LOOP_DONE) come and go
in turn (`LoopInv`); what the client has passed is marked or pinned (`SpareInv`); what
the thread has passed since it took `ca_mutex` after that is gone or pinned (`PassInv`),
because nobody else holds the mutex of an element while the client polls and no
`trylock` fails; so at the answer all of it is (`GoneInv`). This is where a timeout
must be excluded: TLC finds in 36 steps that the answer to a wait that was given up ends
the next `cache_sync()` before its pass.

**PageCacheProofs.** A mapping looks for an address, and much later gives it to a
page; only the holder of `pc_mutex` gives addresses or makes slots live, the thread
and evictions only take pages out, so what `Scan` saw stays true (`Seen`). With
`Distinct`, which is `PagesDistinct` at every moment, that is inductive.

**WriteBackProofs** takes one careful client and extents that do not overlap when their
addresses differ (`Apart`; the hazard page_cache.c:65 is about those that do). `WInv` adds
two groups to the invariant of PageCacheProofs. `TableInv` is about data: a live page
shows the newest version of each of its blocks or is still as
`pgcache_element_map_zero()` left it (`PageInv`), and what the disk does not have yet is
in a DIRTY page (`NothingLost`). `ActorInv` is about who may move the offset. The client
began its mapping when every other page was CLEAN and what it had asked to evict was
gone, and that stays so until it has its page (`CallInv`); so during a mapping the thread
finds nothing to do but the page that grows, whose mutex the client holds
(`ThreadQuiet`), and the offset is where the client left it (`StepInv`). The thread in turn
writes a page whose flags it has copied and whose mutex it has (`ThreadInv`), and no
mapping is under way then. This is what fails in the run `offset`. Each of the two
groups is kept by the steps of the thread (`ThreadTable`, `ThreadActor`), those of the
client (`ClientTable` and a lemma per part of `ActorInv`), together in `WStep`.
`RefinesWriteBack` goes through the steps of `Next`: the steps that change `newest` or
what the disk shows are a write or a write-back of the store, all others stutter
(`OutsideSteps`).

**MapProofs.** An extent is cut in three (`Cut`): the bits up to the next byte,
whole bytes, the rest. That each of the three changes its own bits only, and all of
them, is arithmetic with `%` and `\div` by an arbitrary width. The scans of
`bm_count()` and `bm_find()` are functions that a recursive equation defines;
`FixedPoint` says that an equation which only looks at values of smaller measure has a
solution, and `Induction`, from the well-foundedness of `<`, gives the induction over
the bytes. `CountDoes` and `GrowDoes` say what the counts are; `SearchMissesNone` that
a search that answers -1 has passed no gap, also none that began in an earlier byte,
`FindDoes` the same of the whole function.

**LibraryProofs** reads the five properties of BitMap off these lemmas, for the call
that has just returned. Of the dictionary it shows that an entry's string is allocated
and its own through the shifts of a removal and through an update, and that the
table is grown in time. Of the ring it shows that `list_add()` and `list_del()` keep it
one ring through all that is allocated: next and previous undo each other, and a set
that contains the head and the successors of its members is everything (`RingInv`).
That the walk of `RingExact` then meets every node is a pigeonhole argument
(`WalkMeetsAll`). All of that is under the condition that nobody has spoilt the memory
(section 2); a `gc_realloc()` that happens to keep the node does not touch the ring, and
a client that never uses what it returned does no harm.

**LayoutProofs** bounds each table by its percentage, rounds up and down as the code
does, and adds up: what is left after 90 per cent holds maps and superblock.

**VolumeProofs** has one invariant per question.

* `IInv`, places and calls. `MkfsInv` says that what is being built is what was computed
  from the options, with a write left as long as it builds; `DiskInv` and `RecordInv`
  that superblocks on the device, in the page and in memory have their fields. `CallInv`
  is what a mount has done at each of its steps - no cache before `alloc`, no page
  before `fill`, the page equal to the device there - and `HeldInv` that page, memory
  and device agree on the places of the parts while the file system is open. `FdInv` is
  about the descriptor: the thread is between its two calls only while there is a dirty
  page. `CleanIsOnDevice` is the last part: a page becomes clean by the thread's write,
  which goes to block 0 or is counted in `fd.diverted`. `LayoutStays` needs no such
  exception: wherever the write goes, what it writes has the places that block 0 has.
* `KillInv`, a kill between two writes. The superblock is the first block that is
  blanked and the first that is written again, the block map the last: as long as the
  run has not come to the block map, the block where the superblock says it begins is
  blank (`KilledIsNotVerified`). A kill among the later blocks of the block map is what
  the property leaves out, as `kfs_verify()` reads the first one only.
* `BuildInv`, what is finished. `Build` is a sequence of joined pieces; `Writes` and
  `SheetIs` say which block each of its positions writes, `SheetsApart` that no two
  write the same. So every sheet written stands until the run ends, and after it, but in
  the three blocks of `Reach` once a flush has been diverted (`Safe`). From this follow
  `PartsStay`, which needs no exception, and, while no flush has been diverted, that
  `kfs_verify()` finds what it looks for (`BuiltVerifies`). For `MapMarks` the fold over
  the parts is unfolded (`MarksAre`), and the numbers of their blocks add up as the
  parts are disjoint.
* `FlushInv`, where the descriptor can stand while the thread is between its two calls:
  where the thread has put it, or in a block of `Reach`; and if a slot call is before
  its `read()`, where a `lseek()` has put it, the thread's or its own (`FlushSlot`).
  That the `read()` then ends at m + n or at n takes that the map of the slots lies in
  the file (`MapReached`). While kfs_mkfs builds there is no process.
* `TypesInv`: the blocks of a file system that is built hold numbers, as its parts are
  numbers (`StartNumbered`, `SheetHolds`), and a process writes superblocks only.

Only model-checked: liveness (`DirtyIsFlushed`, `CallReturns`, `MountIsWritten`), as the
prover used has neither fairness nor ENABLED. Every other property of a passing run is
a theorem; those of the runs `careful` and `careful_pages` for one client that follows
the rules, which is also what the two runs check.

## 5. Not modelled

* `slot_cache.c` does not compile (unknown types), `slots.c` is empty; `kfs_server.c` is
  I/O; `hash.c`, `krand64.c`, `dumphex.c`, `sizes.c`, `help_*.c` are pure functions or
  text; `kfs_io.c` is an older `eio.c`, `kfs_info.c` prints.
* What `gc_realloc()`, `gc_strncat()` and `gc_sweep()` leave behind when they go wrong:
  `gc_realloc()` drops the links from the size (gc.c:80) and returns the node (gc.c:88),
  `gc_strncat()` takes the node for the string (gc.c:120-128), `gc_sweep()` looks for
  its mark in front of a node and frees nothing. `AllocList` says when the memory is
  spoilt and not what is in it then. Marks, sizes and trace strings of `gc.c`.
* Everything in `kfs_slot.c` behind its first reads (lines 41 and 217): never reached.
* Errors of the device: `eio.c` ignores them and always answers 0. Writes past the end
  of a device are lost in `Mkfs`; a device that fails in the middle is not modelled.
* The overlapping `memcpy()` of a removal in `dict.c` is taken for a `memmove()`; a key
  of full length is copied without its end.
* The wait of `cache_element_wait_for_flags()` (cache.c:652) is over at its first look
  and answers 0, and `bm_set_extent()` (map.c:284) leaves a rest of one bit alone and
  answers -2: both are modelled as they are, and listed as hazards.
* `strtoul()` saturates, as in C; that the size computed from it wraps around is
  modelled. The percentages are floats in `compute_values()` and exact integers in
  `Layout`. For the tables that makes no difference below 2^16 blocks (compared for
  every percentage). The size that a file that exists is given, the blocks required
  divided by the percentage, is a block less in the code for 3 in 10 000 pairs, the
  first being 145 blocks at 29 per cent.
* Time stamps, displays, traces, names and contents of pages, and access counts beyond
  the LRU comparison.

## 6. Plan

Done: the caches, the bitmap, the life of a file system, the libraries, the step by
step refinement of the write-back store, and the safety proofs above. Left:

1. What the proofs about one careful client need of several: the weakest rule between
   two clients under which `NoLostWrite` and `NothingLost` still hold, as a run first.
2. `Apart` for growing pages, with an extent that contains another one.
