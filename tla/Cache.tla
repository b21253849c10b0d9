------------------------------- MODULE Cache -------------------------------
(* The generic element cache of fs/cache.c: a table of pointers to heap      *)
(* elements, one background thread that flushes and evicts, and any number   *)
(* of client threads calling the API.  ca_mutex protects the table,          *)
(* ce_mutex each element; several reads and writes of the flag words happen  *)
(* under neither, and are therefore steps of their own here.                 *)
(*                                                                           *)
(* An operator named Broken... is a plausible bug in the definition that     *)
(* follows it; nothing uses it but the mutation checks of PROJECT.json.      *)
EXTENDS Integers, FiniteSets

CONSTANTS
  Clients,    \* threads calling the API
  Addr,       \* the addresses malloc() can hand out for elements
  Capacity,   \* ca_elements_capacity
  INT_MAX,    \* limits.h: the LRU scan starts from it
  MaxCalls,   \* bound: the calls one client makes
  Ops,        \* the API functions the clients call
  Faults,     \* what can go wrong: "timeout", "malloc", "pthread_create"
  Careful,    \* TRUE: the clients follow the rules stated at Begin and GiveUp
  Thread,     \* the cache thread
  NoOne,      \* the owner of a free mutex
  NULL

AllOps == {"map", "lookup", "evict", "mark_dirty", "mark_eviction", "pin",
           "unpin", "wait_el", "sync", "disable", "pause", "clear_pause",
           "clear_loop_done", "set_flags"}

ASSUME ConstantsAssumption ==
  /\ Capacity \in Nat \ {0} /\ MaxCalls \in Nat /\ INT_MAX \in Nat
  /\ Ops \subseteq AllOps /\ Careful \in BOOLEAN
  /\ NULL \notin Addr
  /\ Thread \notin Clients /\ NoOne \notin Clients \union {Thread}

Slots == 1 .. Capacity
Procs == Clients \union {Thread}

ElFlags == {"ACTIVE", "DIRTY", "EVICT", "PIN", "CLEAN"}
CaFlags == {"READY", "ACTIVE", "SYNC", "FLUSH", "PAUSE", "EXIT", "ON_LOOP",
            "EVICTED", "SET_LOOP_DONE", "LOOP_DONE"}

VARIABLES
  ca_flags, ca_mutex, ca_in_use,
  ca_ptr,     \* ca_elements_ptr: Slots -> address or NULL
  exists,     \* FALSE once cache_disable() has destroyed the cache
  heap,       \* addresses now allocated; a freed element keeps its last flags
  ce_flags, ce_count, ce_mutex,
  unsaved,    \* elements whose memory, declared dirty, has not been flushed
  pc, idx,    \* per process: program counter and slot index
  seen,       \* the ca_flags it has read and is about to write back
  tflags,     \* the thread's copy "flags" of an element's flags
  op,         \* per client: the API function running,
  el, arg,    \* the element or key, and the flag, it works on,
  handle,     \* the element pointer the client holds,
  rc, left    \* the last return code and the calls left

cacheVars == <<ca_flags, ca_mutex, ca_in_use, ca_ptr, exists>>
heapVars  == <<heap, ce_flags, ce_count, ce_mutex, unsaved>>
keptVars  == <<seen, tflags, op, el, arg, left>>
vars == <<cacheVars, heapVars, keptVars, pc, idx, handle, rc>>

\* cache_init(): an empty table, READY set; the thread is created later.
Init ==
  /\ ca_flags = {"READY"} /\ ca_mutex = NoOne /\ ca_in_use = 0
  /\ ca_ptr = [i \in Slots |-> NULL] /\ exists = TRUE
  /\ heap = {} /\ unsaved = {}
  /\ ce_flags = [a \in Addr |-> {}] /\ ce_count = [a \in Addr |-> 0]
  /\ ce_mutex = [a \in Addr |-> NoOne]
  /\ pc = [p \in Procs |-> IF p = Thread THEN "none" ELSE "idle"]
  /\ idx = [p \in Procs |-> 1] /\ seen = [p \in Procs |-> {}] /\ tflags = {}
  /\ op = [c \in Clients |-> "none"] /\ el = [c \in Clients |-> NULL]
  /\ arg = [c \in Clients |-> "none"] /\ handle = [c \in Clients |-> NULL]
  /\ rc = [c \in Clients |-> 0] /\ left = [c \in Clients |-> MaxCalls]

Goto(p, label) == pc' = [pc EXCEPT ![p] = label]

\* p goes on at a label, and nothing else about the processes changes;
\* the same with a new slot index.
Step(p, label) == Goto(p, label) /\ UNCHANGED <<keptVars, idx, handle, rc>>
StepIdx(p, label, i) ==
  Goto(p, label) /\ idx' = [idx EXCEPT ![p] = i] /\ UNCHANGED <<keptVars, handle, rc>>

-----------------------------------------------------------------------------
(* An element and its mutex.  The thread's pass and                          *)
(* cache_element_evict_by_idx() treat an element they have locked alike.     *)

Victim(p) == ca_ptr[idx[p]]

BrokenMutexFree(a) == TRUE
MutexFree(a) == ce_mutex[a] = NoOne

SetMutex(a, owner) ==
  /\ ce_mutex' = [ce_mutex EXCEPT ![a] = owner]
  /\ UNCHANGED <<heap, ce_flags, ce_count, unsaved>>

\* What the thread's copied flags ask for: after its flush test, and with it.
BrokenAfterFlush(p) == "retire"
AfterFlush(p) == IF p = Thread /\ "EVICT" \notin tflags THEN "release" ELSE "retire"

BrokenWork(p, f) == IF "EVICT" \in f THEN "retire" ELSE
                    IF "DIRTY" \in f THEN "flush" ELSE AfterFlush(p)
LazyWork(p, f) == IF {"EVICT", "DIRTY"} \subseteq f THEN "flush" ELSE AfterFlush(p)
Work(p, f) == IF "DIRTY" \in f THEN "flush" ELSE AfterFlush(p)

BrokenFlushed(a) == unsaved
Flushed(a) == unsaved \ {a}

\* CACHE_EL_ADD_COUNT, the flush callback, then DIRTY off and CLEAN on.
Flush(p) ==
  /\ pc[p] = "flush"
  /\ ce_count' = [ce_count EXCEPT ![Victim(p)] = @ + 1]
  /\ ce_flags' = [ce_flags EXCEPT ![Victim(p)] = (@ \ {"DIRTY"}) \union {"CLEAN"}]
  /\ unsaved' = Flushed(Victim(p))
  /\ Step(p, AfterFlush(p))
  /\ UNCHANGED <<cacheVars, heap, ce_mutex>>

\* The evict callback, ca_elements_in_use-- and ce_flags = 0.
BrokenRetire(p) ==
  /\ pc[p] = "retire" /\ Step(p, "free")
  /\ ce_flags' = [ce_flags EXCEPT ![Victim(p)] = {}]
  /\ UNCHANGED <<cacheVars, heap, ce_count, ce_mutex, unsaved>>

Retire(p) ==
  /\ pc[p] = "retire" /\ Step(p, "free")
  /\ ca_in_use' = ca_in_use - 1
  /\ ce_flags' = [ce_flags EXCEPT ![Victim(p)] = {}]
  /\ UNCHANGED <<ca_flags, ca_mutex, ca_ptr, exists, heap, ce_count, ce_mutex, unsaved>>

\* Unlock and destroy ce_mutex, free(el).
Free(p) ==
  /\ pc[p] = "free" /\ Step(p, "clear")
  /\ ce_mutex' = [ce_mutex EXCEPT ![Victim(p)] = NoOne]
  /\ heap' = heap \ {Victim(p)}
  /\ UNCHANGED <<cacheVars, ce_flags, ce_count, unsaved>>

\* The slot is emptied after the element is freed; the pass goes to the next
\* slot, a client goes on with its call.
AfterClear(p) == IF op[p] = "map" THEN "alloc" ELSE "unlock"

BrokenClear(p) ==
  /\ pc[p] = "clear"
  /\ IF p = Thread THEN StepIdx(p, "scan", idx[p] + 1) ELSE Step(p, AfterClear(p))
  /\ UNCHANGED <<cacheVars, heapVars>>

Clear(p) ==
  /\ pc[p] = "clear"
  /\ ca_ptr' = [ca_ptr EXCEPT ![idx[p]] = NULL]
  /\ IF p = Thread THEN StepIdx(p, "scan", idx[p] + 1) ELSE Step(p, AfterClear(p))
  /\ UNCHANGED <<ca_flags, ca_mutex, ca_in_use, exists, heapVars>>

Dispose(p) == Flush(p) \/ Retire(p) \/ Free(p) \/ Clear(p)

-----------------------------------------------------------------------------
(* cache_enable() and cache_thread().                                        *)

CacheEnable ==
  /\ exists /\ pc[Thread] = "none" /\ "READY" \in ca_flags
  /\ \/ Step(Thread, "start")
     \/ "pthread_create" \in Faults /\ Step(Thread, "failed")
  /\ UNCHANGED <<cacheVars, heapVars>>

SetCaFlags(f) ==
  ca_flags' = f /\ UNCHANGED <<ca_mutex, ca_in_use, ca_ptr, exists, heapVars>>

\* "ca_flags |= CACHE_ACTIVE" is done without ca_mutex: a read, then a write.
ThreadStart ==
  /\ pc[Thread] = "start" /\ Goto(Thread, "start_write")
  /\ seen' = [seen EXCEPT ![Thread] = ca_flags]
  /\ UNCHANGED <<cacheVars, heapVars, tflags, op, el, arg, left, idx, handle, rc>>

ThreadStartWrite ==
  /\ pc[Thread] = "start_write" /\ Step(Thread, "top")
  /\ SetCaFlags(seen[Thread] \union {"ACTIVE"})

\* While paused the loop sleeps and goes straight to its condition.
ThreadTop ==
  /\ pc[Thread] = "top"
  /\ Step(Thread, IF "PAUSE" \in ca_flags THEN "check" ELSE "lock")
  /\ UNCHANGED <<cacheVars, heapVars>>

ThreadLock ==
  /\ pc[Thread] = "lock" /\ ca_mutex = NoOne /\ ca_mutex' = Thread
  /\ ca_flags' = IF ca_in_use > 0 THEN ca_flags \union {"ON_LOOP"} ELSE ca_flags
  /\ StepIdx(Thread, "scan", IF ca_in_use > 0 THEN 1 ELSE Capacity + 1)
  /\ UNCHANGED <<ca_in_use, ca_ptr, exists, heapVars>>

BrokenNextSlot == StepIdx(Thread, "scan", idx[Thread] + 2)
NextSlot == StepIdx(Thread, "scan", idx[Thread] + 1)

\* The slot the pass is at holds an active element.
AtElement == Victim(Thread) # NULL /\ "ACTIVE" \in ce_flags[Victim(Thread)]

ThreadSkip ==
  /\ pc[Thread] = "scan" /\ idx[Thread] \in Slots /\ ~AtElement
  /\ NextSlot /\ UNCHANGED <<cacheVars, heapVars>>

\* The flags are copied before the element is locked.
ThreadReadFlags ==
  /\ pc[Thread] = "scan" /\ idx[Thread] \in Slots /\ AtElement
  /\ tflags' = ce_flags[Victim(Thread)] /\ Goto(Thread, "try")
  /\ UNCHANGED <<cacheVars, heapVars, seen, op, el, arg, left, idx, handle, rc>>

ThreadTryFails ==
  /\ pc[Thread] = "try" /\ ~MutexFree(Victim(Thread))
  /\ NextSlot /\ UNCHANGED <<cacheVars, heapVars>>

ThreadTryLock ==
  /\ pc[Thread] = "try" /\ MutexFree(Victim(Thread))
  /\ Step(Thread, Work(Thread, tflags))
  /\ SetMutex(Victim(Thread), Thread) /\ UNCHANGED cacheVars

ThreadRelease ==
  /\ pc[Thread] = "release" /\ NextSlot
  /\ SetMutex(Victim(Thread), NoOne) /\ UNCHANGED cacheVars

\* The flags at the end of a pass: ON_LOOP off, EXIT answered by EVICTED,
\* SET_LOOP_DONE replaced by LOOP_DONE.
BrokenPassEndFlags(f) == f \ {"ON_LOOP", "SET_LOOP_DONE"}
PassEndFlags(f) ==
  (f \ {"ON_LOOP", "SET_LOOP_DONE"})
  \union (IF "EXIT" \in f THEN {"EVICTED"} ELSE {})
  \union (IF "SET_LOOP_DONE" \in f THEN {"LOOP_DONE"} ELSE {})

ThreadPassEnd ==
  /\ pc[Thread] = "scan" /\ idx[Thread] \notin Slots /\ Step(Thread, "check")
  /\ ca_flags' = PassEndFlags(ca_flags) /\ ca_mutex' = NoOne
  /\ UNCHANGED <<ca_in_use, ca_ptr, exists, heapVars>>

ThreadCheck ==
  /\ pc[Thread] = "check"
  /\ Step(Thread, IF "EVICTED" \in ca_flags THEN "finish" ELSE "top")
  /\ UNCHANGED <<cacheVars, heapVars>>

\* The last store to ca_flags, again without ca_mutex.
ThreadFinish ==
  /\ pc[Thread] = "finish" /\ Step(Thread, "ended")
  /\ SetCaFlags({"EXIT", "EVICTED"})

\* Once the cache is destroyed a step of the thread is undefined: none is modelled.
ThreadNext ==
  /\ exists
  /\ \/ ThreadStart \/ ThreadStartWrite \/ ThreadTop \/ ThreadLock
     \/ ThreadSkip \/ ThreadReadFlags \/ ThreadTryFails \/ ThreadTryLock
     \/ ThreadRelease \/ Dispose(Thread)
     \/ ThreadPassEnd \/ ThreadCheck \/ ThreadFinish

-----------------------------------------------------------------------------
(* The API as the clients call it.                                           *)

Return(c, code) == Goto(c, "idle") /\ rc' = [rc EXCEPT ![c] = code]

Disabling == \E c \in Clients : op[c] = "disable" /\ pc[c] # "idle"

\* Nobody uses a cache that is being disabled.  Careful clients also wait for
\* CACHE_ACTIVE first, as test_cache.c and pgcache_enable_sync() do.
Begin(c, o) ==
  /\ exists /\ ~Disabling
  /\ pc[c] = "idle" /\ left[c] > 0 /\ o \in Ops
  /\ Careful => "ACTIVE" \in ca_flags
  /\ op' = [op EXCEPT ![c] = o] /\ left' = [left EXCEPT ![c] = @ - 1]
  /\ UNCHANGED <<cacheVars, heapVars, seen, tflags, idx>>

Pinned(a) == "PIN" \in ce_flags[a]

\* Careful clients forget a pointer once they have asked for the element to go,
\* do not ask that of a pinned element, and leave EXIT and SET_LOOP_DONE to the
\* functions that wait for the answer.
GiveUp(c) == handle' = [handle EXCEPT ![c] = IF Careful THEN NULL ELSE @]

SettableFlags == IF Careful THEN {"SYNC", "FLUSH", "PAUSE"}
                 ELSE {"SYNC", "FLUSH", "PAUSE", "EXIT", "SET_LOOP_DONE"}

\* The flag a function sets or clears.
FlagOf(o) == CASE o = "sync" -> "SET_LOOP_DONE" [] o = "disable" -> "EXIT"
               [] o = "clear_loop_done" -> "LOOP_DONE" [] OTHER -> "PAUSE"

\* cache_element_map(), cache_pause(), cache_clear_pause(),
\* cache_clear_loop_done() and cache_set_flags() start by locking ca_mutex.
CallLocked(c) ==
  /\ \/ \E o \in {"map", "pause", "clear_pause", "clear_loop_done"} :
          Begin(c, o) /\ arg' = [arg EXCEPT ![c] = FlagOf(o)]
     \/ \E f \in SettableFlags : Begin(c, "set_flags") /\ arg' = [arg EXCEPT ![c] = f]
  /\ Goto(c, "lock") /\ UNCHANGED <<el, handle, rc>>

\* cache_lookup() and cache_element_evict() search for a key.
CallKeyed(c) ==
  /\ \E key \in Addr :
       /\ el' = [el EXCEPT ![c] = key]
       /\ \/ Begin(c, "lookup") /\ UNCHANGED handle
          \/ /\ Begin(c, "evict") /\ GiveUp(c)
             /\ Careful => key = handle[c] /\ ~Pinned(key)
  /\ Goto(c, "lock") /\ UNCHANGED <<arg, rc>>

\* cache_sync() is refused unless READY, which is read without ca_mutex.
CallSync(c) ==
  /\ Begin(c, "sync") /\ arg' = [arg EXCEPT ![c] = FlagOf("sync")]
  /\ IF "READY" \in ca_flags
     THEN /\ Goto(c, "lock") /\ UNCHANGED rc
          /\ IF handle[c] # NULL /\ Pinned(handle[c]) THEN UNCHANGED handle ELSE GiveUp(c)
     ELSE Return(c, -1) /\ UNCHANGED handle
  /\ UNCHANGED el

\* cache_disable(), by the last user of a cache that was enabled.
CallDisable(c) ==
  /\ Begin(c, "disable") /\ pc[Thread] # "none"
  /\ \A d \in Clients : pc[d] = "idle"
  /\ arg' = [arg EXCEPT ![c] = FlagOf("disable")]
  /\ Goto(c, "lock") /\ GiveUp(c) /\ UNCHANGED <<el, rc>>

\* The functions on one element look at ACTIVE before they lock it.
CallElement(c) ==
  /\ handle[c] # NULL
  /\ \E o \in {"mark_dirty", "mark_eviction", "pin", "unpin"} :
       /\ Begin(c, o)
       /\ Careful /\ o = "mark_eviction" => ~Pinned(handle[c])
  /\ el' = [el EXCEPT ![c] = handle[c]]
  /\ IF "ACTIVE" \in ce_flags[handle[c]] THEN Goto(c, "el_wait") /\ UNCHANGED rc
                                         ELSE Return(c, -1)
  /\ UNCHANGED <<arg, handle>>

\* cache_element_wait_for_flags() sleeps, then locks the element, unless the
\* timeout has gone by.
CallWaitEl(c) ==
  /\ handle[c] # NULL /\ Begin(c, "wait_el")
  /\ \E f \in {"CLEAN", "DIRTY", "PIN"} : arg' = [arg EXCEPT ![c] = f]
  /\ el' = [el EXCEPT ![c] = handle[c]]
  /\ (Goto(c, "el_wait") /\ UNCHANGED rc) \/ Return(c, 1)
  /\ UNCHANGED handle

Call(c) == \/ CallLocked(c) \/ CallKeyed(c) \/ CallSync(c) \/ CallDisable(c)
           \/ CallElement(c) \/ CallWaitEl(c)

-----------------------------------------------------------------------------
(* Inside a call: ca_mutex and the table.                                    *)

AfterLock(o) == CASE o \in {"map", "lookup", "evict"} -> "find"
                  [] o \in {"sync", "disable"} -> "mark"
                  [] OTHER -> "read"

LockCa(c) ==
  /\ pc[c] = "lock" /\ ca_mutex = NoOne /\ ca_mutex' = c
  /\ StepIdx(c, AfterLock(op[c]), 1)
  /\ UNCHANGED <<ca_flags, ca_in_use, ca_ptr, exists, heapVars>>

UnlockCa(c) ==
  /\ pc[c] = "unlock" /\ Step(c, "idle") /\ ca_mutex' = NoOne
  /\ UNCHANGED <<ca_flags, ca_in_use, ca_ptr, exists, heapVars>>

IsFirst(i, S) == i \in S /\ \A j \in S : i <= j

FreeSlots == {i \in Slots : ca_ptr[i] = NULL}

\* The victims of an LRU eviction: not pinned, and counted below INT_MAX.
BrokenEvictable == {i \in Slots : ce_count[ca_ptr[i]] < INT_MAX}
Evictable == {i \in Slots : ~Pinned(ca_ptr[i]) /\ ce_count[ca_ptr[i]] < INT_MAX}

LeastUsed(S) ==
  {i \in S : \A j \in S : ce_count[ca_ptr[i]] <= ce_count[ca_ptr[j]]}

\* cache_element_map() takes the first empty slot, or the first of the least
\* used elements, or gives up: "all cache elements are pinned".
MapRefused(c) ==
  /\ handle' = [handle EXCEPT ![c] = NULL] /\ rc' = [rc EXCEPT ![c] = -1]
  /\ Goto(c, "unlock") /\ UNCHANGED <<cacheVars, heapVars, keptVars, idx>>

FindRoom(c) ==
  /\ pc[c] = "find" /\ op[c] = "map"
  /\ \/ /\ \E i \in Slots : IsFirst(i, FreeSlots) /\ StepIdx(c, "alloc", i)
        /\ UNCHANGED <<cacheVars, heapVars>>
     \/ /\ FreeSlots = {}
        /\ \E i \in Slots : IsFirst(i, LeastUsed(Evictable)) /\ StepIdx(c, "ev_lock", i)
        /\ UNCHANGED <<cacheVars, heapVars>>
     \/ FreeSlots = {} /\ Evictable = {} /\ MapRefused(c)

\* malloc(), memset(), and the fields cache_element_map() fills in.
Alloc(c) ==
  /\ pc[c] = "alloc"
  /\ \E a \in Addr \ heap :
       /\ heap' = heap \union {a} /\ unsaved' = unsaved \ {a}
       /\ ce_flags' = [ce_flags EXCEPT ![a] = {"ACTIVE", "CLEAN"}]
       /\ ce_count' = [ce_count EXCEPT ![a] = 1]
       /\ ce_mutex' = [ce_mutex EXCEPT ![a] = NoOne]
       /\ ca_ptr' = [ca_ptr EXCEPT ![idx[c]] = a]
       /\ handle' = [handle EXCEPT ![c] = a]
  /\ ca_in_use' = ca_in_use + 1
  /\ rc' = [rc EXCEPT ![c] = 0] /\ Goto(c, "unlock")
  /\ UNCHANGED <<ca_flags, ca_mutex, exists, keptVars, idx>>

AllocFails(c) ==
  pc[c] = "alloc" /\ "malloc" \in Faults /\ MapRefused(c)

\* cache_lookup(): an element's address is its ce_id.
Lookup(c) ==
  /\ pc[c] = "find" /\ op[c] = "lookup" /\ Goto(c, "unlock")
  /\ IF \E i \in Slots : ca_ptr[i] = el[c]
     THEN /\ handle' = [handle EXCEPT ![c] = el[c]]
          /\ ce_count' = [ce_count EXCEPT ![el[c]] = @ + 1]
     ELSE handle' = [handle EXCEPT ![c] = NULL] /\ UNCHANGED ce_count
  /\ UNCHANGED <<cacheVars, heap, ce_flags, ce_mutex, unsaved, keptVars, idx, rc>>

\* cache_element_evict(): the slot with this key, if any.
FindKey(c) ==
  /\ pc[c] = "find" /\ op[c] = "evict"
  /\ \/ \E i \in Slots : ca_ptr[i] = el[c] /\ StepIdx(c, "ev_lock", i)
     \/ (\A i \in Slots : ca_ptr[i] # el[c]) /\ Step(c, "unlock")
  /\ UNCHANGED <<cacheVars, heapVars>>

\* cache_element_evict_by_idx(): here the flags are read with the lock held.
EvictLock(c) ==
  /\ pc[c] = "ev_lock" /\ MutexFree(Victim(c))
  /\ Step(c, Work(c, ce_flags[Victim(c)]))
  /\ SetMutex(Victim(c), c) /\ UNCHANGED cacheVars

-----------------------------------------------------------------------------
(* Inside a call: one element, and the flags of the cache.                   *)

\* cache_sync() and cache_disable() mark the table slot by slot; only
\* cache_sync() passes over pinned elements.
BrokenMarkable(c, a) == a # NULL /\ ~Pinned(a) /\ "ACTIVE" \in ce_flags[a]
Markable(c, a) ==
  a # NULL /\ (op[c] = "sync" => ~Pinned(a)) /\ "ACTIVE" \in ce_flags[a]

Mark(c) ==
  /\ pc[c] = "mark"
  /\ \/ idx[c] \notin Slots /\ Step(c, "read")
     \/ idx[c] \in Slots /\ ~Markable(c, Victim(c)) /\ StepIdx(c, "mark", idx[c] + 1)
     \/ /\ idx[c] \in Slots /\ Markable(c, Victim(c))
        /\ el' = [el EXCEPT ![c] = Victim(c)] /\ Goto(c, "el_wait")
        /\ UNCHANGED <<seen, tflags, op, arg, left, idx, handle, rc>>
  /\ UNCHANGED <<cacheVars, heapVars>>

\* pthread_mutex_lock() on an element.  The element may have been freed since
\* ACTIVE was read: the lock then hangs or, as here, is granted.
ElLock(c) ==
  /\ pc[c] = "el_wait" /\ MutexFree(el[c]) /\ Step(c, "el_held")
  /\ SetMutex(el[c], c) /\ UNCHANGED cacheVars

\* What the function does to the flag word f of its element.
BrokenElementFlags(o, f) == IF o = "mark_dirty" THEN f \union {"DIRTY"} ELSE f
ElementFlags(o, f) ==
  CASE o \in {"mark_eviction", "sync", "disable"} -> f \union {"EVICT"}
    [] o = "mark_dirty" -> (f \union {"DIRTY"}) \ {"CLEAN"}
    [] o = "pin"        -> f \union {"PIN"}
    [] o = "unpin"      -> f \ {"PIN"}
    [] OTHER            -> f

\* The update and the unlock.  cache_element_wait_for_flags() only looks, and
\* returns 0 whatever it sees: its rc starts at 0 and nothing raises it.
ElUpdate(c) ==
  /\ pc[c] = "el_held"
  /\ ce_flags' = [ce_flags EXCEPT ![el[c]] = ElementFlags(op[c], @)]
  /\ unsaved' = IF op[c] = "mark_dirty" THEN unsaved \union {el[c]} ELSE unsaved
  /\ ce_mutex' = [ce_mutex EXCEPT ![el[c]] = NoOne]
  /\ \/ op[c] \in {"sync", "disable"} /\ StepIdx(c, "mark", idx[c] + 1)
     \/ /\ op[c] \notin {"sync", "disable"} /\ Return(c, 0)
        /\ IF op[c] = "mark_eviction" THEN GiveUp(c) ELSE UNCHANGED handle
        /\ UNCHANGED <<keptVars, idx>>
  /\ UNCHANGED <<cacheVars, heap, ce_count>>

\* A change of ca_flags, under ca_mutex but not atomic: the thread writes
\* ca_flags without the mutex when it starts and when it ends.
ReadFlags(c) ==
  /\ pc[c] = "read" /\ Goto(c, "write")
  /\ seen' = [seen EXCEPT ![c] = ca_flags]
  /\ UNCHANGED <<cacheVars, heapVars, tflags, op, el, arg, left, idx, handle, rc>>

Clears(o) == o \in {"clear_pause", "clear_loop_done", "sync_clear"}

WriteFlags(c) ==
  /\ pc[c] = "write" /\ ca_mutex' = NoOne
  /\ ca_flags' = IF Clears(op[c]) THEN seen[c] \ {arg[c]} ELSE seen[c] \union {arg[c]}
  /\ \/ op[c] \in {"sync", "disable"} /\ Step(c, "poll")
     \/ op[c] = "sync_clear" /\ Step(c, "idle")
     \/ /\ op[c] \notin {"sync", "disable", "sync_clear"} /\ Return(c, 0)
        /\ UNCHANGED <<keptVars, idx, handle>>
  /\ UNCHANGED <<ca_in_use, ca_ptr, exists, heapVars>>

\* cache_wait_for_flags(): the flags are up, or ten seconds have gone by.
BrokenAwaited(o) == IF o = "sync" THEN {"SET_LOOP_DONE"} ELSE {"EXIT", "EVICTED"}
Awaited(o) == IF o = "sync" THEN {"LOOP_DONE"} ELSE {"EXIT", "EVICTED"}

Poll(c) ==
  /\ pc[c] = "poll"
  /\ \/ Awaited(op[c]) \subseteq ca_flags /\ rc' = [rc EXCEPT ![c] = 0]
     \/ "timeout" \in Faults /\ rc' = [rc EXCEPT ![c] = 1]
  /\ \/ op[c] = "disable" /\ Goto(c, "join") /\ UNCHANGED <<op, arg>>
     \/ /\ op[c] = "sync" /\ Goto(c, "lock")
        /\ op' = [op EXCEPT ![c] = "sync_clear"]
        /\ arg' = [arg EXCEPT ![c] = FlagOf("clear_loop_done")]
  /\ UNCHANGED <<cacheVars, heapVars, seen, tflags, el, left, idx, handle>>

\* The end of cache_disable(): pthread_join() only if the thread has already
\* published its identity in ca_tid, then mutex and table are destroyed.
BrokenJoined == TRUE
Joined == pc[Thread] \in {"failed", "start", "ended"}

Join(c) ==
  /\ pc[c] = "join" /\ Joined
  /\ exists' = FALSE
  /\ Return(c, 0)
  /\ UNCHANGED <<ca_flags, ca_mutex, ca_in_use, ca_ptr, heapVars, keptVars, idx, handle>>

InCall(c) ==
  \/ LockCa(c) \/ UnlockCa(c) \/ FindRoom(c) \/ Alloc(c) \/ AllocFails(c)
  \/ Lookup(c) \/ FindKey(c) \/ EvictLock(c) \/ Dispose(c)
  \/ Mark(c) \/ ElLock(c) \/ ElUpdate(c)
  \/ ReadFlags(c) \/ WriteFlags(c) \/ Poll(c) \/ Join(c)

-----------------------------------------------------------------------------
Next == CacheEnable \/ ThreadNext \/ \E c \in Clients : Call(c) \/ InCall(c)

Spec == Init /\ [][Next]_vars

\* The operating system keeps running the thread and every call under way, and
\* a mutex that becomes free again and again is granted in the end (the thread
\* takes ca_mutex in every pass); nothing obliges a client to make a call.
Fairness ==
  /\ WF_vars(CacheEnable)
  /\ WF_vars(ThreadNext) /\ SF_vars(exists /\ ThreadLock)
  /\ \A c \in Clients : /\ WF_vars(InCall(c))
                        /\ SF_vars(LockCa(c)) /\ SF_vars(ElLock(c))

FairSpec == Spec /\ Fairness

-----------------------------------------------------------------------------
(* Properties.                                                               *)

ThreadLabels == {"none", "failed", "start", "start_write", "top", "lock",
                 "scan", "try", "flush", "release", "retire", "free", "clear",
                 "check", "finish", "ended"}

ClientLabels == {"idle", "lock", "find", "unlock", "alloc",
                 "ev_lock", "flush", "retire", "free", "clear",
                 "mark", "el_wait", "el_held", "read", "write", "poll", "join"}

CacheTypeOK ==
  /\ ca_flags \subseteq CaFlags /\ ca_mutex \in Procs \union {NoOne}
  /\ ca_in_use \in Int /\ ca_ptr \in [Slots -> Addr \union {NULL}]
  /\ exists \in BOOLEAN

HeapTypeOK ==
  /\ heap \subseteq Addr /\ unsaved \subseteq Addr
  /\ ce_flags \in [Addr -> SUBSET ElFlags] /\ ce_count \in [Addr -> Nat]
  /\ ce_mutex \in [Addr -> Procs \union {NoOne}]

ProcTypeOK ==
  /\ pc \in [Procs -> ThreadLabels \union ClientLabels]
  /\ pc[Thread] \in ThreadLabels /\ \A c \in Clients : pc[c] \in ClientLabels
  /\ idx \in [Procs -> 1 .. Capacity + 1]
  /\ seen \in [Procs -> SUBSET CaFlags] /\ tflags \subseteq ElFlags

CallTypeOK ==
  /\ op \in [Clients -> AllOps \union {"none", "sync_clear"}]
  /\ el \in [Clients -> Addr \union {NULL}]
  /\ arg \in [Clients -> CaFlags \union ElFlags \union {"none"}]
  /\ handle \in [Clients -> Addr \union {NULL}]
  /\ rc \in [Clients -> {-1, 0, 1}] /\ left \in [Clients -> Nat]

\* Every variable has its type.
TypeOK == CacheTypeOK /\ HeapTypeOK /\ ProcTypeOK /\ CallTypeOK

UsedSlots == {i \in Slots : ca_ptr[i] # NULL}

\* ca_elements_in_use, from which the thread decides whether a pass is needed
\* (cache.c:45), is exact whenever ca_mutex is free, whoever evicted or mapped.
InUseExact == ca_mutex = NoOne => ca_in_use = Cardinality(UsedSlots)

\* Whenever ca_mutex is free the table and the heap agree: a slot never holds a
\* freed element, two slots never share one, no element is left out of the
\* table, and every element in it is active, so that the pass will look at it.
TableSound ==
  ca_mutex = NoOne =>
    /\ \A i \in UsedSlots : ca_ptr[i] \in heap /\ "ACTIVE" \in ce_flags[ca_ptr[i]]
    /\ \A i, j \in UsedSlots : ca_ptr[i] = ca_ptr[j] => i = j
    /\ \A a \in heap : \E i \in UsedSlots : ca_ptr[i] = a

\* CLEAN is up only on an active element that is not DIRTY (cache.h:47).
CleanMeansClean ==
  \A a \in Addr : "CLEAN" \in ce_flags[a] =>
    "ACTIVE" \in ce_flags[a] /\ "DIRTY" \notin ce_flags[a]

\* The thread never outlives the cache it works on (cache.c:333).
ThreadEndsFirst == ~exists => pc[Thread] \in {"failed", "ended"}

\* EVICTED says that the list has been evicted (cache.h:79): nothing is left.
EvictedMeansEmpty == "EVICTED" \in ca_flags => heap = {}

\* An element is freed only once the data declared dirty has been flushed.
NoLostWrite == [][\A a \in heap \ heap' : a \notin unsaved]_vars

\* Data that still has to be flushed is always behind a DIRTY flag, which is all
\* the flush test of the thread and of an eviction looks at.
UnsavedIsDirty == \A a \in unsaved \intersect heap : "DIRTY" \in ce_flags[a]

\* No use after free: the pointer a client keeps between calls, and the element
\* it is locking or updating, are still allocated.
HandleSafe ==
  \A c \in Clients :
    /\ pc[c] = "idle" /\ handle[c] # NULL => handle[c] \in heap
    /\ pc[c] \in {"el_wait", "el_held"} => el[c] \in heap

\* Who is between lock and unlock of element a.
InElement(a) ==
  {c \in Clients : pc[c] = "el_held" /\ el[c] = a}
  \union {p \in Procs : pc[p] \in {"flush", "release", "retire", "free"} /\ Victim(p) = a}

\* The mutex of an element keeps out everyone but its owner, over all the lives
\* of the address.
ElementExclusive ==
  \A a \in Addr : \A p, q \in InElement(a) : p = q

\* A pinned element is evicted only when the whole cache is disabled
\* (cache.h:43, 159, 192).
PinnedStays ==
  [][\A a \in heap : Pinned(a) /\ ce_flags'[a] = {} =>
       "EXIT" \in ca_flags]_vars

\* When cache_sync() returns 0 only pinned elements are left (cache.h:159).
SyncEvicts ==
  [][\A c \in Clients :
       op[c] = "sync_clear" /\ pc[c] = "write" /\ rc[c] = 0 /\ pc'[c] = "idle"
         => \A i \in UsedSlots : Pinned(ca_ptr[i])]_vars

\* Dirty data is flushed in the end.
DirtyIsFlushed == \A a \in Addr : a \in unsaved ~> a \notin unsaved

\* Every call returns: no deadlock over the two kinds of mutex, and the waits
\* of cache_sync() and cache_disable() are answered by the thread.
CallReturns == \A c \in Clients : pc[c] # "idle" ~> pc[c] = "idle"

=============================================================================
