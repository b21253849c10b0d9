---------------------------- MODULE CarefulProofs ----------------------------
(* Proofs about one careful client of Cache and the thread: what it has marked *)
(* dirty is not freed unflushed, what it points to is not freed, what it has   *)
(* pinned stays, and cache_disable() leaves nothing behind.  The runs          *)
(* lost_write and lost_exit show that neither the one client nor its care can  *)
(* be left out.                                                                *)
EXTENDS CacheProofs

\* At most one client, which follows the rules and looks nothing up again.
OneCareful ==
  Careful = TRUE /\ "lookup" \notin Ops /\ \A c, d \in Clients : c = d

\* The labels of an eviction or a mapping that may free what the client holds.
Evicting == {"ev_lock", "flush", "retire", "free", "clear", "alloc"}
AtVictim == {"flush", "release", "retire", "free"}
Waiting  == {"el_wait", "el_held"}
Sweeps   == {"sync", "disable"}

\* What the client points to is there, and nobody has asked for it to go.
Kept(a) == a \in heap /\ "ACTIVE" \in ce_flags[a] /\ "EVICT" \notin ce_flags[a]
HandleInv ==
  \A c \in Clients : handle[c] # NULL /\ pc[c] \notin Evicting => Kept(handle[c])

\* The element a call works on.
CallInv ==
  \A c \in Clients :
    /\ pc[c] \in Waiting /\ op[c] \notin Sweeps => el[c] = handle[c]
    /\ pc[c] \in Waiting /\ op[c] \in Sweeps => el[c] = Victim(c)
    /\ pc[c] \in Waiting /\ op[c] \in {"sync", "mark_eviction"} => ~Pinned(el[c])
    /\ pc[c] \in Evicting => op[c] \in {"map", "evict"}
    /\ pc[c] # "idle" /\ op[c] \in {"evict", "disable"} => handle[c] = NULL
    /\ pc[c] # "idle" /\ op[c] = "sync" /\ handle[c] # NULL => Pinned(handle[c])
    /\ pc[c] \in {"lock", "find"} /\ op[c] = "evict" => ~Pinned(el[c])
    /\ pc[c] \in {"ev_lock", "flush", "retire"} => ~Pinned(Victim(c))
    /\ op[c] # "lookup" /\ (pc[c] = "alloc" => op[c] = "map")
    /\ op[c] \in FlagOps \ {"disable"} => arg[c] \notin {"EXIT", "EVICTED"}
    /\ op[c] = "disable" => arg[c] = "EXIT"

\* The thread frees what was marked when it looked; nobody holds that any more.
ThreadInv ==
  /\ pc[Thread] \in {"retire", "free", "clear"} => "EVICT" \in tflags
  /\ pc[Thread] \in {"try", "flush", "retire", "free"} /\ "EVICT" \in tflags
       => \A c \in Clients : handle[c] # Victim(Thread)

\* Who works on an element has its mutex.
OwnerInv ==
  /\ \A p \in Procs : pc[p] \in AtVictim => ce_mutex[Victim(p)] = p
  /\ \A c \in Clients : pc[c] = "el_held" => ce_mutex[el[c]] = c

\* What is about to be freed is saved.
SavedInv ==
  /\ UnsavedIsDirty
  /\ \A p \in Procs : pc[p] \in {"retire", "free"} => Victim(p) \notin unsaved
  /\ pc[Thread] = "try" /\ "EVICT" \in tflags /\ Victim(Thread) \in unsaved
       => "DIRTY" \in tflags

\* No call before the thread runs; none after the cache is gone.
StartInv ==
  /\ pc[Thread] \in {"none", "failed", "start", "start_write"}
       => /\ "ACTIVE" \notin ca_flags /\ "EXIT" \notin ca_flags /\ "EVICTED" \notin ca_flags
          /\ \A c \in Clients : pc[c] = "idle"
  /\ ~exists => pc[Thread] \in {"failed", "ended"} /\ \A c \in Clients : pc[c] = "idle"

\* EXIT is set by cache_disable() and stays.
Ending ==
  "EXIT" \in ca_flags \/ "EVICTED" \in ca_flags \/ pc[Thread] \in {"finish", "ended"}
ExitInv ==
  /\ Ending => /\ "EXIT" \in ca_flags
               /\ exists =>
                    \A c \in Clients : op[c] = "disable" /\ pc[c] \in {"poll", "join"}
  /\ pc[Thread] = "start_write" =>
       "EXIT" \notin seen[Thread] /\ "EVICTED" \notin seen[Thread]
  /\ \A c \in Clients : pc[c] = "write" => "EXIT" \notin seen[c] /\ "EVICTED" \notin seen[c]

\* A pinned element is marked by cache_disable() only.
PinInv ==
  /\ \A a \in heap : "EVICT" \in ce_flags[a] /\ Pinned(a) =>
       \/ "EXIT" \in ca_flags
       \/ \E c \in Clients : op[c] = "disable"
                             /\ pc[c] \in {"mark", "el_wait", "el_held", "read", "write"}
  /\ pc[Thread] \in {"try", "flush", "retire"} /\ "EVICT" \in tflags
       /\ Pinned(Victim(Thread)) => "EXIT" \in ca_flags

CInv ==
  /\ HandleInv /\ CallInv /\ ThreadInv /\ OwnerInv /\ SavedInv /\ StartInv /\ ExitInv
  /\ PinInv

\* A mutex is taken only by somebody who works on the element.
OwnedInv ==
  \A a \in Addr : ce_mutex[a] # NoOne =>
    \/ \E p \in Procs : pc[p] \in AtVictim /\ Victim(p) = a
    \/ \E c \in Clients : pc[c] = "el_held" /\ el[c] = a

\* cache_disable() has marked the slots it has passed, and all when EXIT is set.
Marked(i) == ca_ptr[i] # NULL => "EVICT" \in ce_flags[ca_ptr[i]] \/ Retired(i)
MarkedInv ==
  /\ \A c \in Clients : op[c] = "disable" =>
       /\ pc[c] \in {"mark", "el_wait", "el_held"} =>
            \A i \in Slots : i < idx[c] => Marked(i)
       /\ pc[c] \in {"read", "write"} => \A i \in Slots : Marked(i)
  /\ "EXIT" \in ca_flags => \A i \in Slots : Marked(i)

\* The pass that meets EXIT empties every slot it passes.
EmptiedInv ==
  /\ "EXIT" \in ca_flags /\ HoldsCa(Thread) =>
       /\ \A i \in Slots : i < idx[Thread] => ca_ptr[i] = NULL
       /\ pc[Thread] \in {"try", "flush", "retire", "free"} => "EVICT" \in tflags
       /\ pc[Thread] # "release"
  /\ "EVICTED" \in ca_flags =>
       heap = {} /\ pc[Thread] \in {"check", "finish", "ended"}
  /\ pc[Thread] \in {"finish", "ended"} => "EVICTED" \in ca_flags

EInv == OwnedInv /\ MarkedInv /\ EmptiedInv

-----------------------------------------------------------------------------

\* An element under eviction or flush is still allocated.
LEMMA VictimAlive ==
  ASSUME IInv, NEW p \in Procs,
         pc[p] \in {"try", "flush", "release", "retire", "free", "ev_lock"}
  PROVE  Victim(p) \in heap
<1>1. idx[p] \in UsedSlots /\ Victim(p) \in Addr
  BY VictimType DEF IInv, UsedSlots, Victim, TableInv, VictimPresent
<1>2. HoldsCa(p)
  BY ConstantsAssumption DEF HoldsCa, Procs, IInv, TypeOK, ProcTypeOK,
     ThreadLabels, ClientLabels
<1>3. ca_mutex = p
  BY <1>2 DEF IInv, MutexInv
<1> QED
  BY <1>1, <1>3 DEF IInv, TableInv, SlotsLive, Freed, Victim

-----------------------------------------------------------------------------
(* Every step keeps each part of CInv and EInv.                              *)

\* What the client points to is neither freed nor marked by a step of the thread, nor
\* by a call of its own that lets it keep the pointer.
LEMMA HandleStep ==
  OneCareful /\ IInv /\ CInv /\ Next => HandleInv'
<1> SUFFICES ASSUME OneCareful, IInv, CInv, Next PROVE HandleInv'
  OBVIOUS
<1> USE ConstantsAssumption DEF OneCareful, IInv, CInv, TypeOK, HeapTypeOK, ProcTypeOK,
        CallTypeOK, HandleInv, Kept, Evicting, Procs, Step, StepIdx, Goto, cacheVars,
        heapVars, keptVars
<1>1. ASSUME CacheEnable \/ ThreadStart \/ ThreadStartWrite \/ ThreadTop \/ ThreadLock
      PROVE  HandleInv'
  BY <1>1
     DEF CacheEnable, ThreadStart, ThreadStartWrite, SetCaFlags, ThreadTop, ThreadLock
<1>2. ASSUME ThreadSkip \/ ThreadReadFlags \/ ThreadTryFails \/ ThreadTryLock
             \/ ThreadRelease
      PROVE  HandleInv'
  BY <1>2
     DEF ThreadSkip, NextSlot, ThreadReadFlags, ThreadTryFails, ThreadTryLock, Work,
         AfterFlush, SetMutex, ThreadRelease
<1>3. ASSUME ThreadPassEnd \/ ThreadCheck \/ ThreadFinish PROVE HandleInv'
  BY <1>3
     DEF ThreadPassEnd, ThreadCheck, ThreadFinish, SetCaFlags
<1>4. ASSUME NEW p \in Procs, Flush(p) PROVE HandleInv'
  BY <1>4, VictimType
     DEF Flush, AfterFlush, CallInv
<1>5. ASSUME NEW p \in Procs, Retire(p) PROVE HandleInv'
  BY <1>5, VictimType
     DEF Retire, ThreadInv, CallInv
<1>6. ASSUME NEW p \in Procs, Free(p) PROVE HandleInv'
  BY <1>6, VictimType
     DEF Free, ThreadInv, CallInv
<1>7. ASSUME NEW p \in Procs, Clear(p) PROVE HandleInv'
  BY <1>7, VictimType
     DEF Clear, AfterClear, CallInv
<1>8. ASSUME NEW c \in Clients, CallLocked(c) \/ CallKeyed(c) \/ CallSync(c)
             \/ CallDisable(c)
      PROVE  HandleInv'
  BY <1>8
     DEF CallLocked, Begin, CallKeyed, GiveUp, CallSync, Return, CallDisable
<1>9. ASSUME NEW c \in Clients, CallElement(c) \/ CallWaitEl(c) PROVE HandleInv'
  BY <1>9
     DEF CallElement, Begin, Return, CallWaitEl
<1>10. ASSUME NEW c \in Clients, LockCa(c) \/ UnlockCa(c) \/ FindRoom(c) PROVE HandleInv'
  BY <1>10
     DEF LockCa, AfterLock, UnlockCa, FindRoom, MapRefused
<1>11. ASSUME NEW c \in Clients, Alloc(c) \/ AllocFails(c) PROVE HandleInv'
  BY <1>11
     DEF Alloc, AllocFails, MapRefused
<1>12. ASSUME NEW c \in Clients, Lookup(c) PROVE HandleInv'
  BY <1>12
     DEF Lookup, CallInv
<1>13. ASSUME NEW c \in Clients, FindKey(c) PROVE HandleInv'
  BY <1>13
     DEF FindKey, CallInv
<1>14. ASSUME NEW c \in Clients, EvictLock(c) PROVE HandleInv'
  BY <1>14
     DEF EvictLock, Work, AfterFlush, SetMutex
<1>15. ASSUME NEW c \in Clients, Mark(c) \/ ElLock(c) PROVE HandleInv'
  BY <1>15
     DEF Mark, ElLock, SetMutex
<1>16. ASSUME NEW c \in Clients, ElUpdate(c) PROVE HandleInv'
  BY <1>16
     DEF ElUpdate, Return, GiveUp, ElementFlags, CallInv, LocalInv, ElementInv, Pinned,
         Sweeps, Waiting
<1>17. ASSUME NEW c \in Clients, ReadFlags(c) \/ WriteFlags(c) \/ Poll(c) \/ Join(c)
      PROVE  HandleInv'
  BY <1>17
     DEF ReadFlags, WriteFlags, Return, Poll, Join
<1> QED  BY <1>1, <1>2, <1>3, <1>4, <1>5, <1>6, <1>7, <1>8, <1>9, <1>10, <1>11, <1>12,
            <1>13, <1>14, <1>15, <1>16, <1>17
     DEF Next, ThreadNext, Dispose, Call, InCall, Procs

\* A call goes on with the element it began with.
LEMMA CallStep ==
  OneCareful /\ IInv /\ CInv /\ Next => CallInv'
<1> SUFFICES ASSUME OneCareful, IInv, CInv, Next PROVE CallInv'
  OBVIOUS
<1> USE ConstantsAssumption DEF OneCareful, IInv, CInv, TypeOK, HeapTypeOK, ProcTypeOK,
        CallTypeOK, Procs, Step, StepIdx, Goto, cacheVars, heapVars, keptVars, CallInv,
        Waiting, Sweeps, Evicting, Pinned, Victim
<1>1. ASSUME CacheEnable \/ ThreadStart \/ ThreadStartWrite \/ ThreadTop \/ ThreadLock
      PROVE  CallInv'
  BY <1>1
     DEF CacheEnable, ThreadStart, ThreadStartWrite, SetCaFlags, ThreadTop, ThreadLock
<1>2. ASSUME ThreadSkip \/ ThreadReadFlags \/ ThreadTryFails \/ ThreadTryLock
             \/ ThreadRelease
      PROVE  CallInv'
  BY <1>2
     DEF ThreadSkip, NextSlot, ThreadReadFlags, ThreadTryFails, ThreadTryLock, Work,
         AfterFlush, SetMutex, ThreadRelease
<1>3. ASSUME ThreadPassEnd \/ ThreadCheck \/ ThreadFinish PROVE CallInv'
  BY <1>3
     DEF ThreadPassEnd, ThreadCheck, ThreadFinish, SetCaFlags
<1>4. ASSUME NEW p \in Procs, Flush(p) PROVE CallInv'
  BY <1>4
     DEF Flush, AfterFlush
<1>5. ASSUME NEW p \in Procs, Retire(p) PROVE CallInv'
  BY <1>5, VictimType
     DEF Retire, ThreadInv
<1>6. ASSUME NEW p \in Procs, Free(p) PROVE CallInv'
  BY <1>6
     DEF Free
<1>7. ASSUME NEW p \in Procs, Clear(p) PROVE CallInv'
  BY <1>7, VictimType
     DEF Clear, AfterClear, MutexInv, HoldsCa, CacheTypeOK
<1>8. ASSUME NEW c \in Clients, CallLocked(c) PROVE CallInv'
  BY <1>8
     DEF CallLocked, Begin, FlagOps, FlagOf, SettableFlags
<1>9. ASSUME NEW c \in Clients, CallKeyed(c) PROVE CallInv'
  BY <1>9
     DEF CallKeyed, Begin, GiveUp, FlagOps
<1>10. ASSUME NEW c \in Clients, CallSync(c) PROVE CallInv'
  BY <1>10
     DEF CallSync, Begin, GiveUp, Return, FlagOps, FlagOf
<1>11. ASSUME NEW c \in Clients, CallDisable(c) PROVE CallInv'
  BY <1>11
     DEF CallDisable, Begin, GiveUp, FlagOf
<1>12. ASSUME NEW c \in Clients, CallElement(c) PROVE CallInv'
  BY <1>12
     DEF CallElement, Begin, Return, FlagOps
<1>13. ASSUME NEW c \in Clients, CallWaitEl(c) PROVE CallInv'
  BY <1>13
     DEF CallWaitEl, Begin, Return
<1>14. ASSUME NEW c \in Clients, LockCa(c) \/ UnlockCa(c) PROVE CallInv'
  BY <1>14
     DEF LockCa, AfterLock, UnlockCa
<1>15. ASSUME NEW c \in Clients, FindRoom(c) PROVE CallInv'
  BY <1>15
     DEF FindRoom, MapRefused, Evictable, LeastUsed, IsFirst
<1>16. ASSUME NEW c \in Clients, Alloc(c) \/ AllocFails(c) \/ Lookup(c) PROVE CallInv'
  BY <1>16
     DEF Alloc, AllocFails, MapRefused, Lookup
<1>17. ASSUME NEW c \in Clients, FindKey(c) \/ EvictLock(c) PROVE CallInv'
  BY <1>17
     DEF FindKey, EvictLock, Work, AfterFlush, SetMutex
<1>18. ASSUME NEW c \in Clients, Mark(c) PROVE CallInv'
  BY <1>18
     DEF Mark, Markable, LocalInv, OpInv
<1>19. ASSUME NEW c \in Clients, ElLock(c) \/ ElUpdate(c) PROVE CallInv'
  BY <1>19
     DEF ElLock, SetMutex, ElUpdate, Return, GiveUp
<1>20. ASSUME NEW c \in Clients, ReadFlags(c) \/ WriteFlags(c) \/ Join(c) PROVE CallInv'
  BY <1>20
     DEF ReadFlags, WriteFlags, Return, Join
<1>21. ASSUME NEW c \in Clients, Poll(c) PROVE CallInv'
  BY <1>21
     DEF Poll, FlagOps, FlagOf
<1> QED  BY <1>1, <1>2, <1>3, <1>4, <1>5, <1>6, <1>7, <1>8, <1>9, <1>10, <1>11, <1>12,
            <1>13, <1>14, <1>15, <1>16, <1>17, <1>18, <1>19, <1>20, <1>21
     DEF Next, ThreadNext, Dispose, Call, InCall, Procs

\* What the thread takes out is something nobody points to any more.
LEMMA ThreadStep ==
  OneCareful /\ IInv /\ CInv /\ Next => ThreadInv'
<1> SUFFICES ASSUME OneCareful, IInv, CInv, Next PROVE ThreadInv'
  OBVIOUS
<1> USE ConstantsAssumption DEF OneCareful, IInv, CInv, TypeOK, HeapTypeOK, ProcTypeOK,
        CallTypeOK, Procs, Step, StepIdx, Goto, cacheVars, heapVars, keptVars, ThreadInv,
        Victim
<1>1. ASSUME CacheEnable \/ ThreadStart \/ ThreadStartWrite \/ ThreadTop \/ ThreadLock
      PROVE  ThreadInv'
  BY <1>1
     DEF CacheEnable, ThreadStart, ThreadStartWrite, SetCaFlags, ThreadTop, ThreadLock
<1>2. ASSUME ThreadSkip \/ ThreadTryFails \/ ThreadTryLock \/ ThreadRelease
      PROVE  ThreadInv'
  BY <1>2
     DEF ThreadSkip, NextSlot, ThreadTryFails, ThreadTryLock, Work, AfterFlush, SetMutex,
         ThreadRelease
<1>3. ASSUME ThreadReadFlags PROVE ThreadInv'
  BY <1>3
     DEF ThreadReadFlags, AtElement, HandleInv, Kept, Evicting, MutexInv, HoldsCa
<1>4. ASSUME ThreadPassEnd \/ ThreadCheck \/ ThreadFinish PROVE ThreadInv'
  BY <1>4
     DEF ThreadPassEnd, ThreadCheck, ThreadFinish, SetCaFlags
<1>5. ASSUME NEW p \in Procs, Flush(p) \/ Retire(p) PROVE ThreadInv'
  BY <1>5
     DEF Flush, AfterFlush, Retire
<1>6. ASSUME NEW p \in Procs, Free(p) PROVE ThreadInv'
  BY <1>6
     DEF Free
<1>7. ASSUME NEW p \in Procs, Clear(p) PROVE ThreadInv'
  BY <1>7
     DEF Clear, AfterClear, MutexInv, HoldsCa
<1>8. ASSUME NEW c \in Clients, CallLocked(c) PROVE ThreadInv'
  BY <1>8
     DEF CallLocked, Begin
<1>9. ASSUME NEW c \in Clients, CallKeyed(c) PROVE ThreadInv'
  BY <1>9, VictimType
     DEF CallKeyed, Begin, GiveUp
<1>10. ASSUME NEW c \in Clients, CallSync(c) PROVE ThreadInv'
  BY <1>10, VictimType
     DEF CallSync, Begin, GiveUp, Return
<1>11. ASSUME NEW c \in Clients, CallDisable(c) PROVE ThreadInv'
  BY <1>11, VictimType
     DEF CallDisable, Begin, GiveUp
<1>12. ASSUME NEW c \in Clients, CallElement(c) \/ CallWaitEl(c) PROVE ThreadInv'
  BY <1>12
     DEF CallElement, Begin, Return, CallWaitEl
<1>13. ASSUME NEW c \in Clients, LockCa(c) \/ UnlockCa(c) PROVE ThreadInv'
  BY <1>13
     DEF LockCa, AfterLock, UnlockCa
<1>14. ASSUME NEW c \in Clients, FindRoom(c) PROVE ThreadInv'
  BY <1>14
     DEF FindRoom, MapRefused, MutexInv, HoldsCa
<1>15. ASSUME NEW c \in Clients, Alloc(c) PROVE ThreadInv'
  BY <1>15
     DEF Alloc, MutexInv, HoldsCa
<1>16. ASSUME NEW c \in Clients, AllocFails(c) PROVE ThreadInv'
  BY <1>16
     DEF AllocFails, MapRefused, MutexInv, HoldsCa
<1>17. ASSUME NEW c \in Clients, Lookup(c) PROVE ThreadInv'
  BY <1>17
     DEF Lookup, CallInv
<1>18. ASSUME NEW c \in Clients, FindKey(c) \/ EvictLock(c) PROVE ThreadInv'
  BY <1>18
     DEF FindKey, EvictLock, Work, AfterFlush, SetMutex
<1>19. ASSUME NEW c \in Clients, Mark(c) \/ ElLock(c) PROVE ThreadInv'
  BY <1>19
     DEF Mark, ElLock, SetMutex
<1>20. ASSUME NEW c \in Clients, ElUpdate(c) PROVE ThreadInv'
  BY <1>20, VictimType
     DEF ElUpdate, Return, GiveUp
<1>21. ASSUME NEW c \in Clients, ReadFlags(c) \/ WriteFlags(c) \/ Poll(c) \/ Join(c)
      PROVE  ThreadInv'
  BY <1>21
     DEF ReadFlags, WriteFlags, Return, Poll, Join
<1> QED  BY <1>1, <1>2, <1>3, <1>4, <1>5, <1>6, <1>7, <1>8, <1>9, <1>10, <1>11, <1>12,
            <1>13, <1>14, <1>15, <1>16, <1>17, <1>18, <1>19, <1>20, <1>21
     DEF Next, ThreadNext, Dispose, Call, InCall, Procs

\* Nobody comes in while the owner of an element's mutex is at work.
LEMMA OwnerStep ==
  OneCareful /\ IInv /\ CInv /\ Next => OwnerInv'
<1> SUFFICES ASSUME OneCareful, IInv, CInv, Next PROVE OwnerInv'
  OBVIOUS
<1> USE ConstantsAssumption DEF OneCareful, IInv, CInv, TypeOK, HeapTypeOK, ProcTypeOK,
        CallTypeOK, Procs, Step, StepIdx, Goto, cacheVars, heapVars, keptVars, OwnerInv,
        AtVictim, Victim
<1>1. ASSUME CacheEnable \/ ThreadStart \/ ThreadStartWrite \/ ThreadTop \/ ThreadLock
      PROVE  OwnerInv'
  BY <1>1
     DEF CacheEnable, ThreadStart, ThreadStartWrite, SetCaFlags, ThreadTop, ThreadLock
<1>2. ASSUME ThreadSkip \/ ThreadReadFlags \/ ThreadTryFails PROVE OwnerInv'
  BY <1>2
     DEF ThreadSkip, NextSlot, ThreadReadFlags, ThreadTryFails
<1>3. ASSUME ThreadTryLock PROVE OwnerInv'
  BY <1>3, VictimType
     DEF ThreadTryLock, Work, AfterFlush, SetMutex, MutexFree, MutexInv, HoldsCa
<1>4. ASSUME ThreadRelease PROVE OwnerInv'
  BY <1>4
     DEF ThreadRelease, NextSlot, SetMutex
<1>5. ASSUME ThreadPassEnd \/ ThreadCheck \/ ThreadFinish PROVE OwnerInv'
  BY <1>5
     DEF ThreadPassEnd, ThreadCheck, ThreadFinish, SetCaFlags
<1>6. ASSUME NEW p \in Procs, Flush(p) \/ Retire(p) PROVE OwnerInv'
  BY <1>6
     DEF Flush, AfterFlush, Retire
<1>7. ASSUME NEW p \in Procs, Free(p) PROVE OwnerInv'
  BY <1>7
     DEF Free
<1>8. ASSUME NEW p \in Procs, Clear(p) PROVE OwnerInv'
  <2>1. \A q \in Procs : q # p => pc[q] \notin {"flush", "release", "retire", "free"}
    <3> SUFFICES ASSUME NEW q \in Procs, q # p,
                        pc[q] \in {"flush", "release", "retire", "free"}
                 PROVE  FALSE
      OBVIOUS
    <3>1. HoldsCa(p)
      BY <1>8 DEF Clear, HoldsCa
    <3>2. HoldsCa(q)
      BY DEF HoldsCa, ClientLabels
    <3> QED
      BY <3>1, <3>2 DEF MutexInv
  <2>2. pc'[p] \notin {"flush", "release", "retire", "free"} /\ pc'[p] # "el_held"
    BY <1>8 DEF Clear, AfterClear
  <2>3. /\ \A q \in Procs : q # p => pc'[q] = pc[q]
        /\ UNCHANGED <<ce_mutex, el>>
    BY <1>8 DEF Clear, AfterClear
  <2> QED
    BY <2>1, <2>2, <2>3
<1>9. ASSUME NEW c \in Clients, CallLocked(c) \/ CallKeyed(c) \/ CallSync(c)
             \/ CallDisable(c)
      PROVE  OwnerInv'
  BY <1>9
     DEF CallLocked, Begin, CallKeyed, GiveUp, CallSync, Return, CallDisable
<1>10. ASSUME NEW c \in Clients, CallElement(c) \/ CallWaitEl(c) PROVE OwnerInv'
  BY <1>10
     DEF CallElement, Begin, Return, CallWaitEl
<1>11. ASSUME NEW c \in Clients, LockCa(c) \/ UnlockCa(c) \/ FindRoom(c) PROVE OwnerInv'
  BY <1>11
     DEF LockCa, AfterLock, UnlockCa, FindRoom, MapRefused
<1>12. ASSUME NEW c \in Clients, Alloc(c) PROVE OwnerInv'
  BY <1>12
     DEF Alloc, MutexInv, HoldsCa
<1>13. ASSUME NEW c \in Clients, AllocFails(c) \/ Lookup(c) PROVE OwnerInv'
  BY <1>13
     DEF AllocFails, MapRefused, Lookup
<1>14. ASSUME NEW c \in Clients, FindKey(c) PROVE OwnerInv'
  BY <1>14
     DEF FindKey
<1>15. ASSUME NEW c \in Clients, EvictLock(c) PROVE OwnerInv'
  BY <1>15, VictimType
     DEF EvictLock, Work, AfterFlush, SetMutex, MutexFree, MutexInv, HoldsCa
<1>16. ASSUME NEW c \in Clients, Mark(c) PROVE OwnerInv'
  BY <1>16
     DEF Mark
<1>17. ASSUME NEW c \in Clients, ElLock(c) PROVE OwnerInv'
  BY <1>17
     DEF ElLock, SetMutex, MutexFree, MutexInv, HoldsCa, LocalInv, ElementInv
<1>18. ASSUME NEW c \in Clients, ElUpdate(c) PROVE OwnerInv'
  BY <1>18
     DEF ElUpdate, Return, GiveUp
<1>19. ASSUME NEW c \in Clients, ReadFlags(c) \/ WriteFlags(c) \/ Poll(c) \/ Join(c)
      PROVE  OwnerInv'
  BY <1>19
     DEF ReadFlags, WriteFlags, Return, Poll, Join
<1> QED  BY <1>1, <1>2, <1>3, <1>4, <1>5, <1>6, <1>7, <1>8, <1>9, <1>10, <1>11, <1>12,
            <1>13, <1>14, <1>15, <1>16, <1>17, <1>18, <1>19
     DEF Next, ThreadNext, Dispose, Call, InCall, Procs

\* Whatever is on its way to free() has been flushed.
LEMMA SavedStep ==
  OneCareful /\ IInv /\ CInv /\ Next => SavedInv'
<1> SUFFICES ASSUME OneCareful, IInv, CInv, Next PROVE SavedInv'
  OBVIOUS
<1> USE ConstantsAssumption DEF OneCareful, IInv, CInv, TypeOK, HeapTypeOK, ProcTypeOK,
        CallTypeOK, Procs, Step, StepIdx, Goto, cacheVars, heapVars, keptVars, SavedInv,
        UnsavedIsDirty, Victim
<1>1. ASSUME CacheEnable \/ ThreadStart \/ ThreadStartWrite \/ ThreadTop \/ ThreadLock
      PROVE  SavedInv'
  BY <1>1
     DEF CacheEnable, ThreadStart, ThreadStartWrite, SetCaFlags, ThreadTop, ThreadLock
<1>2. ASSUME ThreadSkip \/ ThreadTryFails \/ ThreadTryLock \/ ThreadRelease PROVE SavedInv'
  BY <1>2
     DEF ThreadSkip, NextSlot, ThreadTryFails, ThreadTryLock, Work, AfterFlush, SetMutex,
         ThreadRelease
<1>3. ASSUME ThreadReadFlags PROVE SavedInv'
  BY <1>3
     DEF ThreadReadFlags, AtElement, TableInv, SlotsLive, UsedSlots, Freed, MutexInv,
         HoldsCa
<1>4. ASSUME ThreadPassEnd \/ ThreadCheck \/ ThreadFinish PROVE SavedInv'
  BY <1>4
     DEF ThreadPassEnd, ThreadCheck, ThreadFinish, SetCaFlags
<1>5. ASSUME NEW p \in Procs, Flush(p) PROVE SavedInv'
  BY <1>5, VictimType
     DEF Flush, AfterFlush, AfterFlush, Flushed, ThreadInv, OwnerInv, AtVictim, MutexInv,
         HoldsCa
<1>6. ASSUME NEW p \in Procs, Retire(p) PROVE SavedInv'
  BY <1>6
     DEF Retire
<1>7. ASSUME NEW p \in Procs, Free(p) PROVE SavedInv'
  BY <1>7
     DEF Free
<1>8. ASSUME NEW p \in Procs, Clear(p) PROVE SavedInv'
  BY <1>8
     DEF Clear, AfterClear
<1>9. ASSUME NEW c \in Clients, CallLocked(c) \/ CallKeyed(c) \/ CallSync(c)
             \/ CallDisable(c)
      PROVE  SavedInv'
  BY <1>9
     DEF CallLocked, Begin, CallKeyed, GiveUp, CallSync, Return, CallDisable
<1>10. ASSUME NEW c \in Clients, CallElement(c) \/ CallWaitEl(c) PROVE SavedInv'
  BY <1>10
     DEF CallElement, Begin, Return, CallWaitEl
<1>11. ASSUME NEW c \in Clients, LockCa(c) \/ UnlockCa(c) \/ FindRoom(c) PROVE SavedInv'
  BY <1>11
     DEF LockCa, AfterLock, UnlockCa, FindRoom, MapRefused
<1>12. ASSUME NEW c \in Clients, Alloc(c) PROVE SavedInv'
  BY <1>12
     DEF Alloc
<1>13. ASSUME NEW c \in Clients, AllocFails(c) \/ Lookup(c) PROVE SavedInv'
  BY <1>13
     DEF AllocFails, MapRefused, Lookup
<1>14. ASSUME NEW c \in Clients, FindKey(c) PROVE SavedInv'
  BY <1>14
     DEF FindKey
<1>15. ASSUME NEW c \in Clients, EvictLock(c) PROVE SavedInv'
  BY <1>15, VictimType, VictimAlive
     DEF EvictLock, Work, AfterFlush, SetMutex
<1>16. ASSUME NEW c \in Clients, Mark(c) \/ ElLock(c) PROVE SavedInv'
  BY <1>16
     DEF Mark, ElLock, SetMutex
<1>17. ASSUME NEW c \in Clients, ElUpdate(c) PROVE SavedInv'
  BY <1>17
     DEF ElUpdate, Return, GiveUp, OwnerInv, AtVictim, ElementFlags, LocalInv, ElementInv,
         ThreadInv, CallInv, Waiting, Sweeps
<1>18. ASSUME NEW c \in Clients, ReadFlags(c) \/ WriteFlags(c) \/ Poll(c) \/ Join(c)
      PROVE  SavedInv'
  BY <1>18
     DEF ReadFlags, WriteFlags, Return, Poll, Join
<1> QED  BY <1>1, <1>2, <1>3, <1>4, <1>5, <1>6, <1>7, <1>8, <1>9, <1>10, <1>11, <1>12,
            <1>13, <1>14, <1>15, <1>16, <1>17, <1>18
     DEF Next, ThreadNext, Dispose, Call, InCall, Procs

\* Nobody calls before the thread has set ACTIVE, nor after the cache is gone.
LEMMA StartStep ==
  OneCareful /\ IInv /\ CInv /\ Next => StartInv'
<1> SUFFICES ASSUME OneCareful, IInv, CInv, Next PROVE StartInv'
  OBVIOUS
<1> USE ConstantsAssumption DEF OneCareful, IInv, CInv, TypeOK, HeapTypeOK, ProcTypeOK,
        CallTypeOK, Procs, Step, StepIdx, Goto, cacheVars, heapVars, keptVars, StartInv
<1>1. ASSUME CacheEnable \/ ThreadStart \/ ThreadStartWrite \/ ThreadTop \/ ThreadLock
      PROVE  StartInv'
  BY <1>1
     DEF CacheEnable, ThreadStart, ThreadStartWrite, SetCaFlags, ThreadTop, ThreadLock
<1>2. ASSUME ThreadSkip \/ ThreadReadFlags \/ ThreadTryFails \/ ThreadTryLock
             \/ ThreadRelease
      PROVE  StartInv'
  BY <1>2
     DEF ThreadSkip, NextSlot, ThreadReadFlags, ThreadTryFails, ThreadTryLock, Work,
         AfterFlush, SetMutex, ThreadRelease
<1>3. ASSUME ThreadPassEnd \/ ThreadCheck \/ ThreadFinish PROVE StartInv'
  BY <1>3
     DEF ThreadPassEnd, ThreadCheck, ThreadFinish, SetCaFlags
<1>4. ASSUME NEW p \in Procs, Flush(p) \/ Retire(p) PROVE StartInv'
  BY <1>4
     DEF Flush, AfterFlush, Retire
<1>5. ASSUME NEW p \in Procs, Free(p) \/ Clear(p) PROVE StartInv'
  BY <1>5
     DEF Free, Clear, AfterClear
<1>6. ASSUME NEW c \in Clients, CallLocked(c) \/ CallKeyed(c) \/ CallSync(c)
             \/ CallDisable(c)
      PROVE  StartInv'
  BY <1>6
     DEF CallLocked, Begin, CallKeyed, GiveUp, CallSync, Return, CallDisable
<1>7. ASSUME NEW c \in Clients, CallElement(c) \/ CallWaitEl(c) PROVE StartInv'
  BY <1>7
     DEF CallElement, Begin, Return, CallWaitEl
<1>8. ASSUME NEW c \in Clients, LockCa(c) \/ UnlockCa(c) \/ FindRoom(c) PROVE StartInv'
  BY <1>8
     DEF LockCa, AfterLock, UnlockCa, FindRoom, MapRefused
<1>9. ASSUME NEW c \in Clients, Alloc(c) \/ AllocFails(c) \/ Lookup(c) PROVE StartInv'
  BY <1>9
     DEF Alloc, AllocFails, MapRefused, Lookup
<1>10. ASSUME NEW c \in Clients, FindKey(c) \/ EvictLock(c) PROVE StartInv'
  BY <1>10
     DEF FindKey, EvictLock, Work, AfterFlush, SetMutex
<1>11. ASSUME NEW c \in Clients, Mark(c) \/ ElLock(c) \/ ElUpdate(c) PROVE StartInv'
  BY <1>11
     DEF Mark, ElLock, SetMutex, ElUpdate, Return, GiveUp
<1>12. ASSUME NEW c \in Clients, ReadFlags(c) \/ WriteFlags(c) \/ Poll(c) PROVE StartInv'
  BY <1>12
     DEF ReadFlags, WriteFlags, Return, Poll
<1>13. ASSUME NEW c \in Clients, Join(c) PROVE StartInv'
  BY <1>13
     DEF Join, Return, Joined, MutexInv, HoldsCa, LocalInv, OpInv
<1> QED  BY <1>1, <1>2, <1>3, <1>4, <1>5, <1>6, <1>7, <1>8, <1>9, <1>10, <1>11, <1>12, <1>13
     DEF Next, ThreadNext, Dispose, Call, InCall, Procs

\* EXIT is set once, and the racing read and write of ca_flags does not lose it.
LEMMA ExitStep ==
  OneCareful /\ IInv /\ CInv /\ Next => ExitInv'
<1> SUFFICES ASSUME OneCareful, IInv, CInv, Next PROVE ExitInv'
  OBVIOUS
<1> USE ConstantsAssumption DEF OneCareful, IInv, CInv, TypeOK, HeapTypeOK, ProcTypeOK,
        CallTypeOK, Procs, Step, StepIdx, Goto, cacheVars, heapVars, keptVars, ExitInv,
        Ending
<1>1. ASSUME CacheEnable \/ ThreadTop \/ ThreadLock PROVE ExitInv'
  BY <1>1
     DEF CacheEnable, ThreadTop, ThreadLock
<1>2. ASSUME ThreadStart PROVE ExitInv'
  BY <1>2
     DEF ThreadStart, StartInv
<1>3. ASSUME ThreadStartWrite PROVE ExitInv'
  BY <1>3
     DEF ThreadStartWrite, SetCaFlags, StartInv
<1>4. ASSUME ThreadSkip \/ ThreadReadFlags \/ ThreadTryFails \/ ThreadTryLock
             \/ ThreadRelease
      PROVE  ExitInv'
  BY <1>4
     DEF ThreadSkip, NextSlot, ThreadReadFlags, ThreadTryFails, ThreadTryLock, Work,
         AfterFlush, SetMutex, ThreadRelease
<1>5. ASSUME ThreadPassEnd PROVE ExitInv'
  BY <1>5
     DEF ThreadPassEnd, PassEndFlags, StartInv
<1>6. ASSUME ThreadCheck \/ ThreadFinish PROVE ExitInv'
  BY <1>6
     DEF ThreadCheck, ThreadFinish, SetCaFlags
<1>7. ASSUME NEW p \in Procs, Flush(p) \/ Retire(p) PROVE ExitInv'
  BY <1>7
     DEF Flush, AfterFlush, Retire
<1>8. ASSUME NEW p \in Procs, Free(p) \/ Clear(p) PROVE ExitInv'
  BY <1>8
     DEF Free, Clear, AfterClear
<1>9. ASSUME NEW c \in Clients, CallLocked(c) \/ CallKeyed(c) \/ CallSync(c)
             \/ CallDisable(c)
      PROVE  ExitInv'
  BY <1>9
     DEF CallLocked, Begin, CallKeyed, GiveUp, CallSync, Return, CallDisable
<1>10. ASSUME NEW c \in Clients, CallElement(c) \/ CallWaitEl(c) PROVE ExitInv'
  BY <1>10
     DEF CallElement, Begin, Return, CallWaitEl
<1>11. ASSUME NEW c \in Clients, LockCa(c) \/ UnlockCa(c) \/ FindRoom(c) PROVE ExitInv'
  BY <1>11
     DEF LockCa, AfterLock, UnlockCa, FindRoom, MapRefused
<1>12. ASSUME NEW c \in Clients, Alloc(c) \/ AllocFails(c) \/ Lookup(c) PROVE ExitInv'
  BY <1>12
     DEF Alloc, AllocFails, MapRefused, Lookup
<1>13. ASSUME NEW c \in Clients, FindKey(c) \/ EvictLock(c) PROVE ExitInv'
  BY <1>13
     DEF FindKey, EvictLock, Work, AfterFlush, SetMutex
<1>14. ASSUME NEW c \in Clients, Mark(c) \/ ElLock(c) \/ ElUpdate(c) PROVE ExitInv'
  BY <1>14
     DEF Mark, ElLock, SetMutex, ElUpdate, Return, GiveUp
<1>15. ASSUME NEW c \in Clients, ReadFlags(c) PROVE ExitInv'
  BY <1>15
     DEF ReadFlags, StartInv
<1>16. ASSUME NEW c \in Clients, WriteFlags(c) PROVE ExitInv'
  BY <1>16
     DEF WriteFlags, Return, LocalInv, OpInv, FlagOps, Clears, CallInv, StartInv
<1>17. ASSUME NEW c \in Clients, Poll(c) \/ Join(c) PROVE ExitInv'
  BY <1>17
     DEF Poll, Join, Return
<1> QED  BY <1>1, <1>2, <1>3, <1>4, <1>5, <1>6, <1>7, <1>8, <1>9, <1>10, <1>11, <1>12,
            <1>13, <1>14, <1>15, <1>16, <1>17
     DEF Next, ThreadNext, Dispose, Call, InCall, Procs

\* A pinned element is marked by cache_disable() only.
LEMMA PinStep ==
  OneCareful /\ IInv /\ CInv /\ Next => PinInv'
<1> SUFFICES ASSUME OneCareful, IInv, CInv, Next PROVE PinInv'
  OBVIOUS
<1> USE ConstantsAssumption DEF OneCareful, IInv, CInv, TypeOK, HeapTypeOK, ProcTypeOK,
        CallTypeOK, Procs, Step, StepIdx, Goto, cacheVars, heapVars, keptVars, PinInv,
        Pinned, Victim
<1>1. ASSUME CacheEnable \/ ThreadStart \/ ThreadTop \/ ThreadLock PROVE PinInv'
  BY <1>1
     DEF CacheEnable, ThreadStart, ThreadTop, ThreadLock
<1>2. ASSUME ThreadStartWrite PROVE PinInv'
  BY <1>2
     DEF ThreadStartWrite, SetCaFlags, StartInv
<1>3. ASSUME ThreadSkip \/ ThreadTryFails \/ ThreadTryLock \/ ThreadRelease PROVE PinInv'
  BY <1>3
     DEF ThreadSkip, NextSlot, ThreadTryFails, ThreadTryLock, Work, AfterFlush, SetMutex,
         ThreadRelease
<1>4. ASSUME ThreadReadFlags PROVE PinInv'
  BY <1>4
     DEF ThreadReadFlags, AtElement, TableInv, SlotsLive, UsedSlots, Freed, MutexInv,
         HoldsCa
<1>5. ASSUME ThreadPassEnd PROVE PinInv'
  BY <1>5
     DEF ThreadPassEnd, PassEndFlags
<1>6. ASSUME ThreadCheck \/ ThreadFinish PROVE PinInv'
  BY <1>6
     DEF ThreadCheck, ThreadFinish, SetCaFlags
<1>7. ASSUME NEW p \in Procs, Flush(p) PROVE PinInv'
  BY <1>7
     DEF Flush, AfterFlush
<1>8. ASSUME NEW p \in Procs, Retire(p) PROVE PinInv'
  BY <1>8
     DEF Retire
<1>9. ASSUME NEW p \in Procs, Free(p) PROVE PinInv'
  BY <1>9
     DEF Free
<1>10. ASSUME NEW p \in Procs, Clear(p) PROVE PinInv'
  BY <1>10
     DEF Clear, AfterClear, MutexInv, HoldsCa
<1>11. ASSUME NEW c \in Clients, CallLocked(c) \/ CallKeyed(c) \/ CallSync(c)
             \/ CallDisable(c)
      PROVE  PinInv'
  BY <1>11
     DEF CallLocked, Begin, CallKeyed, GiveUp, CallSync, Return, CallDisable
<1>12. ASSUME NEW c \in Clients, CallElement(c) \/ CallWaitEl(c) PROVE PinInv'
  BY <1>12
     DEF CallElement, Begin, Return, CallWaitEl
<1>13. ASSUME NEW c \in Clients, LockCa(c) \/ UnlockCa(c) \/ FindRoom(c) PROVE PinInv'
  BY <1>13
     DEF LockCa, AfterLock, UnlockCa, FindRoom, MapRefused
<1>14. ASSUME NEW c \in Clients, Alloc(c) PROVE PinInv'
  BY <1>14
     DEF Alloc
<1>15. ASSUME NEW c \in Clients, AllocFails(c) \/ Lookup(c) PROVE PinInv'
  BY <1>15
     DEF AllocFails, MapRefused, Lookup
<1>16. ASSUME NEW c \in Clients, FindKey(c) \/ EvictLock(c) PROVE PinInv'
  BY <1>16
     DEF FindKey, EvictLock, Work, AfterFlush, SetMutex
<1>17. ASSUME NEW c \in Clients, Mark(c) \/ ElLock(c) PROVE PinInv'
  BY <1>17
     DEF Mark, ElLock, SetMutex
<1>18. ASSUME NEW c \in Clients, ElUpdate(c) PROVE PinInv'
  BY <1>18
     DEF ElUpdate, Return, GiveUp, ElementFlags, CallInv, LocalInv, ElementInv, HandleInv,
         Kept, Evicting, ThreadInv, Waiting, Sweeps
<1>19. ASSUME NEW c \in Clients, ReadFlags(c) \/ Poll(c) \/ Join(c) PROVE PinInv'
  BY <1>19
     DEF ReadFlags, Poll, Join, Return
<1>20. ASSUME NEW c \in Clients, WriteFlags(c) PROVE PinInv'
  BY <1>20
     DEF WriteFlags, Return, CallInv, ExitInv, Ending, StartInv, Clears
<1> QED  BY <1>1, <1>2, <1>3, <1>4, <1>5, <1>6, <1>7, <1>8, <1>9, <1>10, <1>11, <1>12,
            <1>13, <1>14, <1>15, <1>16, <1>17, <1>18, <1>19, <1>20
     DEF Next, ThreadNext, Dispose, Call, InCall, Procs

\* A mutex of an element comes back when its owner goes.
LEMMA OwnedStep ==
  OneCareful /\ IInv /\ CInv /\ EInv /\ Next => OwnedInv'
<1> SUFFICES ASSUME OneCareful, IInv, CInv, EInv, Next PROVE OwnedInv'
  OBVIOUS
<1> USE ConstantsAssumption DEF OneCareful, IInv, CInv, TypeOK, HeapTypeOK, ProcTypeOK,
        CallTypeOK, Procs, Step, StepIdx, Goto, cacheVars, heapVars, keptVars, EInv,
        OwnedInv, AtVictim, Victim, MutexInv, HoldsCa, CacheTypeOK
<1>1. ASSUME CacheEnable \/ ThreadStart \/ ThreadStartWrite \/ ThreadTop \/ ThreadLock
      PROVE  OwnedInv'
  BY <1>1
     DEF CacheEnable, ThreadStart, ThreadStartWrite, SetCaFlags, ThreadTop, ThreadLock
<1>2. ASSUME ThreadSkip \/ ThreadReadFlags \/ ThreadTryFails \/ ThreadTryLock
             \/ ThreadRelease
      PROVE  OwnedInv'
  BY <1>2
     DEF ThreadSkip, NextSlot, ThreadReadFlags, ThreadTryFails, ThreadTryLock, Work,
         AfterFlush, SetMutex, ThreadRelease
<1>3. ASSUME ThreadPassEnd \/ ThreadCheck \/ ThreadFinish PROVE OwnedInv'
  BY <1>3
     DEF ThreadPassEnd, ThreadCheck, ThreadFinish, SetCaFlags
<1>4. ASSUME NEW p \in Procs, Flush(p) \/ Retire(p) PROVE OwnedInv'
  BY <1>4
     DEF Flush, AfterFlush, Retire
<1>5. ASSUME NEW p \in Procs, Free(p) PROVE OwnedInv'
  BY <1>5
     DEF Free
<1>6. ASSUME NEW p \in Procs, Clear(p) PROVE OwnedInv'
  BY <1>6
     DEF Clear, AfterClear, ClientLabels, AfterClear
<1>7. ASSUME NEW c \in Clients, CallLocked(c) \/ CallKeyed(c) \/ CallSync(c)
             \/ CallDisable(c)
      PROVE  OwnedInv'
  BY <1>7
     DEF CallLocked, Begin, CallKeyed, GiveUp, CallSync, Return, CallDisable
<1>8. ASSUME NEW c \in Clients, CallElement(c) \/ CallWaitEl(c) PROVE OwnedInv'
  BY <1>8
     DEF CallElement, Begin, Return, CallWaitEl
<1>9. ASSUME NEW c \in Clients, LockCa(c) \/ UnlockCa(c) \/ FindRoom(c) PROVE OwnedInv'
  BY <1>9
     DEF LockCa, AfterLock, UnlockCa, FindRoom, MapRefused
<1>10. ASSUME NEW c \in Clients, Alloc(c) \/ AllocFails(c) \/ Lookup(c) PROVE OwnedInv'
  BY <1>10
     DEF Alloc, AllocFails, MapRefused, Lookup
<1>11. ASSUME NEW c \in Clients, FindKey(c) \/ EvictLock(c) PROVE OwnedInv'
  BY <1>11
     DEF FindKey, EvictLock, Work, AfterFlush, SetMutex
<1>12. ASSUME NEW c \in Clients, Mark(c) \/ ElLock(c) \/ ElUpdate(c) PROVE OwnedInv'
  BY <1>12
     DEF Mark, ElLock, SetMutex, ElUpdate, Return, GiveUp
<1>13. ASSUME NEW c \in Clients, ReadFlags(c) \/ WriteFlags(c) \/ Poll(c) \/ Join(c)
      PROVE  OwnedInv'
  BY <1>13
     DEF ReadFlags, WriteFlags, Return, Poll, Join
<1> QED  BY <1>1, <1>2, <1>3, <1>4, <1>5, <1>6, <1>7, <1>8, <1>9, <1>10, <1>11, <1>12, <1>13
     DEF Next, ThreadNext, Dispose, Call, InCall, Procs

\* Nothing is mapped and no mark is lost while the cache is disabled.
LEMMA MarkedStep ==
  OneCareful /\ IInv /\ CInv /\ EInv /\ Next => MarkedInv'
<1> SUFFICES ASSUME OneCareful, IInv, CInv, EInv, Next PROVE MarkedInv'
  OBVIOUS
<1> USE ConstantsAssumption DEF OneCareful, IInv, CInv, TypeOK, HeapTypeOK, ProcTypeOK,
        CallTypeOK, Procs, Step, StepIdx, Goto, cacheVars, heapVars, keptVars, EInv,
        MarkedInv, Marked, Retired, MutexInv, HoldsCa, CacheTypeOK
<1>1. ASSUME CacheEnable \/ ThreadStart \/ ThreadTop \/ ThreadLock PROVE MarkedInv'
  BY <1>1
     DEF CacheEnable, ThreadStart, ThreadTop, ThreadLock
<1>2. ASSUME ThreadStartWrite PROVE MarkedInv'
  BY <1>2
     DEF ThreadStartWrite, SetCaFlags, StartInv, ExitInv
<1>3. ASSUME ThreadSkip \/ ThreadReadFlags \/ ThreadTryFails \/ ThreadTryLock
             \/ ThreadRelease
      PROVE  MarkedInv'
  BY <1>3
     DEF ThreadSkip, NextSlot, ThreadReadFlags, ThreadTryFails, ThreadTryLock, Work,
         AfterFlush, SetMutex, ThreadRelease
<1>4. ASSUME ThreadPassEnd PROVE MarkedInv'
  BY <1>4
     DEF ThreadPassEnd, PassEndFlags
<1>5. ASSUME ThreadCheck PROVE MarkedInv'
  BY <1>5
     DEF ThreadCheck
<1>6. ASSUME ThreadFinish PROVE MarkedInv'
  BY <1>6
     DEF ThreadFinish, SetCaFlags, ExitInv, Ending
<1>7. ASSUME NEW p \in Procs, Flush(p) PROVE MarkedInv'
  BY <1>7
     DEF Flush, AfterFlush
<1>8. ASSUME NEW p \in Procs, Retire(p) PROVE MarkedInv'
  BY <1>8, VictimType
     DEF Retire, TableInv, SlotsDistinct, UsedSlots, Victim
<1>9. ASSUME NEW p \in Procs, Free(p) \/ Clear(p) PROVE MarkedInv'
  BY <1>9
     DEF Free, Clear, AfterClear
<1>10. ASSUME NEW c \in Clients, CallLocked(c) \/ CallKeyed(c) \/ CallSync(c)
             \/ CallDisable(c)
      PROVE  MarkedInv'
  BY <1>10
     DEF CallLocked, Begin, CallKeyed, GiveUp, CallSync, Return, CallDisable
<1>11. ASSUME NEW c \in Clients, CallElement(c) \/ CallWaitEl(c) PROVE MarkedInv'
  BY <1>11
     DEF CallElement, Begin, Return, CallWaitEl
<1>12. ASSUME NEW c \in Clients, LockCa(c) PROVE MarkedInv'
  BY <1>12
     DEF LockCa, AfterLock, Slots
<1>13. ASSUME NEW c \in Clients, UnlockCa(c) \/ FindRoom(c) PROVE MarkedInv'
  BY <1>13
     DEF UnlockCa, FindRoom, MapRefused
<1>14. ASSUME NEW c \in Clients, Alloc(c) PROVE MarkedInv'
  BY <1>14
     DEF Alloc, ExitInv, Ending, StartInv, CallInv, Evicting
<1>15. ASSUME NEW c \in Clients, AllocFails(c) \/ Lookup(c) PROVE MarkedInv'
  BY <1>15
     DEF AllocFails, MapRefused, Lookup
<1>16. ASSUME NEW c \in Clients, FindKey(c) \/ EvictLock(c) PROVE MarkedInv'
  BY <1>16
     DEF FindKey, EvictLock, Work, AfterFlush, SetMutex
<1>17. ASSUME NEW c \in Clients, Mark(c) PROVE MarkedInv'
  BY <1>17
     DEF Mark, Markable, TableInv, SlotsActive, UsedSlots, Slots, Victim
<1>18. ASSUME NEW c \in Clients, ElLock(c) PROVE MarkedInv'
  BY <1>18
     DEF ElLock, SetMutex
<1>19. ASSUME NEW c \in Clients, ElUpdate(c) PROVE MarkedInv'
  BY <1>19
     DEF ElUpdate, Return, GiveUp, ElementFlags, CallInv, Waiting, Sweeps, LocalInv,
         ElementInv, Slots, Victim
<1>20. ASSUME NEW c \in Clients, ReadFlags(c) \/ Poll(c) \/ Join(c) PROVE MarkedInv'
  BY <1>20
     DEF ReadFlags, Poll, Join, Return
<1>21. ASSUME NEW c \in Clients, WriteFlags(c) PROVE MarkedInv'
  BY <1>21
     DEF WriteFlags, Return, FlagOps, CallInv, LocalInv, OpInv, Clears, ExitInv
<1> QED  BY <1>1, <1>2, <1>3, <1>4, <1>5, <1>6, <1>7, <1>8, <1>9, <1>10, <1>11, <1>12,
            <1>13, <1>14, <1>15, <1>16, <1>17, <1>18, <1>19, <1>20, <1>21
     DEF Next, ThreadNext, Dispose, Call, InCall, Procs

\* The pass that meets EXIT takes out every element it comes to.
LEMMA EmptiedStep ==
  OneCareful /\ IInv /\ CInv /\ EInv /\ Next => EmptiedInv'
<1> SUFFICES ASSUME OneCareful, IInv, CInv, EInv, Next PROVE EmptiedInv'
  OBVIOUS
<1> USE ConstantsAssumption DEF OneCareful, IInv, CInv, TypeOK, HeapTypeOK, ProcTypeOK,
        CallTypeOK, Procs, Step, StepIdx, Goto, cacheVars, heapVars, keptVars, EInv,
        EmptiedInv, MutexInv, HoldsCa, CacheTypeOK
<1>1. ASSUME CacheEnable \/ ThreadTop PROVE EmptiedInv'
  BY <1>1
     DEF CacheEnable, ThreadTop
<1>2. ASSUME ThreadStart PROVE EmptiedInv'
  BY <1>2
     DEF ThreadStart, StartInv
<1>3. ASSUME ThreadStartWrite PROVE EmptiedInv'
  BY <1>3
     DEF ThreadStartWrite, SetCaFlags, StartInv, ExitInv
<1>4. ASSUME ThreadLock PROVE EmptiedInv'
  <2>1. ca_in_use <= 0 => LiveSlots = {}
    BY LiveSlotsFinite, FS_EmptySet, FS_CardinalityType DEF CountInv
  <2>2. LiveSlots = UsedSlots
    BY <1>4 DEF ThreadLock, LiveSlots, UsedSlots, Retired
  <2>3. ca_in_use <= 0 => \A i \in Slots : ca_ptr[i] = NULL
    BY <2>1, <2>2 DEF UsedSlots
  <2> QED
    BY <1>4, <2>3 DEF ThreadLock, Slots
<1>5. ASSUME ThreadSkip PROVE EmptiedInv'
  <2>1. ca_mutex = Thread /\ idx[Thread] \in Slots
    BY <1>5 DEF ThreadSkip
  <2>2. ca_ptr[idx[Thread]] = NULL
    BY <1>5, <2>1 DEF ThreadSkip, AtElement, Victim, TableInv, SlotsActive, UsedSlots,
       Retired
  <2> QED
    BY <1>5, <2>1, <2>2 DEF ThreadSkip, NextSlot, Slots
<1>6. ASSUME ThreadReadFlags PROVE EmptiedInv'
  BY <1>6
     DEF ThreadReadFlags, AtElement, Victim, MarkedInv, Marked, Retired
<1>7. ASSUME ThreadTryFails PROVE EmptiedInv'
  BY <1>7, VictimType
     DEF ThreadTryFails, NextSlot, MutexFree, OwnedInv, AtVictim, ExitInv, Ending, StartInv,
         ClientLabels
<1>8. ASSUME ThreadTryLock \/ ThreadRelease PROVE EmptiedInv'
  BY <1>8
     DEF ThreadTryLock, Work, AfterFlush, SetMutex, ThreadRelease, NextSlot
<1>9. ASSUME ThreadPassEnd PROVE EmptiedInv'
  BY <1>9
     DEF ThreadPassEnd, PassEndFlags, TableInv, HeapInTable, UsedSlots, Slots
<1>10. ASSUME ThreadCheck PROVE EmptiedInv'
  BY <1>10
     DEF ThreadCheck
<1>11. ASSUME ThreadFinish PROVE EmptiedInv'
  BY <1>11
     DEF ThreadFinish, SetCaFlags
<1>12. ASSUME NEW p \in Procs, Flush(p) \/ Retire(p) PROVE EmptiedInv'
  BY <1>12
     DEF Flush, AfterFlush, Retire
<1>13. ASSUME NEW p \in Procs, Free(p) PROVE EmptiedInv'
  BY <1>13
     DEF Free
<1>14. ASSUME NEW p \in Procs, Clear(p) PROVE EmptiedInv'
  BY <1>14
     DEF Clear, AfterClear, LocalInv, IndexInv, Slots
<1>15. ASSUME NEW c \in Clients, CallLocked(c) \/ CallKeyed(c) \/ CallSync(c)
             \/ CallDisable(c)
      PROVE  EmptiedInv'
  BY <1>15
     DEF CallLocked, Begin, CallKeyed, GiveUp, CallSync, Return, CallDisable
<1>16. ASSUME NEW c \in Clients, CallElement(c) \/ CallWaitEl(c) PROVE EmptiedInv'
  BY <1>16
     DEF CallElement, Begin, Return, CallWaitEl
<1>17. ASSUME NEW c \in Clients, LockCa(c) \/ UnlockCa(c) \/ FindRoom(c) PROVE EmptiedInv'
  BY <1>17
     DEF LockCa, AfterLock, UnlockCa, FindRoom, MapRefused
<1>18. ASSUME NEW c \in Clients, Alloc(c) PROVE EmptiedInv'
  BY <1>18
     DEF Alloc, ExitInv, Ending, StartInv
<1>19. ASSUME NEW c \in Clients, AllocFails(c) \/ Lookup(c) PROVE EmptiedInv'
  BY <1>19
     DEF AllocFails, MapRefused, Lookup
<1>20. ASSUME NEW c \in Clients, FindKey(c) \/ EvictLock(c) PROVE EmptiedInv'
  BY <1>20
     DEF FindKey, EvictLock, Work, AfterFlush, SetMutex
<1>21. ASSUME NEW c \in Clients, Mark(c) \/ ElLock(c) \/ ElUpdate(c) PROVE EmptiedInv'
  BY <1>21
     DEF Mark, ElLock, SetMutex, ElUpdate, Return, GiveUp
<1>22. ASSUME NEW c \in Clients, ReadFlags(c) \/ Poll(c) \/ Join(c) PROVE EmptiedInv'
  BY <1>22
     DEF ReadFlags, Poll, Join, Return
<1>23. ASSUME NEW c \in Clients, WriteFlags(c) PROVE EmptiedInv'
  BY <1>23
     DEF WriteFlags, Return, FlagOps, CallInv, LocalInv, OpInv, Clears, ExitInv, Ending,
         StartInv
<1> QED  BY <1>1, <1>2, <1>3, <1>4, <1>5, <1>6, <1>7, <1>8, <1>9, <1>10, <1>11, <1>12,
            <1>13, <1>14, <1>15, <1>16, <1>17, <1>18, <1>19, <1>20, <1>21, <1>22, <1>23
     DEF Next, ThreadNext, Dispose, Call, InCall, Procs

-----------------------------------------------------------------------------
(* The theorems.                                                             *)

\* The initial states: nothing allocated, nobody in a call.
LEMMA CarefulInit == Init => CInv /\ EInv
<1>1. Init => CInv
  BY ConstantsAssumption
     DEF Init, CInv, HandleInv, CallInv, ThreadInv, OwnerInv, SavedInv, UnsavedIsDirty,
         StartInv, ExitInv, Ending, PinInv, Evicting, AtVictim, Waiting, Sweeps, FlagOps,
         Procs
<1>2. Init => EInv
  BY ConstantsAssumption
     DEF Init, EInv, OwnedInv, MarkedInv, EmptiedInv, HoldsCa, Procs
<1> QED
  BY <1>1, <1>2

\* One step keeps both.
LEMMA CarefulStep ==
  OneCareful /\ IInv /\ CInv /\ EInv /\ [Next]_vars => (CInv /\ EInv)'
<1>1. ASSUME OneCareful, IInv, CInv, EInv, Next PROVE (CInv /\ EInv)'
  <2>1. CInv'
    BY <1>1, HandleStep, CallStep, ThreadStep, OwnerStep, SavedStep, StartStep, ExitStep,
       PinStep DEF CInv
  <2>2. EInv'
    BY <1>1, OwnedStep, MarkedStep, EmptiedStep DEF EInv
  <2> QED
    BY <2>1, <2>2
<1>2. ASSUME CInv, EInv, UNCHANGED vars PROVE (CInv /\ EInv)'
  <2>1. CInv'
    BY <1>2 DEF vars, cacheVars, heapVars, keptVars, CInv, HandleInv, Kept, CallInv,
       ThreadInv, OwnerInv, SavedInv, UnsavedIsDirty, StartInv, ExitInv, Ending, PinInv,
       Pinned, Victim
  <2>2. EInv'
    BY <1>2 DEF vars, cacheVars, heapVars, keptVars, EInv, OwnedInv, MarkedInv, Marked,
       Retired, EmptiedInv, HoldsCa, Victim
  <2> QED
    BY <2>1, <2>2
<1> QED
  BY <1>1, <1>2

\* The invariants of one careful client hold in every reachable state, for any
\* number of slots and addresses.
THEOREM CarefulInvariant == ASSUME OneCareful PROVE Spec => [](IInv /\ CInv /\ EInv)
<1>1. Init => IInv /\ CInv /\ EInv
  BY InitIInv, CarefulInit
<1>2. IInv /\ CInv /\ EInv /\ [Next]_vars => (IInv /\ CInv /\ EInv)'
  BY OneCareful, IInvStep, CarefulStep
<1> QED
  BY <1>1, <1>2, PTL DEF Spec

\* What a careful client points to, and what it locks or updates, is allocated
\* (cache.c:554-615).
THEOREM HandlesCorrect == ASSUME OneCareful PROVE Spec => []HandleSafe
<1>1. ASSUME IInv, CInv, NEW c \in Clients, pc[c] = "idle", handle[c] # NULL
      PROVE  handle[c] \in heap
  BY <1>1 DEF CInv, HandleInv, Kept, Evicting
<1>2. ASSUME IInv, CInv, NEW c \in Clients, pc[c] \in Waiting, op[c] \notin Sweeps
      PROVE  el[c] \in heap
  BY <1>2, ConstantsAssumption
     DEF CInv, HandleInv, CallInv, Kept, Evicting, Waiting, IInv, LocalInv, ElementInv
<1>3. ASSUME IInv, CInv, NEW c \in Clients, pc[c] \in Waiting, op[c] \in Sweeps
      PROVE  el[c] \in heap
  <2>1. el[c] = ca_ptr[idx[c]] /\ el[c] \in Addr /\ idx[c] \in Slots
    BY <1>3 DEF CInv, CallInv, Victim, Waiting, Sweeps, IInv, LocalInv, ElementInv
  <2>2. idx[c] \in UsedSlots
    BY <2>1, ConstantsAssumption DEF UsedSlots
  <2>3. ca_mutex = c
    BY <1>3 DEF IInv, MutexInv, HoldsCa, Waiting, Sweeps, Procs
  <2> QED
    BY <1>3, <2>1, <2>2, <2>3 DEF IInv, TableInv, SlotsLive, Freed, Waiting
<1>4. IInv /\ CInv => HandleSafe
  BY <1>1, <1>2, <1>3 DEF HandleSafe, Waiting
<1> QED
  BY <1>4, CarefulInvariant, PTL

\* The mutex of an element keeps everybody but its owner out, over all the lives
\* of the address (cache.c:60, 97, 104, 222, 256, 562, 578, 595, 610).
THEOREM ElementsExclusive == ASSUME OneCareful PROVE Spec => []ElementExclusive
<1>1. CInv => ElementExclusive
  BY DEF CInv, OwnerInv, AtVictim, ElementExclusive, InElement, Procs
<1> QED
  BY <1>1, CarefulInvariant, PTL

\* Data that still has to be flushed stays behind a DIRTY flag (cache.c:65, 226, 579).
THEOREM UnsavedCorrect == ASSUME OneCareful PROVE Spec => []UnsavedIsDirty
<1>1. CInv => UnsavedIsDirty
  BY DEF CInv, SavedInv
<1> QED
  BY <1>1, CarefulInvariant, PTL

\* cache_disable() destroys the cache only when the thread is gone or never
\* started (cache.c:333).
THEOREM ThreadOutlived == ASSUME OneCareful PROVE Spec => []ThreadEndsFirst
<1>1. CInv => ThreadEndsFirst
  BY DEF CInv, StartInv, ThreadEndsFirst
<1> QED
  BY <1>1, CarefulInvariant, PTL

\* The two action properties, as a step sees them.
FreesTheSaved == \A a \in heap \ heap' : a \notin unsaved
TakesNoPinned ==
  \A a \in heap : Pinned(a) /\ ce_flags'[a] = {} => "EXIT" \in ca_flags

\* free() is called on saved elements only.
LEMMA FreesSaved ==
  OneCareful /\ IInv /\ CInv /\ [Next]_vars => [FreesTheSaved]_vars
<1> SUFFICES ASSUME OneCareful, IInv, CInv, Next PROVE FreesTheSaved
  OBVIOUS
<1> USE DEF Step, StepIdx, Goto, cacheVars, heapVars, FreesTheSaved
<1>1. ASSUME CacheEnable \/ ThreadStart \/ ThreadStartWrite \/ ThreadTop \/ ThreadLock
             \/ ThreadSkip \/ ThreadReadFlags \/ ThreadTryFails \/ ThreadTryLock
             \/ ThreadRelease \/ ThreadPassEnd \/ ThreadCheck \/ ThreadFinish
      PROVE  FreesTheSaved
  BY <1>1
     DEF CacheEnable, ThreadStart, ThreadStartWrite, SetCaFlags, ThreadTop, ThreadLock,
         ThreadSkip, NextSlot, ThreadReadFlags, ThreadTryFails, ThreadTryLock, Work,
         AfterFlush, SetMutex, ThreadRelease, ThreadPassEnd, ThreadCheck, ThreadFinish
<1>2. ASSUME NEW p \in Procs, Flush(p) \/ Retire(p) PROVE FreesTheSaved
  BY <1>2
     DEF Flush, AfterFlush, Retire
<1>3. ASSUME NEW p \in Procs, Free(p) PROVE FreesTheSaved
  BY <1>3
     DEF Free, CInv, SavedInv
<1>4. ASSUME NEW p \in Procs, Clear(p) PROVE FreesTheSaved
  BY <1>4
     DEF Clear, AfterClear
<1>5. ASSUME NEW c \in Clients, CallLocked(c) \/ CallKeyed(c) \/ CallSync(c)
             \/ CallDisable(c) \/ CallElement(c) \/ CallWaitEl(c)
      PROVE  FreesTheSaved
  BY <1>5
     DEF CallLocked, Begin, CallKeyed, GiveUp, CallSync, Return, CallDisable, CallElement,
         CallWaitEl
<1>6. ASSUME NEW c \in Clients, LockCa(c) \/ UnlockCa(c) \/ FindRoom(c) \/ AllocFails(c)
      PROVE  FreesTheSaved
  BY <1>6
     DEF LockCa, AfterLock, UnlockCa, FindRoom, MapRefused, AllocFails
<1>7. ASSUME NEW c \in Clients, Alloc(c) PROVE FreesTheSaved
  BY <1>7
     DEF Alloc
<1>8. ASSUME NEW c \in Clients, Lookup(c) \/ FindKey(c) \/ EvictLock(c) PROVE FreesTheSaved
  BY <1>8
     DEF Lookup, FindKey, EvictLock, Work, AfterFlush, SetMutex
<1>9. ASSUME NEW c \in Clients, Mark(c) \/ ElLock(c) \/ ElUpdate(c) PROVE FreesTheSaved
  BY <1>9
     DEF Mark, ElLock, SetMutex, ElUpdate, Return, GiveUp
<1>10. ASSUME NEW c \in Clients, ReadFlags(c) \/ WriteFlags(c) \/ Poll(c) \/ Join(c)
      PROVE  FreesTheSaved
  BY <1>10
     DEF ReadFlags, WriteFlags, Return, Poll, Join
<1> QED  BY <1>1, <1>2, <1>3, <1>4, <1>5, <1>6, <1>7, <1>8, <1>9, <1>10
     DEF Next, ThreadNext, Dispose, Call, InCall, Procs

\* What a careful client has declared dirty is flushed before it is freed
\* (cache.c:65-100, 226-259).
THEOREM WritesSafe == ASSUME OneCareful PROVE Spec => NoLostWrite
<1>1. IInv /\ CInv /\ [Next]_vars => [FreesTheSaved]_vars
  BY OneCareful, FreesSaved
<1> QED
  BY <1>1, CarefulInvariant, PTL DEF Spec, NoLostWrite, FreesTheSaved

\* The callbacks and the reset of the flag word never meet a pinned element, unless
\* cache_disable() has been called.
LEMMA PinnedKept ==
  OneCareful /\ IInv /\ CInv /\ [Next]_vars => [TakesNoPinned]_vars
<1> SUFFICES ASSUME OneCareful, IInv, CInv, Next PROVE TakesNoPinned
  OBVIOUS
<1> USE ConstantsAssumption
        DEF Step, StepIdx, Goto, cacheVars, heapVars, Pinned, IInv, TypeOK, HeapTypeOK,
        TakesNoPinned
<1>1. ASSUME CacheEnable \/ ThreadStart \/ ThreadStartWrite \/ ThreadTop \/ ThreadLock
             \/ ThreadSkip \/ ThreadReadFlags \/ ThreadTryFails \/ ThreadTryLock
             \/ ThreadRelease \/ ThreadPassEnd \/ ThreadCheck \/ ThreadFinish
      PROVE  TakesNoPinned
  BY <1>1
     DEF CacheEnable, ThreadStart, ThreadStartWrite, SetCaFlags, ThreadTop, ThreadLock,
         ThreadSkip, NextSlot, ThreadReadFlags, ThreadTryFails, ThreadTryLock, Work,
         AfterFlush, SetMutex, ThreadRelease, ThreadPassEnd, ThreadCheck, ThreadFinish
<1>2. ASSUME NEW p \in Procs, Flush(p) PROVE TakesNoPinned
  BY <1>2, VictimType
     DEF Flush, AfterFlush, CInv
<1>3. ASSUME NEW p \in Procs, Retire(p) PROVE TakesNoPinned
  BY <1>3, VictimType
     DEF Retire, CInv, CallInv, PinInv, ThreadInv, Victim, Procs
<1>4. ASSUME NEW p \in Procs, Free(p) PROVE TakesNoPinned
  BY <1>4
     DEF Free
<1>5. ASSUME NEW p \in Procs, Clear(p) PROVE TakesNoPinned
  BY <1>5
     DEF Clear, AfterClear
<1>6. ASSUME NEW c \in Clients, CallLocked(c) \/ CallKeyed(c) \/ CallSync(c)
             \/ CallDisable(c) \/ CallElement(c) \/ CallWaitEl(c)
      PROVE  TakesNoPinned
  BY <1>6
     DEF CallLocked, Begin, CallKeyed, GiveUp, CallSync, Return, CallDisable, CallElement,
         CallWaitEl
<1>7. ASSUME NEW c \in Clients, LockCa(c) \/ UnlockCa(c) \/ FindRoom(c) \/ AllocFails(c)
      PROVE  TakesNoPinned
  BY <1>7
     DEF LockCa, AfterLock, UnlockCa, FindRoom, MapRefused, AllocFails
<1>8. ASSUME NEW c \in Clients, Alloc(c) PROVE TakesNoPinned
  BY <1>8
     DEF Alloc
<1>9. ASSUME NEW c \in Clients, Lookup(c) \/ FindKey(c) \/ EvictLock(c) PROVE TakesNoPinned
  BY <1>9
     DEF Lookup, FindKey, EvictLock, Work, AfterFlush, SetMutex
<1>10. ASSUME NEW c \in Clients, Mark(c) \/ ElLock(c) PROVE TakesNoPinned
  BY <1>10
     DEF Mark, ElLock, SetMutex
<1>11. ASSUME NEW c \in Clients, ElUpdate(c) PROVE TakesNoPinned
  BY <1>11
     DEF ElUpdate, Return, GiveUp, ElementFlags, CInv, CallInv, HandleInv, Kept, Evicting,
         LocalInv, ElementInv, Waiting, Sweeps
<1>12. ASSUME NEW c \in Clients, ReadFlags(c) \/ WriteFlags(c) \/ Poll(c) \/ Join(c)
      PROVE  TakesNoPinned
  BY <1>12
     DEF ReadFlags, WriteFlags, Return, Poll, Join
<1> QED  BY <1>1, <1>2, <1>3, <1>4, <1>5, <1>6, <1>7, <1>8, <1>9, <1>10, <1>11, <1>12
     DEF Next, ThreadNext, Dispose, Call, InCall, Procs

\* A pinned element is taken out only when the whole cache is disabled
\* (cache.c:316-323, 371, 503; cache.h:43).
THEOREM PinnedCorrect == ASSUME OneCareful PROVE Spec => PinnedStays
<1>1. IInv /\ CInv /\ [Next]_vars => [TakesNoPinned]_vars
  BY OneCareful, PinnedKept
<1> QED
  BY <1>1, CarefulInvariant, PTL DEF Spec, PinnedStays, TakesNoPinned

\* When the thread answers EXIT by EVICTED, no element is left (cache.c:108-111,
\* cache.h:79).
THEOREM EvictedCorrect == ASSUME OneCareful PROVE Spec => []EvictedMeansEmpty
<1>1. EInv => EvictedMeansEmpty
  BY DEF EInv, EmptiedInv, EvictedMeansEmpty
<1> QED
  BY <1>1, CarefulInvariant, PTL

-----------------------------------------------------------------------------
(* cache_sync(): the request SET_LOOP_DONE and its answer LOOP_DONE.         *)

\* A client that waits for the answer of the thread, and one that has seen it and
\* is taking it back.
Awaits(c)   == op[c] = "sync" /\ pc[c] = "poll"
Answered(c) == op[c] = "sync_clear" /\ pc[c] \in {"lock", "read", "write"}

\* The request stands while its client waits, and the answer until it is taken
\* back: no request ever meets the answer to an earlier one.
LoopInv ==
  /\ "SET_LOOP_DONE" \in ca_flags =>
       "LOOP_DONE" \notin ca_flags /\ \E c \in Clients : Awaits(c)
  /\ "LOOP_DONE" \in ca_flags => \E c \in Clients : Awaits(c) \/ Answered(c)
  /\ pc[Thread] = "start_write" =>
       "SET_LOOP_DONE" \notin seen[Thread] /\ "LOOP_DONE" \notin seen[Thread]
  /\ \A c \in Clients :
       /\ pc[c] = "write" => seen[c] = ca_flags
       /\ op[c] = "sync_clear" => arg[c] = "LOOP_DONE"
       /\ op[c] \in FlagOps /\ arg[c] = "SET_LOOP_DONE" => op[c] = "sync"
       /\ op[c] \in FlagOps /\ arg[c] = "LOOP_DONE" =>
            op[c] \in {"clear_loop_done", "sync_clear"}

\* What cache_sync() has passed is marked or pinned; what the pass of the thread has
\* passed since is gone or pinned.
Spared(i) == ca_ptr[i] # NULL => Marked(i) \/ Pinned(ca_ptr[i])
Gone(i)   == ca_ptr[i] # NULL => Retired(i) \/ Pinned(ca_ptr[i])

SpareInv ==
  \A c \in Clients : op[c] = "sync" =>
    /\ pc[c] \in {"mark", "el_wait", "el_held"} => \A i \in Slots : i < idx[c] => Spared(i)
    /\ pc[c] \in {"read", "write", "poll"} => \A i \in Slots : Spared(i)

PassInv ==
  \A c \in Clients : Awaits(c) /\ HoldsCa(Thread) =>
    /\ \A i \in Slots : i < idx[Thread] => Gone(i)
    /\ pc[Thread] \in {"try", "flush"} => "EVICT" \in tflags \/ Pinned(Victim(Thread))
    /\ pc[Thread] = "release" => Pinned(Victim(Thread))

GoneInv ==
  \A c \in Clients : (Awaits(c) /\ "LOOP_DONE" \in ca_flags) \/ Answered(c) =>
    \A i \in Slots : Gone(i)

SInv == LoopInv /\ SpareInv /\ PassInv /\ GoneInv

\* The request and the answer come and go in turn.
LEMMA LoopStep ==
  OneCareful /\ "timeout" \notin Faults /\ IInv /\ CInv /\ EInv /\ SInv /\ Next => LoopInv'
<1> SUFFICES ASSUME OneCareful, "timeout" \notin Faults, IInv, CInv, EInv, SInv, Next
             PROVE  LoopInv'
  OBVIOUS
<1> USE ConstantsAssumption DEF OneCareful, IInv, CInv, TypeOK, HeapTypeOK, ProcTypeOK,
        CallTypeOK, Procs, Step, StepIdx, Goto, cacheVars, heapVars, keptVars, EInv, SInv,
        MutexInv, HoldsCa, CacheTypeOK, LoopInv, Awaits, Answered, FlagOps
<1>1. ASSUME CacheEnable PROVE LoopInv'
  BY <1>1 DEF CacheEnable
<1>2. ASSUME ThreadStart PROVE LoopInv'
  BY <1>2 DEF ThreadStart, StartInv
<1>3. ASSUME ThreadStartWrite PROVE LoopInv'
  BY <1>3 DEF ThreadStartWrite, SetCaFlags, StartInv
<1>4. ASSUME ThreadTop PROVE LoopInv'
  BY <1>4 DEF ThreadTop
<1>5. ASSUME ThreadLock PROVE LoopInv'
  BY <1>5 DEF ThreadLock
<1>6. ASSUME ThreadSkip PROVE LoopInv'
  BY <1>6 DEF ThreadSkip, NextSlot
<1>7. ASSUME ThreadReadFlags PROVE LoopInv'
  BY <1>7 DEF ThreadReadFlags
<1>8. ASSUME ThreadTryFails PROVE LoopInv'
  BY <1>8 DEF ThreadTryFails, NextSlot
<1>9. ASSUME ThreadTryLock PROVE LoopInv'
  BY <1>9 DEF ThreadTryLock, Work, AfterFlush, SetMutex
<1>10. ASSUME ThreadRelease PROVE LoopInv'
  BY <1>10 DEF ThreadRelease, NextSlot, SetMutex
<1>11. ASSUME ThreadPassEnd PROVE LoopInv'
  BY <1>11 DEF ThreadPassEnd, PassEndFlags
<1>12. ASSUME ThreadCheck PROVE LoopInv'
  BY <1>12 DEF ThreadCheck
<1>13. ASSUME ThreadFinish PROVE LoopInv'
  BY <1>13 DEF ThreadFinish, SetCaFlags, ExitInv, Ending, StartInv
<1>14. ASSUME NEW p \in Procs, Flush(p) PROVE LoopInv'
  BY <1>14 DEF Flush, AfterFlush
<1>15. ASSUME NEW p \in Procs, Retire(p) PROVE LoopInv'
  BY <1>15 DEF Retire
<1>16. ASSUME NEW p \in Procs, Free(p) PROVE LoopInv'
  BY <1>16 DEF Free
<1>17. ASSUME NEW p \in Procs, Clear(p) PROVE LoopInv'
  BY <1>17 DEF Clear, AfterClear
<1>18. ASSUME NEW c \in Clients, CallLocked(c) PROVE LoopInv'
  BY <1>18 DEF CallLocked, Begin, FlagOf, SettableFlags, FlagOps
<1>19. ASSUME NEW c \in Clients, CallKeyed(c) PROVE LoopInv'
  BY <1>19 DEF CallKeyed, Begin, GiveUp
<1>20. ASSUME NEW c \in Clients, CallSync(c) \/ CallDisable(c) PROVE LoopInv'
  BY <1>20 DEF CallSync, CallDisable, Begin, GiveUp, Return, FlagOf
<1>21. ASSUME NEW c \in Clients, CallElement(c) \/ CallWaitEl(c) PROVE LoopInv'
  BY <1>21 DEF CallElement, CallWaitEl, Begin, Return
<1>22. ASSUME NEW c \in Clients, LockCa(c) \/ UnlockCa(c) PROVE LoopInv'
  BY <1>22 DEF LockCa, AfterLock, UnlockCa
<1>23. ASSUME NEW c \in Clients, FindRoom(c) \/ AllocFails(c) PROVE LoopInv'
  BY <1>23 DEF FindRoom, MapRefused, AllocFails
<1>24. ASSUME NEW c \in Clients, Alloc(c) PROVE LoopInv'
  BY <1>24 DEF Alloc
<1>25. ASSUME NEW c \in Clients, Lookup(c) \/ FindKey(c) PROVE LoopInv'
  BY <1>25 DEF Lookup, FindKey
<1>26. ASSUME NEW c \in Clients, EvictLock(c) PROVE LoopInv'
  BY <1>26 DEF EvictLock, Work, AfterFlush, SetMutex
<1>27. ASSUME NEW c \in Clients, Mark(c) PROVE LoopInv'
  BY <1>27 DEF Mark
<1>28. ASSUME NEW c \in Clients, ElLock(c) PROVE LoopInv'
  BY <1>28 DEF ElLock, SetMutex
<1>29. ASSUME NEW c \in Clients, ElUpdate(c) PROVE LoopInv'
  BY <1>29 DEF ElUpdate, Return, GiveUp, ElementFlags
<1>30. ASSUME NEW c \in Clients, ReadFlags(c) \/ Join(c) PROVE LoopInv'
  BY <1>30 DEF ReadFlags, Return, Join
<1>31. ASSUME NEW c \in Clients, WriteFlags(c) PROVE LoopInv'
  BY <1>31 DEF WriteFlags, Return, FlagOps, LocalInv, OpInv, Clears, CallInv
<1>32. ASSUME NEW c \in Clients, Poll(c) PROVE LoopInv'
  BY <1>32 DEF Poll, Awaited, FlagOf, CallInv
<1> QED  BY <1>1, <1>2, <1>3, <1>4, <1>5, <1>6, <1>7, <1>8, <1>9, <1>10, <1>11, <1>12,
            <1>13, <1>14, <1>15, <1>16, <1>17, <1>18, <1>19, <1>20, <1>21, <1>22, <1>23,
            <1>24, <1>25, <1>26, <1>27, <1>28, <1>29, <1>30, <1>31, <1>32
     DEF Next, ThreadNext, Dispose, Call, InCall, Procs

\* cache_sync() leaves a slot only when its element is marked or pinned.
LEMMA SpareStep ==
  OneCareful /\ "timeout" \notin Faults /\ IInv /\ CInv /\ EInv /\ SInv /\ Next => SpareInv'
<1> SUFFICES ASSUME OneCareful, "timeout" \notin Faults, IInv, CInv, EInv, SInv, Next
             PROVE  SpareInv'
  OBVIOUS
<1> USE ConstantsAssumption DEF OneCareful, IInv, CInv, TypeOK, HeapTypeOK, ProcTypeOK,
        CallTypeOK, Procs, Step, StepIdx, Goto, cacheVars, heapVars, keptVars, EInv, SInv,
        MutexInv, HoldsCa, CacheTypeOK, SpareInv, Spared, Marked, Retired, Pinned
<1>1. ASSUME CacheEnable PROVE SpareInv'
  BY <1>1 DEF CacheEnable
<1>2. ASSUME ThreadStart PROVE SpareInv'
  BY <1>2 DEF ThreadStart, StartInv
<1>3. ASSUME ThreadStartWrite PROVE SpareInv'
  BY <1>3 DEF ThreadStartWrite, SetCaFlags, StartInv
<1>4. ASSUME ThreadTop PROVE SpareInv'
  BY <1>4 DEF ThreadTop
<1>5. ASSUME ThreadLock PROVE SpareInv'
  BY <1>5 DEF ThreadLock
<1>6. ASSUME ThreadSkip PROVE SpareInv'
  BY <1>6 DEF ThreadSkip, NextSlot
<1>7. ASSUME ThreadReadFlags PROVE SpareInv'
  BY <1>7 DEF ThreadReadFlags
<1>8. ASSUME ThreadTryFails PROVE SpareInv'
  BY <1>8 DEF ThreadTryFails, NextSlot
<1>9. ASSUME ThreadTryLock PROVE SpareInv'
  BY <1>9 DEF ThreadTryLock, Work, AfterFlush, SetMutex
<1>10. ASSUME ThreadRelease PROVE SpareInv'
  BY <1>10 DEF ThreadRelease, NextSlot, SetMutex
<1>11. ASSUME ThreadPassEnd PROVE SpareInv'
  BY <1>11 DEF ThreadPassEnd, PassEndFlags
<1>12. ASSUME ThreadCheck PROVE SpareInv'
  BY <1>12 DEF ThreadCheck
<1>13. ASSUME ThreadFinish PROVE SpareInv'
  BY <1>13 DEF ThreadFinish, SetCaFlags, ExitInv, Ending, StartInv
<1>14. ASSUME NEW p \in Procs, Flush(p) PROVE SpareInv'
  BY <1>14 DEF Flush, AfterFlush
<1>15. ASSUME NEW p \in Procs, Retire(p) PROVE SpareInv'
  BY <1>15, VictimType DEF Retire, TableInv, SlotsDistinct, UsedSlots, Victim
<1>16. ASSUME NEW p \in Procs, Free(p) PROVE SpareInv'
  BY <1>16 DEF Free
<1>17. ASSUME NEW p \in Procs, Clear(p) PROVE SpareInv'
  BY <1>17 DEF Clear, AfterClear
<1>18. ASSUME NEW c \in Clients, CallLocked(c) PROVE SpareInv'
  BY <1>18 DEF CallLocked, Begin, FlagOf, SettableFlags, FlagOps
<1>19. ASSUME NEW c \in Clients, CallKeyed(c) PROVE SpareInv'
  BY <1>19 DEF CallKeyed, Begin, GiveUp
<1>20. ASSUME NEW c \in Clients, CallSync(c) \/ CallDisable(c) PROVE SpareInv'
  BY <1>20 DEF CallSync, CallDisable, Begin, GiveUp, Return, FlagOf
<1>21. ASSUME NEW c \in Clients, CallElement(c) \/ CallWaitEl(c) PROVE SpareInv'
  BY <1>21 DEF CallElement, CallWaitEl, Begin, Return
<1>22. ASSUME NEW c \in Clients, LockCa(c) \/ UnlockCa(c) PROVE SpareInv'
  BY <1>22 DEF LockCa, AfterLock, UnlockCa, Slots
<1>23. ASSUME NEW c \in Clients, FindRoom(c) \/ AllocFails(c) PROVE SpareInv'
  BY <1>23 DEF FindRoom, MapRefused, AllocFails
<1>24. ASSUME NEW c \in Clients, Alloc(c) PROVE SpareInv'
  BY <1>24 DEF Alloc
<1>25. ASSUME NEW c \in Clients, Lookup(c) \/ FindKey(c) PROVE SpareInv'
  BY <1>25 DEF Lookup, FindKey
<1>26. ASSUME NEW c \in Clients, EvictLock(c) PROVE SpareInv'
  BY <1>26 DEF EvictLock, Work, AfterFlush, SetMutex
<1>27. ASSUME NEW c \in Clients, Mark(c) PROVE SpareInv'
  <2>1. ca_mutex = c /\ pc[c] = "mark" /\ \A d \in Clients : d = c
    BY <1>27 DEF Mark
  <2>2. ASSUME idx[c] \notin Slots, Step(c, "read") PROVE SpareInv'
    BY <1>27, <2>1, <2>2 DEF Mark, Slots
  <2>3. ASSUME idx[c] \in Slots, ~Markable(c, Victim(c)), StepIdx(c, "mark", idx[c] + 1)
        PROVE  SpareInv'
    <3>1. op[c] = "sync" => Spared(idx[c])
      BY <2>1, <2>3 DEF Markable, TableInv, SlotsActive, UsedSlots, Victim
    <3> QED
      BY <1>27, <2>1, <2>3, <3>1 DEF Mark, Slots
  <2>4. ASSUME Goto(c, "el_wait"), UNCHANGED <<op, idx>> PROVE SpareInv'
    BY <1>27, <2>1, <2>4 DEF Mark
  <2> QED
    BY <1>27, <2>2, <2>3, <2>4 DEF Mark
<1>28. ASSUME NEW c \in Clients, ElLock(c) PROVE SpareInv'
  BY <1>28 DEF ElLock, SetMutex
<1>29. ASSUME NEW c \in Clients, ElUpdate(c) PROVE SpareInv'
  <2>1. /\ pc[c] = "el_held" /\ el[c] \in Addr /\ \A d \in Clients : d = c
        /\ UNCHANGED <<ca_ptr, ca_mutex, op>>
    BY <1>29 DEF ElUpdate, LocalInv, ElementInv, Return
  <2>2. CASE op[c] = "sync"
    <3>1. ca_mutex = c /\ el[c] = ca_ptr[idx[c]] /\ idx[c] \in Slots
      BY <2>1, <2>2 DEF CallInv, Waiting, Sweeps, Victim, LocalInv, ElementInv
    <3>2. /\ ce_flags' = [ce_flags EXCEPT ![el[c]] = @ \union {"EVICT"}]
          /\ StepIdx(c, "mark", idx[c] + 1)
      BY <1>29, <2>2 DEF ElUpdate, ElementFlags
    <3>3. \A i \in Slots : Spared(i) => Spared(i)'
      BY <2>1, <3>1, <3>2
    <3>4. ASSUME NEW i \in Slots, i = idx[c] PROVE Spared(i)'
      BY <2>1, <3>1, <3>2, <3>4
    <3> QED
      BY <2>1, <2>2, <3>1, <3>2, <3>3, <3>4 DEF Slots
  <2>3. CASE op[c] # "sync"
    BY <2>1, <2>3
  <2> QED
    BY <2>2, <2>3
<1>30. ASSUME NEW c \in Clients, ReadFlags(c) \/ Join(c) PROVE SpareInv'
  BY <1>30 DEF ReadFlags, Return, Join
<1>31. ASSUME NEW c \in Clients, WriteFlags(c) PROVE SpareInv'
  BY <1>31 DEF WriteFlags, Return, FlagOps
<1>32. ASSUME NEW c \in Clients, Poll(c) PROVE SpareInv'
  BY <1>32 DEF Poll, Awaited, FlagOf
<1> QED  BY <1>1, <1>2, <1>3, <1>4, <1>5, <1>6, <1>7, <1>8, <1>9, <1>10, <1>11, <1>12,
            <1>13, <1>14, <1>15, <1>16, <1>17, <1>18, <1>19, <1>20, <1>21, <1>22, <1>23,
            <1>24, <1>25, <1>26, <1>27, <1>28, <1>29, <1>30, <1>31, <1>32
     DEF Next, ThreadNext, Dispose, Call, InCall, Procs

\* The pass that starts after the marks takes out every element but the pinned ones.
LEMMA PassStep ==
  OneCareful /\ "timeout" \notin Faults /\ IInv /\ CInv /\ EInv /\ SInv /\ Next => PassInv'
<1> SUFFICES ASSUME OneCareful, "timeout" \notin Faults, IInv, CInv, EInv, SInv, Next
             PROVE  PassInv'
  OBVIOUS
<1> USE ConstantsAssumption DEF OneCareful, IInv, CInv, TypeOK, HeapTypeOK, ProcTypeOK,
        CallTypeOK, Procs, Step, StepIdx, Goto, cacheVars, heapVars, keptVars, EInv, SInv,
        MutexInv, HoldsCa, CacheTypeOK, PassInv, Gone, Awaits, Retired, Pinned
<1>1. ASSUME CacheEnable PROVE PassInv'
  BY <1>1 DEF CacheEnable
<1>2. ASSUME ThreadStart PROVE PassInv'
  BY <1>2 DEF ThreadStart, StartInv
<1>3. ASSUME ThreadStartWrite PROVE PassInv'
  BY <1>3 DEF ThreadStartWrite, SetCaFlags, StartInv
<1>4. ASSUME ThreadTop PROVE PassInv'
  BY <1>4 DEF ThreadTop
<1>5. ASSUME ThreadLock PROVE PassInv'
  <2>1. ca_in_use <= 0 => LiveSlots = {}
    BY LiveSlotsFinite, FS_EmptySet, FS_CardinalityType DEF CountInv
  <2>2. LiveSlots = UsedSlots
    BY <1>5 DEF ThreadLock, LiveSlots, UsedSlots
  <2>3. ca_in_use <= 0 => \A i \in Slots : ca_ptr[i] = NULL
    BY <2>1, <2>2 DEF UsedSlots
  <2> QED
    BY <1>5, <2>3 DEF ThreadLock, Slots
<1>6. ASSUME ThreadSkip PROVE PassInv'
  <2>1. ca_mutex = Thread /\ idx[Thread] \in Slots
    BY <1>6 DEF ThreadSkip
  <2>2. ca_ptr[idx[Thread]] = NULL
    BY <1>6, <2>1 DEF ThreadSkip, AtElement, Victim, TableInv, SlotsActive, UsedSlots
  <2> QED
    BY <1>6, <2>1, <2>2 DEF ThreadSkip, NextSlot, Slots
<1>7. ASSUME ThreadReadFlags PROVE PassInv'
  BY <1>7 DEF ThreadReadFlags, AtElement, Victim, SpareInv, Spared, Marked
<1>8. ASSUME ThreadTryFails PROVE PassInv'
  BY <1>8, VictimType
     DEF ThreadTryFails, NextSlot, MutexFree, OwnedInv, AtVictim, ClientLabels
<1>9. ASSUME ThreadTryLock PROVE PassInv'
  BY <1>9 DEF ThreadTryLock, Work, AfterFlush, SetMutex, Victim
<1>10. ASSUME ThreadRelease PROVE PassInv'
  BY <1>10 DEF ThreadRelease, NextSlot, SetMutex, Victim, Slots
<1>11. ASSUME ThreadPassEnd PROVE PassInv'
  BY <1>11 DEF ThreadPassEnd, PassEndFlags
<1>12. ASSUME ThreadCheck PROVE PassInv'
  BY <1>12 DEF ThreadCheck
<1>13. ASSUME ThreadFinish PROVE PassInv'
  BY <1>13 DEF ThreadFinish, SetCaFlags, ExitInv, Ending, StartInv
<1>14. ASSUME NEW p \in Procs, Flush(p) PROVE PassInv'
  BY <1>14, VictimType DEF Flush, AfterFlush, Victim
<1>15. ASSUME NEW p \in Procs, Retire(p) PROVE PassInv'
  BY <1>15, VictimType DEF Retire, TableInv, SlotsDistinct, UsedSlots, Victim, Slots
<1>16. ASSUME NEW p \in Procs, Free(p) PROVE PassInv'
  BY <1>16 DEF Free
<1>17. ASSUME NEW p \in Procs, Clear(p) PROVE PassInv'
  BY <1>17 DEF Clear, AfterClear, LocalInv, IndexInv, Slots
<1>18. ASSUME NEW c \in Clients, CallLocked(c) PROVE PassInv'
  BY <1>18 DEF CallLocked, Begin, FlagOf, SettableFlags, FlagOps
<1>19. ASSUME NEW c \in Clients, CallKeyed(c) PROVE PassInv'
  BY <1>19 DEF CallKeyed, Begin, GiveUp
<1>20. ASSUME NEW c \in Clients, CallSync(c) \/ CallDisable(c) PROVE PassInv'
  BY <1>20 DEF CallSync, CallDisable, Begin, GiveUp, Return, FlagOf
<1>21. ASSUME NEW c \in Clients, CallElement(c) \/ CallWaitEl(c) PROVE PassInv'
  BY <1>21 DEF CallElement, CallWaitEl, Begin, Return
<1>22. ASSUME NEW c \in Clients, LockCa(c) \/ UnlockCa(c) PROVE PassInv'
  BY <1>22 DEF LockCa, AfterLock, UnlockCa
<1>23. ASSUME NEW c \in Clients, FindRoom(c) \/ AllocFails(c) PROVE PassInv'
  BY <1>23 DEF FindRoom, MapRefused, AllocFails
<1>24. ASSUME NEW c \in Clients, Alloc(c) PROVE PassInv'
  BY <1>24 DEF Alloc
<1>25. ASSUME NEW c \in Clients, Lookup(c) \/ FindKey(c) PROVE PassInv'
  BY <1>25 DEF Lookup, FindKey
<1>26. ASSUME NEW c \in Clients, EvictLock(c) PROVE PassInv'
  BY <1>26 DEF EvictLock, Work, AfterFlush, SetMutex
<1>27. ASSUME NEW c \in Clients, Mark(c) PROVE PassInv'
  BY <1>27 DEF Mark
<1>28. ASSUME NEW c \in Clients, ElLock(c) PROVE PassInv'
  BY <1>28 DEF ElLock, SetMutex
<1>29. ASSUME NEW c \in Clients, ElUpdate(c) PROVE PassInv'
  BY <1>29 DEF ElUpdate, Return, GiveUp, ElementFlags
<1>30. ASSUME NEW c \in Clients, ReadFlags(c) \/ Join(c) PROVE PassInv'
  BY <1>30 DEF ReadFlags, Return, Join
<1>31. ASSUME NEW c \in Clients, WriteFlags(c) PROVE PassInv'
  BY <1>31 DEF WriteFlags, Return, FlagOps
<1>32. ASSUME NEW c \in Clients, Poll(c) PROVE PassInv'
  BY <1>32 DEF Poll, Awaited, FlagOf
<1> QED  BY <1>1, <1>2, <1>3, <1>4, <1>5, <1>6, <1>7, <1>8, <1>9, <1>10, <1>11, <1>12,
            <1>13, <1>14, <1>15, <1>16, <1>17, <1>18, <1>19, <1>20, <1>21, <1>22, <1>23,
            <1>24, <1>25, <1>26, <1>27, <1>28, <1>29, <1>30, <1>31, <1>32
     DEF Next, ThreadNext, Dispose, Call, InCall, Procs

\* The answer comes at the end of that pass, when all slots have been passed.
LEMMA GoneStep ==
  OneCareful /\ "timeout" \notin Faults /\ IInv /\ CInv /\ EInv /\ SInv /\ Next => GoneInv'
<1> SUFFICES ASSUME OneCareful, "timeout" \notin Faults, IInv, CInv, EInv, SInv, Next
             PROVE  GoneInv'
  OBVIOUS
<1> USE ConstantsAssumption DEF OneCareful, IInv, CInv, TypeOK, HeapTypeOK, ProcTypeOK,
        CallTypeOK, Procs, Step, StepIdx, Goto, cacheVars, heapVars, keptVars, EInv, SInv,
        MutexInv, HoldsCa, CacheTypeOK, GoneInv, Gone, Awaits, Answered, Retired, Pinned
<1>1. ASSUME CacheEnable PROVE GoneInv'
  BY <1>1 DEF CacheEnable
<1>2. ASSUME ThreadStart PROVE GoneInv'
  BY <1>2 DEF ThreadStart, StartInv
<1>3. ASSUME ThreadStartWrite PROVE GoneInv'
  BY <1>3 DEF ThreadStartWrite, SetCaFlags, StartInv
<1>4. ASSUME ThreadTop PROVE GoneInv'
  BY <1>4 DEF ThreadTop
<1>5. ASSUME ThreadLock PROVE GoneInv'
  BY <1>5 DEF ThreadLock
<1>6. ASSUME ThreadSkip PROVE GoneInv'
  BY <1>6 DEF ThreadSkip, NextSlot
<1>7. ASSUME ThreadReadFlags PROVE GoneInv'
  BY <1>7 DEF ThreadReadFlags
<1>8. ASSUME ThreadTryFails PROVE GoneInv'
  BY <1>8 DEF ThreadTryFails, NextSlot
<1>9. ASSUME ThreadTryLock PROVE GoneInv'
  BY <1>9 DEF ThreadTryLock, Work, AfterFlush, SetMutex
<1>10. ASSUME ThreadRelease PROVE GoneInv'
  BY <1>10 DEF ThreadRelease, NextSlot, SetMutex
<1>11. ASSUME ThreadPassEnd PROVE GoneInv'
  BY <1>11 DEF ThreadPassEnd, PassEndFlags, PassInv, LoopInv, Awaits, Slots
<1>12. ASSUME ThreadCheck PROVE GoneInv'
  BY <1>12 DEF ThreadCheck
<1>13. ASSUME ThreadFinish PROVE GoneInv'
  BY <1>13 DEF ThreadFinish, SetCaFlags, ExitInv, Ending, StartInv
<1>14. ASSUME NEW p \in Procs, Flush(p) PROVE GoneInv'
  BY <1>14, VictimType DEF Flush, AfterFlush
<1>15. ASSUME NEW p \in Procs, Retire(p) PROVE GoneInv'
  BY <1>15, VictimType DEF Retire, TableInv, SlotsDistinct, UsedSlots, Victim, Slots
<1>16. ASSUME NEW p \in Procs, Free(p) PROVE GoneInv'
  BY <1>16 DEF Free
<1>17. ASSUME NEW p \in Procs, Clear(p) PROVE GoneInv'
  BY <1>17 DEF Clear, AfterClear
<1>18. ASSUME NEW c \in Clients, CallLocked(c) PROVE GoneInv'
  BY <1>18 DEF CallLocked, Begin, FlagOf, SettableFlags, FlagOps
<1>19. ASSUME NEW c \in Clients, CallKeyed(c) PROVE GoneInv'
  BY <1>19 DEF CallKeyed, Begin, GiveUp
<1>20. ASSUME NEW c \in Clients, CallSync(c) \/ CallDisable(c) PROVE GoneInv'
  BY <1>20 DEF CallSync, CallDisable, Begin, GiveUp, Return, FlagOf
<1>21. ASSUME NEW c \in Clients, CallElement(c) \/ CallWaitEl(c) PROVE GoneInv'
  BY <1>21 DEF CallElement, CallWaitEl, Begin, Return
<1>22. ASSUME NEW c \in Clients, LockCa(c) \/ UnlockCa(c) PROVE GoneInv'
  BY <1>22 DEF LockCa, AfterLock, UnlockCa
<1>23. ASSUME NEW c \in Clients, FindRoom(c) \/ AllocFails(c) PROVE GoneInv'
  BY <1>23 DEF FindRoom, MapRefused, AllocFails
<1>24. ASSUME NEW c \in Clients, Alloc(c) PROVE GoneInv'
  BY <1>24 DEF Alloc
<1>25. ASSUME NEW c \in Clients, Lookup(c) \/ FindKey(c) PROVE GoneInv'
  BY <1>25 DEF Lookup, FindKey
<1>26. ASSUME NEW c \in Clients, EvictLock(c) PROVE GoneInv'
  BY <1>26 DEF EvictLock, Work, AfterFlush, SetMutex
<1>27. ASSUME NEW c \in Clients, Mark(c) PROVE GoneInv'
  BY <1>27 DEF Mark, LocalInv, OpInv
<1>28. ASSUME NEW c \in Clients, ElLock(c) PROVE GoneInv'
  BY <1>28 DEF ElLock, SetMutex
<1>29. ASSUME NEW c \in Clients, ElUpdate(c) PROVE GoneInv'
  BY <1>29 DEF ElUpdate, Return, GiveUp, ElementFlags
<1>30. ASSUME NEW c \in Clients, ReadFlags(c) \/ Join(c) PROVE GoneInv'
  BY <1>30 DEF ReadFlags, Return, Join
<1>31. ASSUME NEW c \in Clients, WriteFlags(c) PROVE GoneInv'
  BY <1>31 DEF WriteFlags, Return, FlagOps, LoopInv
<1>32. ASSUME NEW c \in Clients, Poll(c) PROVE GoneInv'
  BY <1>32 DEF Poll, Awaited, FlagOf
<1> QED  BY <1>1, <1>2, <1>3, <1>4, <1>5, <1>6, <1>7, <1>8, <1>9, <1>10, <1>11, <1>12,
            <1>13, <1>14, <1>15, <1>16, <1>17, <1>18, <1>19, <1>20, <1>21, <1>22, <1>23,
            <1>24, <1>25, <1>26, <1>27, <1>28, <1>29, <1>30, <1>31, <1>32
     DEF Next, ThreadNext, Dispose, Call, InCall, Procs

\* The initial states: no request, no answer.
LEMMA SyncInit == Init => SInv
  BY ConstantsAssumption
     DEF Init, SInv, LoopInv, SpareInv, PassInv, GoneInv, Awaits, Answered, FlagOps, Procs

\* One step keeps all of it.
LEMMA SyncStep ==
  OneCareful /\ "timeout" \notin Faults /\ IInv /\ CInv /\ EInv /\ SInv
  /\ [Next]_vars => SInv'
<1>1. CASE Next
  BY <1>1, LoopStep, SpareStep, PassStep, GoneStep DEF SInv
<1>2. CASE UNCHANGED vars
  BY <1>2
     DEF vars, cacheVars, heapVars, keptVars, SInv, LoopInv, SpareInv, PassInv, GoneInv,
         Awaits, Answered, Spared, Gone, Marked, Retired, Pinned, HoldsCa, Victim
<1> QED
  BY <1>1, <1>2

\* When cache_sync() returns 0, what is left in the table is pinned (cache.h:159), for
\* one careful client and as long as no wait ends by the timeout of cache.c:381: the
\* answer to a wait that was given up would end the next one too early.
THEOREM SyncsEvict ==
  ASSUME OneCareful, "timeout" \notin Faults PROVE Spec => SyncEvicts
<1> DEFINE P == \A c \in Clients :
                 op[c] = "sync_clear" /\ pc[c] = "write" /\ rc[c] = 0 /\ pc'[c] = "idle"
                   => \A i \in UsedSlots : Pinned(ca_ptr[i])
<1>1. Init => IInv /\ CInv /\ EInv /\ SInv
  BY InitIInv, CarefulInit, SyncInit
<1>2. IInv /\ CInv /\ EInv /\ SInv /\ [Next]_vars => (IInv /\ CInv /\ EInv /\ SInv)'
  BY OneCareful, "timeout" \notin Faults, IInvStep, CarefulStep, SyncStep
<1>3. IInv /\ SInv => P
  <2> SUFFICES ASSUME IInv, SInv, NEW c \in Clients, op[c] = "sync_clear", pc[c] = "write",
                      NEW i \in UsedSlots
               PROVE  Pinned(ca_ptr[i])
    OBVIOUS
  <2>1. ca_mutex = c
    BY DEF IInv, MutexInv, HoldsCa, Procs
  <2>2. Gone(i) /\ ca_ptr[i] # NULL
    BY DEF SInv, GoneInv, Answered, UsedSlots
  <2> QED
    BY <2>1, <2>2 DEF Gone, Retired
<1>4. IInv /\ SInv /\ [Next]_vars => [P]_vars
  BY <1>3
<1> QED
  BY <1>1, <1>2, <1>4, PTL DEF Spec, SyncEvicts

=============================================================================
