---------------------------- MODULE CacheProofs ----------------------------
(* Proofs about Cache, for every number of clients, addresses and slots: its *)
(* types, who holds ca_mutex, and the agreement of table, heap and           *)
(* ca_elements_in_use.                                                       *)
EXTENDS Cache, FiniteSetTheorems, TLAPS

\* The labels at which a process is between lock and unlock of ca_mutex.
HoldsCa(p) ==
  \/ p = Thread /\ pc[p] \in {"scan", "try", "flush", "release", "retire", "free",
                              "clear"}
  \/ p \in Clients /\ pc[p] \in {"find", "unlock", "alloc", "ev_lock", "flush", "retire",
                                 "free", "clear", "mark", "read", "write"}
  \/ p \in Clients /\ pc[p] \in {"el_wait", "el_held"} /\ op[p] \in {"sync", "disable"}

\* ca_mutex is held by exactly the process that is between lock and unlock.
MutexInv == \A p \in Procs : HoldsCa(p) <=> ca_mutex = p

\* The functions that change ca_flags.
FlagOps == {"sync", "disable", "pause", "clear_pause", "clear_loop_done",
            "set_flags", "sync_clear"}

\* The slot index, the element and the flag of a process are meaningful where
\* it uses them.
IndexInv ==
  \A p \in Procs :
    pc[p] \in {"try", "flush", "release", "retire", "free", "clear", "alloc", "ev_lock"}
      => idx[p] \in Slots

ElementInv ==
  \A c \in Clients :
    /\ pc[c] \in {"el_wait", "el_held"} =>
         el[c] \in Addr /\ (op[c] \in {"sync", "disable"} => idx[c] \in Slots)
    /\ op[c] \in {"lookup", "evict"} => el[c] \in Addr

OpInv ==
  \A c \in Clients :
    /\ pc[c] = "lock" => op[c] \in FlagOps \union {"map", "lookup", "evict"}
    /\ pc[c] \in {"read", "write"} => op[c] \in FlagOps
    /\ pc[c] \in {"mark", "poll"} => op[c] \in {"sync", "disable"}
    /\ op[c] \in FlagOps => arg[c] \in CaFlags

LocalInv == IndexInv /\ ElementInv /\ OpInv

\* Slot i holds the element that the owner of ca_mutex has retired, or freed.
Retired(i) ==
  ca_mutex # NoOne /\ pc[ca_mutex] \in {"free", "clear"} /\ idx[ca_mutex] = i
Freed(i) ==
  ca_mutex # NoOne /\ pc[ca_mutex] = "clear" /\ idx[ca_mutex] = i

\* What TableSound becomes at any moment, in parts.
SlotsLive == \A i \in UsedSlots : Freed(i) <=> ca_ptr[i] \notin heap
SlotsActive == \A i \in UsedSlots : ~Retired(i) => "ACTIVE" \in ce_flags[ca_ptr[i]]
SlotsDistinct == \A i, j \in UsedSlots : ca_ptr[i] = ca_ptr[j] => i = j
HeapInTable == \A a \in heap : \E i \in UsedSlots : ca_ptr[i] = a
VictimPresent ==
  \A p \in Procs :
    pc[p] \in {"try", "flush", "release", "retire", "free", "clear", "ev_lock"}
      => Victim(p) # NULL
RoomEmpty == \A p \in Procs : pc[p] = "alloc" => Victim(p) = NULL

TableInv == /\ SlotsLive /\ SlotsActive /\ SlotsDistinct
            /\ HeapInTable /\ VictimPresent /\ RoomEmpty

\* What InUseExact becomes at any moment.
LiveSlots == {i \in UsedSlots : ~Retired(i)}
CountInv == ca_in_use = Cardinality(LiveSlots)

IInv == TypeOK /\ MutexInv /\ LocalInv /\ TableInv /\ CountInv

-----------------------------------------------------------------------------

\* Where a process follows ca_ptr[idx], the index is a slot and the slot is
\* occupied: the places where cache.c dereferences an element of the table.
LEMMA VictimType ==
  ASSUME TypeOK, LocalInv, TableInv, NEW p \in Procs,
         pc[p] \in {"try", "flush", "release", "retire", "free", "clear", "ev_lock"}
  PROVE  idx[p] \in Slots /\ Victim(p) \in Addr
  BY DEF TypeOK, CacheTypeOK, LocalInv, IndexInv, TableInv, VictimPresent, Victim

\* Every step keeps the types.
LEMMA TypeStep == TypeOK /\ LocalInv /\ TableInv /\ [Next]_vars => TypeOK'
<1> SUFFICES ASSUME TypeOK, LocalInv, TableInv, [Next]_vars PROVE TypeOK'
  OBVIOUS
<1> USE ConstantsAssumption DEF TypeOK, Procs, Step, StepIdx, Goto, cacheVars,
        heapVars, keptVars
<1>1. ASSUME CacheEnable PROVE TypeOK'
  BY <1>1 DEF CacheEnable, CacheTypeOK, HeapTypeOK, ProcTypeOK, CallTypeOK,
     ThreadLabels
<1>2. ASSUME ThreadStart PROVE TypeOK'
  BY <1>2 DEF ThreadStart, CacheTypeOK, HeapTypeOK, ProcTypeOK, CallTypeOK,
     ThreadLabels
<1>3. ASSUME ThreadStartWrite PROVE TypeOK'
  BY <1>3 DEF ThreadStartWrite, SetCaFlags, CacheTypeOK, HeapTypeOK, ProcTypeOK,
     CallTypeOK, ThreadLabels, CaFlags
<1>4. ASSUME ThreadTop PROVE TypeOK'
  BY <1>4 DEF ThreadTop, CacheTypeOK, HeapTypeOK, ProcTypeOK, CallTypeOK,
     ThreadLabels
<1>5. ASSUME ThreadLock PROVE TypeOK'
  BY <1>5 DEF ThreadLock, CacheTypeOK, HeapTypeOK, ProcTypeOK, CallTypeOK,
     ThreadLabels, CaFlags
<1>6. ASSUME ThreadSkip PROVE TypeOK'
  BY <1>6 DEF ThreadSkip, NextSlot, CacheTypeOK, HeapTypeOK, ProcTypeOK, CallTypeOK,
     ThreadLabels, Slots
<1>7. ASSUME ThreadReadFlags PROVE TypeOK'
  BY <1>7 DEF ThreadReadFlags, CacheTypeOK, HeapTypeOK, ProcTypeOK, CallTypeOK,
     ThreadLabels, AtElement, Victim
<1>8. ASSUME ThreadTryFails PROVE TypeOK'
  BY <1>8 DEF ThreadTryFails, NextSlot, CacheTypeOK, HeapTypeOK, ProcTypeOK,
     CallTypeOK, ThreadLabels, LocalInv, IndexInv, Slots
<1>9. ASSUME ThreadTryLock PROVE TypeOK'
  BY <1>9 DEF ThreadTryLock, Work, AfterFlush, SetMutex, CacheTypeOK, HeapTypeOK,
     ProcTypeOK, CallTypeOK, ThreadLabels
<1>10. ASSUME ThreadRelease PROVE TypeOK'
  <2>1. CacheTypeOK' /\ CallTypeOK'
       BY <1>10 DEF ThreadRelease, NextSlot, SetMutex, CacheTypeOK, CallTypeOK
  <2>2. HeapTypeOK'
       BY <1>10 DEF ThreadRelease, NextSlot, SetMutex, HeapTypeOK
  <2>3. ProcTypeOK'
       BY <1>10 DEF ThreadRelease, NextSlot, SetMutex, ProcTypeOK, ThreadLabels,
          LocalInv, IndexInv, Slots
  <2> QED
    BY <2>1, <2>2, <2>3
<1>11. ASSUME ThreadPassEnd PROVE TypeOK'
  BY <1>11 DEF ThreadPassEnd, CacheTypeOK, HeapTypeOK, ProcTypeOK, CallTypeOK,
     ThreadLabels, PassEndFlags, CaFlags
<1>12. ASSUME ThreadCheck PROVE TypeOK'
  BY <1>12 DEF ThreadCheck, CacheTypeOK, HeapTypeOK, ProcTypeOK, CallTypeOK,
     ThreadLabels
<1>13. ASSUME ThreadFinish PROVE TypeOK'
  BY <1>13 DEF ThreadFinish, SetCaFlags, CacheTypeOK, HeapTypeOK, ProcTypeOK,
     CallTypeOK, ThreadLabels, CaFlags
<1>14. ASSUME NEW p \in Procs, Flush(p) PROVE TypeOK'
  BY <1>14, VictimType DEF Flush, AfterFlush, CacheTypeOK, HeapTypeOK, ProcTypeOK,
     CallTypeOK, ThreadLabels, ClientLabels, Flushed, ElFlags
<1>15. ASSUME NEW p \in Procs, Retire(p) PROVE TypeOK'
  BY <1>15, VictimType DEF Retire, CacheTypeOK, HeapTypeOK, ProcTypeOK, CallTypeOK,
     ThreadLabels, ClientLabels
<1>16. ASSUME NEW p \in Procs, Free(p) PROVE TypeOK'
  BY <1>16, VictimType DEF Free, CacheTypeOK, HeapTypeOK, ProcTypeOK, CallTypeOK,
     ThreadLabels, ClientLabels
<1>17. ASSUME NEW p \in Procs, Clear(p) PROVE TypeOK'
  <2>1. idx[p] \in Slots /\ Victim(p) \in Addr
       BY <1>17, VictimType DEF Clear
  <2>2. HeapTypeOK' /\ CallTypeOK'
       BY <1>17 DEF Clear, AfterClear, HeapTypeOK, CallTypeOK
  <2>3. CacheTypeOK'
       BY <2>1, <1>17 DEF Clear, AfterClear, CacheTypeOK
  <2>4. ProcTypeOK'
       BY <2>1, <1>17 DEF Clear, AfterClear, ProcTypeOK, ThreadLabels, ClientLabels,
          Slots
  <2> QED
    BY <2>2, <2>3, <2>4
<1>18. ASSUME NEW c \in Clients, CallLocked(c) PROVE TypeOK'
  BY <1>18 DEF CallLocked, Begin, CacheTypeOK, HeapTypeOK, ProcTypeOK, CallTypeOK,
     ClientLabels, FlagOf, SettableFlags, AllOps, CaFlags
<1>19. ASSUME NEW c \in Clients, CallKeyed(c) PROVE TypeOK'
  BY <1>19 DEF CallKeyed, Begin, GiveUp, CacheTypeOK, HeapTypeOK, ProcTypeOK,
     CallTypeOK, ClientLabels, AllOps
<1>20. ASSUME NEW c \in Clients, CallSync(c) PROVE TypeOK'
  BY <1>20 DEF CallSync, Begin, GiveUp, Return, CacheTypeOK, HeapTypeOK, ProcTypeOK,
     CallTypeOK, ClientLabels, FlagOf, AllOps, CaFlags
<1>21. ASSUME NEW c \in Clients, CallDisable(c) PROVE TypeOK'
  BY <1>21 DEF CallDisable, Begin, GiveUp, CacheTypeOK, HeapTypeOK, ProcTypeOK,
     CallTypeOK, ClientLabels, FlagOf, AllOps, CaFlags
<1>22. ASSUME NEW c \in Clients, CallElement(c) PROVE TypeOK'
  BY <1>22 DEF CallElement, Begin, Return, CacheTypeOK, HeapTypeOK, ProcTypeOK,
     CallTypeOK, ClientLabels, AllOps
<1>23. ASSUME NEW c \in Clients, CallWaitEl(c) PROVE TypeOK'
  BY <1>23 DEF CallWaitEl, Begin, Return, CacheTypeOK, HeapTypeOK, ProcTypeOK,
     CallTypeOK, ClientLabels, AllOps, ElFlags
<1>24. ASSUME NEW c \in Clients, LockCa(c) PROVE TypeOK'
  BY <1>24 DEF LockCa, AfterLock, CacheTypeOK, HeapTypeOK, ProcTypeOK, CallTypeOK,
     ClientLabels
<1>25. ASSUME NEW c \in Clients, UnlockCa(c) PROVE TypeOK'
  BY <1>25 DEF UnlockCa, CacheTypeOK, HeapTypeOK, ProcTypeOK, CallTypeOK,
     ClientLabels
<1>26. ASSUME NEW c \in Clients, FindRoom(c) PROVE TypeOK'
  <2>1. CacheTypeOK' /\ HeapTypeOK'
       BY <1>26 DEF FindRoom, MapRefused, CacheTypeOK, HeapTypeOK
  <2>2. ProcTypeOK'
       BY <1>26 DEF FindRoom, MapRefused, ProcTypeOK, ClientLabels, Slots
  <2>3. CallTypeOK'
       BY <1>26 DEF FindRoom, MapRefused, CallTypeOK
  <2> QED
    BY <2>1, <2>2, <2>3
<1>27. ASSUME NEW c \in Clients, Alloc(c) PROVE TypeOK'
  <2>1. CacheTypeOK'
    <3>1. PICK a \in Addr : ca_ptr' = [ca_ptr EXCEPT ![idx[c]] = a]
      BY <1>27 DEF Alloc
    <3>2. ca_ptr' \in [Slots -> Addr \union {NULL}]
      BY <3>1 DEF CacheTypeOK
    <3> QED
      BY <1>27, <3>2 DEF Alloc, CacheTypeOK
  <2>2. HeapTypeOK'
       BY <1>27 DEF Alloc, HeapTypeOK, ElFlags
  <2>3. ProcTypeOK'
       BY <1>27 DEF Alloc, ProcTypeOK, ClientLabels
  <2>4. CallTypeOK'
       BY <1>27 DEF Alloc, CallTypeOK
  <2> QED
    BY <2>1, <2>2, <2>3, <2>4
<1>28. ASSUME NEW c \in Clients, AllocFails(c) PROVE TypeOK'
  BY <1>28 DEF AllocFails, MapRefused, CacheTypeOK, HeapTypeOK, ProcTypeOK,
     CallTypeOK, ClientLabels
<1>29. ASSUME NEW c \in Clients, Lookup(c) PROVE TypeOK'
  BY <1>29 DEF Lookup, CacheTypeOK, HeapTypeOK, ProcTypeOK, CallTypeOK, ClientLabels
<1>30. ASSUME NEW c \in Clients, FindKey(c) PROVE TypeOK'
  <2>1. CacheTypeOK' /\ HeapTypeOK' /\ CallTypeOK'
       BY <1>30 DEF FindKey, CacheTypeOK, HeapTypeOK, CallTypeOK
  <2>2. ProcTypeOK'
       BY <1>30 DEF FindKey, ProcTypeOK, ClientLabels, Slots
  <2> QED
    BY <2>1, <2>2
<1>31. ASSUME NEW c \in Clients, EvictLock(c) PROVE TypeOK'
  BY <1>31 DEF EvictLock, Work, AfterFlush, SetMutex, CacheTypeOK, HeapTypeOK,
     ProcTypeOK, CallTypeOK, ClientLabels
<1>32. ASSUME NEW c \in Clients, Mark(c) PROVE TypeOK'
  <2>1. CacheTypeOK' /\ HeapTypeOK'
       BY <1>32 DEF Mark, CacheTypeOK, HeapTypeOK
  <2>2. ProcTypeOK'
       BY <1>32 DEF Mark, ProcTypeOK, ClientLabels, Slots
  <2>3. CallTypeOK'
       BY <1>32 DEF Mark, CallTypeOK, Victim, CacheTypeOK
  <2> QED
    BY <2>1, <2>2, <2>3
<1>33. ASSUME NEW c \in Clients, ElLock(c) PROVE TypeOK'
  BY <1>33 DEF ElLock, SetMutex, CacheTypeOK, HeapTypeOK, ProcTypeOK, CallTypeOK,
     ClientLabels
<1>34. ASSUME NEW c \in Clients, ElUpdate(c) PROVE TypeOK'
  <2>1. CacheTypeOK'
       BY <1>34 DEF ElUpdate, Return, CacheTypeOK
  <2>2. HeapTypeOK'
       BY <1>34 DEF ElUpdate, Return, HeapTypeOK, ElementFlags, ElFlags, LocalInv,
          ElementInv
  <2>3. ProcTypeOK'
       BY <1>34 DEF ElUpdate, Return, ProcTypeOK, ClientLabels, LocalInv,
          ElementInv, Slots
  <2>4. CallTypeOK'
       BY <1>34 DEF ElUpdate, Return, CallTypeOK, GiveUp
  <2> QED
    BY <2>1, <2>2, <2>3, <2>4
<1>35. ASSUME NEW c \in Clients, ReadFlags(c) PROVE TypeOK'
  BY <1>35 DEF ReadFlags, CacheTypeOK, HeapTypeOK, ProcTypeOK, CallTypeOK,
     ClientLabels
<1>36. ASSUME NEW c \in Clients, WriteFlags(c) PROVE TypeOK'
  BY <1>36 DEF WriteFlags, Return, CacheTypeOK, HeapTypeOK, ProcTypeOK, CallTypeOK,
     ClientLabels, LocalInv, OpInv
<1>37. ASSUME NEW c \in Clients, Poll(c) PROVE TypeOK'
  BY <1>37 DEF Poll, CacheTypeOK, HeapTypeOK, ProcTypeOK, CallTypeOK, ClientLabels,
     LocalInv, OpInv, FlagOf, CaFlags
<1>38. ASSUME NEW c \in Clients, Join(c) PROVE TypeOK'
  BY <1>38 DEF Join, Return, CacheTypeOK, HeapTypeOK, ProcTypeOK, CallTypeOK,
     ClientLabels
<1>39. ASSUME UNCHANGED vars PROVE TypeOK'
  BY <1>39 DEF vars, CacheTypeOK, HeapTypeOK, ProcTypeOK, CallTypeOK
<1> QED
  BY <1>1, <1>2, <1>3, <1>4, <1>5, <1>6, <1>7, <1>8, <1>9, <1>10, <1>11, <1>12,
     <1>13, <1>14, <1>15, <1>16, <1>17, <1>18, <1>19, <1>20, <1>21, <1>22, <1>23,
     <1>24, <1>25, <1>26, <1>27, <1>28, <1>29, <1>30, <1>31, <1>32, <1>33, <1>34,
     <1>35, <1>36, <1>37, <1>38, <1>39
  DEF Next, ThreadNext, Dispose, Call, InCall, Procs

\* ca_mutex excludes: the steps of every other process keep out.
LEMMA MutexStep == TypeOK /\ LocalInv /\ MutexInv /\ [Next]_vars => MutexInv'
<1> SUFFICES ASSUME TypeOK, LocalInv, MutexInv, [Next]_vars PROVE MutexInv'
  OBVIOUS
<1> USE ConstantsAssumption DEF TypeOK, ProcTypeOK, CallTypeOK, MutexInv, HoldsCa, Procs,
        Step, StepIdx, Goto, cacheVars, keptVars
<1>1. ASSUME CacheEnable PROVE MutexInv'
  BY <1>1 DEF CacheEnable
<1>2. ASSUME ThreadStart PROVE MutexInv'
  BY <1>2 DEF ThreadStart
<1>3. ASSUME ThreadStartWrite PROVE MutexInv'
  BY <1>3 DEF ThreadStartWrite, SetCaFlags
<1>4. ASSUME ThreadTop PROVE MutexInv'
  BY <1>4 DEF ThreadTop
<1>5. ASSUME ThreadLock PROVE MutexInv'
  BY <1>5 DEF ThreadLock
<1>6. ASSUME ThreadSkip PROVE MutexInv'
  BY <1>6 DEF ThreadSkip, NextSlot
<1>7. ASSUME ThreadReadFlags PROVE MutexInv'
  BY <1>7 DEF ThreadReadFlags
<1>8. ASSUME ThreadTryFails PROVE MutexInv'
  BY <1>8 DEF ThreadTryFails, NextSlot
<1>9. ASSUME ThreadTryLock PROVE MutexInv'
  BY <1>9 DEF ThreadTryLock, Work, AfterFlush, SetMutex
<1>10. ASSUME ThreadRelease PROVE MutexInv'
  BY <1>10 DEF ThreadRelease, NextSlot, SetMutex
<1>11. ASSUME ThreadPassEnd PROVE MutexInv'
  BY <1>11 DEF ThreadPassEnd
<1>12. ASSUME ThreadCheck PROVE MutexInv'
  BY <1>12 DEF ThreadCheck
<1>13. ASSUME ThreadFinish PROVE MutexInv'
  BY <1>13 DEF ThreadFinish, SetCaFlags
<1>14. ASSUME NEW p \in Procs, Flush(p) PROVE MutexInv'
  BY <1>14 DEF Flush, AfterFlush
<1>15. ASSUME NEW p \in Procs, Retire(p) PROVE MutexInv'
  BY <1>15 DEF Retire
<1>16. ASSUME NEW p \in Procs, Free(p) PROVE MutexInv'
  BY <1>16 DEF Free
<1>17. ASSUME NEW p \in Procs, Clear(p) PROVE MutexInv'
  BY <1>17 DEF Clear, AfterClear
<1>18. ASSUME NEW c \in Clients, CallLocked(c) PROVE MutexInv'
  BY <1>18 DEF CallLocked, Begin, AllOps
<1>19. ASSUME NEW c \in Clients, CallKeyed(c) PROVE MutexInv'
  BY <1>19 DEF CallKeyed, Begin, GiveUp
<1>20. ASSUME NEW c \in Clients, CallSync(c) PROVE MutexInv'
  BY <1>20 DEF CallSync, Begin, GiveUp, Return
<1>21. ASSUME NEW c \in Clients, CallDisable(c) PROVE MutexInv'
  BY <1>21 DEF CallDisable, Begin, GiveUp
<1>22. ASSUME NEW c \in Clients, CallElement(c) PROVE MutexInv'
  BY <1>22 DEF CallElement, Begin, Return
<1>23. ASSUME NEW c \in Clients, CallWaitEl(c) PROVE MutexInv'
  BY <1>23 DEF CallWaitEl, Begin, Return
<1>24. ASSUME NEW c \in Clients, LockCa(c) PROVE MutexInv'
  BY <1>24 DEF LockCa, AfterLock
<1>25. ASSUME NEW c \in Clients, UnlockCa(c) PROVE MutexInv'
  BY <1>25 DEF UnlockCa
<1>26. ASSUME NEW c \in Clients, FindRoom(c) PROVE MutexInv'
  BY <1>26 DEF FindRoom, MapRefused
<1>27. ASSUME NEW c \in Clients, Alloc(c) PROVE MutexInv'
  BY <1>27 DEF Alloc
<1>28. ASSUME NEW c \in Clients, AllocFails(c) PROVE MutexInv'
  BY <1>28 DEF AllocFails, MapRefused
<1>29. ASSUME NEW c \in Clients, Lookup(c) PROVE MutexInv'
  BY <1>29 DEF Lookup
<1>30. ASSUME NEW c \in Clients, FindKey(c) PROVE MutexInv'
  BY <1>30 DEF FindKey
<1>31. ASSUME NEW c \in Clients, EvictLock(c) PROVE MutexInv'
  BY <1>31 DEF EvictLock, Work, AfterFlush, SetMutex
<1>32. ASSUME NEW c \in Clients, Mark(c) PROVE MutexInv'
  BY <1>32 DEF Mark, LocalInv, OpInv
<1>33. ASSUME NEW c \in Clients, ElLock(c) PROVE MutexInv'
  BY <1>33 DEF ElLock, SetMutex
<1>34. ASSUME NEW c \in Clients, ElUpdate(c) PROVE MutexInv'
  BY <1>34 DEF ElUpdate, Return, LocalInv
<1>35. ASSUME NEW c \in Clients, ReadFlags(c) PROVE MutexInv'
  BY <1>35 DEF ReadFlags
<1>36. ASSUME NEW c \in Clients, WriteFlags(c) PROVE MutexInv'
  BY <1>36 DEF WriteFlags, Return, LocalInv, OpInv
<1>37. ASSUME NEW c \in Clients, Poll(c) PROVE MutexInv'
  BY <1>37 DEF Poll, LocalInv, OpInv
<1>38. ASSUME NEW c \in Clients, Join(c) PROVE MutexInv'
  BY <1>38 DEF Join, Return
<1>39. ASSUME UNCHANGED vars PROVE MutexInv'
  BY <1>39 DEF vars
<1> QED
  BY <1>1, <1>2, <1>3, <1>4, <1>5, <1>6, <1>7, <1>8, <1>9, <1>10, <1>11, <1>12,
     <1>13, <1>14, <1>15, <1>16, <1>17, <1>18, <1>19, <1>20, <1>21, <1>22, <1>23,
     <1>24, <1>25, <1>26, <1>27, <1>28, <1>29, <1>30, <1>31, <1>32, <1>33, <1>34,
     <1>35, <1>36, <1>37, <1>38, <1>39
  DEF Next, ThreadNext, Dispose, Call, InCall, Procs

\* Every step keeps the indices, elements and flags meaningful where they are used.
LEMMA LocalStep == TypeOK /\ MutexInv /\ TableInv /\ LocalInv /\ [Next]_vars => LocalInv'
<1> SUFFICES ASSUME TypeOK, TableInv, LocalInv, [Next]_vars PROVE LocalInv'
  OBVIOUS
<1> USE ConstantsAssumption DEF TypeOK, ProcTypeOK, CallTypeOK, LocalInv, IndexInv,
        ElementInv, OpInv,
        Procs, Step, StepIdx, Goto, keptVars
<1>1. ASSUME CacheEnable PROVE LocalInv'
  BY <1>1 DEF CacheEnable
<1>2. ASSUME ThreadStart PROVE LocalInv'
  BY <1>2 DEF ThreadStart
<1>3. ASSUME ThreadStartWrite PROVE LocalInv'
  BY <1>3 DEF ThreadStartWrite, SetCaFlags
<1>4. ASSUME ThreadTop PROVE LocalInv'
  BY <1>4 DEF ThreadTop
<1>5. ASSUME ThreadLock PROVE LocalInv'
  BY <1>5 DEF ThreadLock
<1>6. ASSUME ThreadSkip PROVE LocalInv'
  BY <1>6 DEF ThreadSkip, NextSlot
<1>7. ASSUME ThreadReadFlags PROVE LocalInv'
  BY <1>7 DEF ThreadReadFlags
<1>8. ASSUME ThreadTryFails PROVE LocalInv'
  BY <1>8 DEF ThreadTryFails, NextSlot
<1>9. ASSUME ThreadTryLock PROVE LocalInv'
  BY <1>9 DEF ThreadTryLock, Work, AfterFlush, SetMutex
<1>10. ASSUME ThreadRelease PROVE LocalInv'
  BY <1>10 DEF ThreadRelease, NextSlot, SetMutex
<1>11. ASSUME ThreadPassEnd PROVE LocalInv'
  BY <1>11 DEF ThreadPassEnd
<1>12. ASSUME ThreadCheck PROVE LocalInv'
  BY <1>12 DEF ThreadCheck
<1>13. ASSUME ThreadFinish PROVE LocalInv'
  BY <1>13 DEF ThreadFinish, SetCaFlags
<1>14. ASSUME NEW p \in Procs, Flush(p) PROVE LocalInv'
  BY <1>14 DEF Flush, AfterFlush
<1>15. ASSUME NEW p \in Procs, Retire(p) PROVE LocalInv'
  BY <1>15 DEF Retire
<1>16. ASSUME NEW p \in Procs, Free(p) PROVE LocalInv'
  BY <1>16 DEF Free
<1>17. ASSUME NEW p \in Procs, Clear(p) PROVE LocalInv'
  BY <1>17 DEF Clear, AfterClear
<1>18. ASSUME NEW c \in Clients, CallLocked(c) PROVE LocalInv'
  BY <1>18 DEF CallLocked, Begin, FlagOps, FlagOf, SettableFlags, CaFlags, AllOps
<1>19. ASSUME NEW c \in Clients, CallKeyed(c) PROVE LocalInv'
  BY <1>19 DEF CallKeyed, Begin, GiveUp, FlagOps
<1>20. ASSUME NEW c \in Clients, CallSync(c) PROVE LocalInv'
  BY <1>20 DEF CallSync, Begin, GiveUp, Return, FlagOps, FlagOf, CaFlags
<1>21. ASSUME NEW c \in Clients, CallDisable(c) PROVE LocalInv'
  BY <1>21 DEF CallDisable, Begin, GiveUp, FlagOps, FlagOf, CaFlags
<1>22. ASSUME NEW c \in Clients, CallElement(c) PROVE LocalInv'
  BY <1>22 DEF CallElement, Begin, Return, FlagOps
<1>23. ASSUME NEW c \in Clients, CallWaitEl(c) PROVE LocalInv'
  BY <1>23 DEF CallWaitEl, Begin, Return, FlagOps
<1>24. ASSUME NEW c \in Clients, LockCa(c) PROVE LocalInv'
  BY <1>24 DEF LockCa, AfterLock, FlagOps
<1>25. ASSUME NEW c \in Clients, UnlockCa(c) PROVE LocalInv'
  BY <1>25 DEF UnlockCa
<1>26. ASSUME NEW c \in Clients, FindRoom(c) PROVE LocalInv'
  BY <1>26 DEF FindRoom, MapRefused
<1>27. ASSUME NEW c \in Clients, Alloc(c) PROVE LocalInv'
  BY <1>27 DEF Alloc
<1>28. ASSUME NEW c \in Clients, AllocFails(c) PROVE LocalInv'
  BY <1>28 DEF AllocFails, MapRefused
<1>29. ASSUME NEW c \in Clients, Lookup(c) PROVE LocalInv'
  BY <1>29 DEF Lookup
<1>30. ASSUME NEW c \in Clients, FindKey(c) PROVE LocalInv'
  BY <1>30 DEF FindKey
<1>31. ASSUME NEW c \in Clients, EvictLock(c) PROVE LocalInv'
  BY <1>31 DEF EvictLock, Work, AfterFlush, SetMutex
<1>32. ASSUME NEW c \in Clients, Mark(c) PROVE LocalInv'
  BY <1>32 DEF Mark, Markable, Victim, CacheTypeOK, FlagOps
<1>33. ASSUME NEW c \in Clients, ElLock(c) PROVE LocalInv'
  BY <1>33 DEF ElLock, SetMutex
<1>34. ASSUME NEW c \in Clients, ElUpdate(c) PROVE LocalInv'
  BY <1>34 DEF ElUpdate, Return
<1>35. ASSUME NEW c \in Clients, ReadFlags(c) PROVE LocalInv'
  BY <1>35 DEF ReadFlags
<1>36. ASSUME NEW c \in Clients, WriteFlags(c) PROVE LocalInv'
  BY <1>36 DEF WriteFlags, Return, FlagOps
<1>37. ASSUME NEW c \in Clients, Poll(c) PROVE LocalInv'
  BY <1>37 DEF Poll, FlagOps, FlagOf, CaFlags
<1>38. ASSUME NEW c \in Clients, Join(c) PROVE LocalInv'
  BY <1>38 DEF Join, Return
<1>39. ASSUME UNCHANGED vars PROVE LocalInv'
  BY <1>39 DEF vars
<1> QED
  BY <1>1, <1>2, <1>3, <1>4, <1>5, <1>6, <1>7, <1>8, <1>9, <1>10, <1>11, <1>12,
     <1>13, <1>14, <1>15, <1>16, <1>17, <1>18, <1>19, <1>20, <1>21, <1>22, <1>23,
     <1>24, <1>25, <1>26, <1>27, <1>28, <1>29, <1>30, <1>31, <1>32, <1>33, <1>34,
     <1>35, <1>36, <1>37, <1>38, <1>39
  DEF Next, ThreadNext, Dispose, Call, InCall, Procs

\* Every step keeps table and heap in agreement.  Only Retire, Free, Clear and
\* Alloc touch them, each by the owner of ca_mutex on the slot it works on.
LEMMA TableStep ==
  TypeOK /\ MutexInv /\ LocalInv /\ TableInv /\ [Next]_vars => TableInv'
<1> SUFFICES ASSUME TypeOK, MutexInv, LocalInv, TableInv, [Next]_vars PROVE TableInv'
  OBVIOUS
<1> USE ConstantsAssumption DEF TypeOK, ProcTypeOK, CacheTypeOK, HeapTypeOK, MutexInv,
        HoldsCa, LocalInv, TableInv,
        Procs, Step, StepIdx, Goto, cacheVars, heapVars, keptVars
<1>1. ASSUME CacheEnable PROVE TableInv'
  BY <1>1 DEF CacheEnable, SlotsLive, SlotsActive, SlotsDistinct, HeapInTable,
     VictimPresent, RoomEmpty, Freed, Retired, UsedSlots, IndexInv, Victim
<1>2. ASSUME ThreadStart PROVE TableInv'
  BY <1>2 DEF ThreadStart, SlotsLive, SlotsActive, SlotsDistinct, HeapInTable,
     VictimPresent, RoomEmpty, Freed, Retired, UsedSlots, IndexInv, Victim
<1>3. ASSUME ThreadStartWrite PROVE TableInv'
  BY <1>3 DEF ThreadStartWrite, SetCaFlags, SlotsLive, SlotsActive, SlotsDistinct,
     HeapInTable, VictimPresent, RoomEmpty, Freed, Retired, UsedSlots, IndexInv,
     Victim
<1>4. ASSUME ThreadTop PROVE TableInv'
  BY <1>4 DEF ThreadTop, SlotsLive, SlotsActive, SlotsDistinct, HeapInTable,
     VictimPresent, RoomEmpty, Freed, Retired, UsedSlots, IndexInv, Victim
<1>5. ASSUME ThreadLock PROVE TableInv'
  BY <1>5 DEF ThreadLock, SlotsLive, SlotsActive, SlotsDistinct, HeapInTable,
     VictimPresent, RoomEmpty, Freed, Retired, UsedSlots, IndexInv, Victim
<1>6. ASSUME ThreadSkip PROVE TableInv'
  BY <1>6 DEF ThreadSkip, NextSlot, SlotsLive, SlotsActive, SlotsDistinct,
     HeapInTable, VictimPresent, RoomEmpty, Freed, Retired, UsedSlots, IndexInv,
     Victim
<1>7. ASSUME ThreadReadFlags PROVE TableInv'
  <2>1. SlotsLive'
       BY <1>7 DEF ThreadReadFlags, SlotsLive, Freed, UsedSlots
  <2>2. SlotsActive'
       BY <1>7 DEF ThreadReadFlags, SlotsActive, SlotsLive, Freed, Retired,
          UsedSlots
  <2>3. SlotsDistinct'
       BY <1>7 DEF ThreadReadFlags, SlotsDistinct, SlotsLive, Freed, UsedSlots
  <2>4. HeapInTable'
       BY <1>7 DEF ThreadReadFlags, HeapInTable, SlotsLive, Freed, UsedSlots
  <2>5. VictimPresent'
       BY <1>7 DEF ThreadReadFlags, VictimPresent, IndexInv, Victim, AtElement
  <2>6. RoomEmpty'
       BY <1>7 DEF ThreadReadFlags, RoomEmpty, IndexInv, Victim
  <2> QED
    BY <2>1, <2>2, <2>3, <2>4, <2>5, <2>6
<1>8. ASSUME ThreadTryFails PROVE TableInv'
  BY <1>8 DEF ThreadTryFails, NextSlot, SlotsLive, SlotsActive, SlotsDistinct,
     HeapInTable, VictimPresent, RoomEmpty, Freed, Retired, UsedSlots, IndexInv,
     Victim
<1>9. ASSUME ThreadTryLock PROVE TableInv'
  BY <1>9 DEF ThreadTryLock, Work, AfterFlush, SetMutex, SlotsLive, SlotsActive,
     SlotsDistinct, HeapInTable, VictimPresent, RoomEmpty, Freed, Retired,
     UsedSlots, IndexInv, Victim
<1>10. ASSUME ThreadRelease PROVE TableInv'
  BY <1>10 DEF ThreadRelease, NextSlot, SetMutex, SlotsLive, SlotsActive,
     SlotsDistinct, HeapInTable, VictimPresent, RoomEmpty, Freed, Retired,
     UsedSlots, IndexInv, Victim
<1>11. ASSUME ThreadPassEnd PROVE TableInv'
  BY <1>11 DEF ThreadPassEnd, SlotsLive, SlotsActive, SlotsDistinct, HeapInTable,
     VictimPresent, RoomEmpty, Freed, Retired, UsedSlots, IndexInv, Victim
<1>12. ASSUME ThreadCheck PROVE TableInv'
  BY <1>12 DEF ThreadCheck, SlotsLive, SlotsActive, SlotsDistinct, HeapInTable,
     VictimPresent, RoomEmpty, Freed, Retired, UsedSlots, IndexInv, Victim
<1>13. ASSUME ThreadFinish PROVE TableInv'
  BY <1>13 DEF ThreadFinish, SetCaFlags, SlotsLive, SlotsActive, SlotsDistinct,
     HeapInTable, VictimPresent, RoomEmpty, Freed, Retired, UsedSlots, IndexInv,
     Victim
<1>14. ASSUME NEW p \in Procs, Flush(p) PROVE TableInv'
  <2>1. SlotsLive'
       BY <1>14 DEF Flush, AfterFlush, SlotsLive, Freed, UsedSlots, Victim, IndexInv
  <2>2. SlotsActive'
       BY <1>14 DEF Flush, AfterFlush, SlotsActive, SlotsLive, Freed, Retired,
          UsedSlots, Victim, IndexInv
  <2>3. SlotsDistinct'
       BY <1>14 DEF Flush, AfterFlush, SlotsDistinct, SlotsLive, Freed, UsedSlots,
          Victim, IndexInv
  <2>4. HeapInTable'
       BY <1>14 DEF Flush, AfterFlush, HeapInTable, SlotsLive, Freed, UsedSlots,
          Victim, IndexInv
  <2>5. VictimPresent'
       BY <1>14 DEF Flush, AfterFlush, VictimPresent, IndexInv, Victim
  <2>6. RoomEmpty'
       BY <1>14 DEF Flush, AfterFlush, RoomEmpty, IndexInv, Victim
  <2> QED
    BY <2>1, <2>2, <2>3, <2>4, <2>5, <2>6
<1>15. ASSUME NEW p \in Procs, Retire(p) PROVE TableInv'
  <2>1. SlotsLive'
       BY <1>15 DEF Retire, SlotsLive, Freed, UsedSlots, Victim, IndexInv
  <2>2. SlotsActive'
       BY <1>15 DEF Retire, SlotsActive, SlotsLive, Freed, Retired, UsedSlots,
          Victim, SlotsDistinct, VictimPresent, IndexInv
  <2>3. SlotsDistinct'
       BY <1>15 DEF Retire, SlotsDistinct, SlotsLive, Freed, UsedSlots, Victim,
          IndexInv
  <2>4. HeapInTable'
       BY <1>15 DEF Retire, HeapInTable, SlotsLive, Freed, UsedSlots, Victim,
          IndexInv
  <2>5. VictimPresent'
       BY <1>15 DEF Retire, VictimPresent, IndexInv, Victim
  <2>6. RoomEmpty'
       BY <1>15 DEF Retire, RoomEmpty, IndexInv, Victim
  <2> QED
    BY <2>1, <2>2, <2>3, <2>4, <2>5, <2>6
<1>16. ASSUME NEW p \in Procs, Free(p) PROVE TableInv'
  <2>1. SlotsLive'
       BY <1>16 DEF Free, SlotsLive, Freed, UsedSlots, Victim, SlotsDistinct,
          VictimPresent, IndexInv
  <2>2. SlotsActive'
       BY <1>16 DEF Free, SlotsActive, SlotsLive, Freed, Retired, UsedSlots, Victim,
          IndexInv
  <2>3. SlotsDistinct'
       BY <1>16 DEF Free, SlotsDistinct, SlotsLive, Freed, UsedSlots, Victim,
          IndexInv
  <2>4. HeapInTable'
       BY <1>16 DEF Free, HeapInTable, SlotsLive, Freed, UsedSlots, Victim, IndexInv
  <2>5. VictimPresent'
       BY <1>16 DEF Free, VictimPresent, IndexInv, Victim
  <2>6. RoomEmpty'
       BY <1>16 DEF Free, RoomEmpty, IndexInv, Victim
  <2> QED
    BY <2>1, <2>2, <2>3, <2>4, <2>5, <2>6
<1>17. ASSUME NEW p \in Procs, Clear(p) PROVE TableInv'
  <2>1. SlotsLive'
       BY <1>17 DEF Clear, AfterClear, SlotsLive, Freed, UsedSlots, Victim, IndexInv
  <2>2. SlotsActive'
       BY <1>17 DEF Clear, AfterClear, SlotsActive, SlotsLive, Freed, Retired,
          UsedSlots, Victim, IndexInv
  <2>3. SlotsDistinct'
       BY <1>17 DEF Clear, AfterClear, SlotsDistinct, SlotsLive, Freed, UsedSlots,
          Victim, IndexInv
  <2>4. HeapInTable'
       BY <1>17 DEF Clear, AfterClear, HeapInTable, SlotsLive, Freed, UsedSlots,
          Victim, IndexInv
  <2>5. VictimPresent'
       BY <1>17 DEF Clear, AfterClear, VictimPresent, IndexInv, Victim,
          ThreadLabels, ClientLabels
  <2>6. RoomEmpty'
       BY <1>17 DEF Clear, AfterClear, RoomEmpty, IndexInv, Victim
  <2> QED
    BY <2>1, <2>2, <2>3, <2>4, <2>5, <2>6
<1>18. ASSUME NEW c \in Clients, CallLocked(c) PROVE TableInv'
  BY <1>18 DEF CallLocked, Begin, SlotsLive, SlotsActive, SlotsDistinct,
     HeapInTable, VictimPresent, RoomEmpty, Freed, Retired, UsedSlots, IndexInv,
     Victim
<1>19. ASSUME NEW c \in Clients, CallKeyed(c) PROVE TableInv'
  BY <1>19 DEF CallKeyed, Begin, GiveUp, SlotsLive, SlotsActive, SlotsDistinct,
     HeapInTable, VictimPresent, RoomEmpty, Freed, Retired, UsedSlots, IndexInv,
     Victim
<1>20. ASSUME NEW c \in Clients, CallSync(c) PROVE TableInv'
  BY <1>20 DEF CallSync, Begin, GiveUp, Return, SlotsLive, SlotsActive,
     SlotsDistinct, HeapInTable, VictimPresent, RoomEmpty, Freed, Retired,
     UsedSlots, IndexInv, Victim
<1>21. ASSUME NEW c \in Clients, CallDisable(c) PROVE TableInv'
  BY <1>21 DEF CallDisable, Begin, GiveUp, SlotsLive, SlotsActive, SlotsDistinct,
     HeapInTable, VictimPresent, RoomEmpty, Freed, Retired, UsedSlots, IndexInv,
     Victim
<1>22. ASSUME NEW c \in Clients, CallElement(c) PROVE TableInv'
  BY <1>22 DEF CallElement, Begin, Return, SlotsLive, SlotsActive, SlotsDistinct,
     HeapInTable, VictimPresent, RoomEmpty, Freed, Retired, UsedSlots, IndexInv,
     Victim
<1>23. ASSUME NEW c \in Clients, CallWaitEl(c) PROVE TableInv'
  BY <1>23 DEF CallWaitEl, Begin, Return, SlotsLive, SlotsActive, SlotsDistinct,
     HeapInTable, VictimPresent, RoomEmpty, Freed, Retired, UsedSlots, IndexInv,
     Victim
<1>24. ASSUME NEW c \in Clients, LockCa(c) PROVE TableInv'
  BY <1>24 DEF LockCa, AfterLock, SlotsLive, SlotsActive, SlotsDistinct,
     HeapInTable, VictimPresent, RoomEmpty, Freed, Retired, UsedSlots, IndexInv,
     Victim
<1>25. ASSUME NEW c \in Clients, UnlockCa(c) PROVE TableInv'
  BY <1>25 DEF UnlockCa, SlotsLive, SlotsActive, SlotsDistinct, HeapInTable,
     VictimPresent, RoomEmpty, Freed, Retired, UsedSlots, IndexInv, Victim
<1>26. ASSUME NEW c \in Clients, FindRoom(c) PROVE TableInv'
  <2>1. SlotsLive'
       BY <1>26 DEF FindRoom, MapRefused, SlotsLive, Freed, UsedSlots
  <2>2. SlotsActive'
       BY <1>26 DEF FindRoom, MapRefused, SlotsActive, SlotsLive, Freed, Retired,
          UsedSlots
  <2>3. SlotsDistinct'
       BY <1>26 DEF FindRoom, MapRefused, SlotsDistinct, SlotsLive, Freed, UsedSlots
  <2>4. HeapInTable'
       BY <1>26 DEF FindRoom, MapRefused, HeapInTable, SlotsLive, Freed, UsedSlots
  <2>5. VictimPresent'
       BY <1>26 DEF FindRoom, MapRefused, VictimPresent, IndexInv, Victim, IsFirst,
          FreeSlots, LeastUsed, Evictable
  <2>6. RoomEmpty'
       BY <1>26 DEF FindRoom, MapRefused, RoomEmpty, IndexInv, Victim, IsFirst,
          FreeSlots
  <2> QED
    BY <2>1, <2>2, <2>3, <2>4, <2>5, <2>6
<1>27. ASSUME NEW c \in Clients, Alloc(c) PROVE TableInv'
  <2>1. SlotsLive'
       BY <1>27 DEF Alloc, SlotsLive, Freed, UsedSlots, IndexInv
  <2>2. SlotsActive'
       BY <1>27 DEF Alloc, SlotsActive, SlotsLive, Freed, Retired, UsedSlots,
          IndexInv
  <2>3. SlotsDistinct'
       BY <1>27 DEF Alloc, SlotsDistinct, SlotsLive, Freed, UsedSlots, IndexInv
  <2>4. HeapInTable'
       BY <1>27 DEF Alloc, HeapInTable, SlotsLive, Freed, UsedSlots, RoomEmpty,
          Victim, IndexInv
  <2>5. VictimPresent'
       BY <1>27 DEF Alloc, VictimPresent, IndexInv, Victim
  <2>6. RoomEmpty'
       BY <1>27 DEF Alloc, RoomEmpty, IndexInv, Victim, ThreadLabels, ClientLabels
  <2> QED
    BY <2>1, <2>2, <2>3, <2>4, <2>5, <2>6
<1>28. ASSUME NEW c \in Clients, AllocFails(c) PROVE TableInv'
  BY <1>28 DEF AllocFails, MapRefused, SlotsLive, SlotsActive, SlotsDistinct,
     HeapInTable, VictimPresent, RoomEmpty, Freed, Retired, UsedSlots, IndexInv,
     Victim
<1>29. ASSUME NEW c \in Clients, Lookup(c) PROVE TableInv'
  BY <1>29 DEF Lookup, SlotsLive, SlotsActive, SlotsDistinct, HeapInTable,
     VictimPresent, RoomEmpty, Freed, Retired, UsedSlots, IndexInv, Victim
<1>30. ASSUME NEW c \in Clients, FindKey(c) PROVE TableInv'
  <2>1. SlotsLive'
       BY <1>30 DEF FindKey, SlotsLive, Freed, UsedSlots
  <2>2. SlotsActive'
       BY <1>30 DEF FindKey, SlotsActive, SlotsLive, Freed, Retired, UsedSlots
  <2>3. SlotsDistinct'
       BY <1>30 DEF FindKey, SlotsDistinct, SlotsLive, Freed, UsedSlots
  <2>4. HeapInTable'
       BY <1>30 DEF FindKey, HeapInTable, SlotsLive, Freed, UsedSlots
  <2>5. VictimPresent'
       BY <1>30 DEF FindKey, VictimPresent, IndexInv, Victim, ElementInv
  <2>6. RoomEmpty'
       BY <1>30 DEF FindKey, RoomEmpty, IndexInv, Victim
  <2> QED
    BY <2>1, <2>2, <2>3, <2>4, <2>5, <2>6
<1>31. ASSUME NEW c \in Clients, EvictLock(c) PROVE TableInv'
  BY <1>31 DEF EvictLock, Work, AfterFlush, SetMutex, SlotsLive, SlotsActive,
     SlotsDistinct, HeapInTable, VictimPresent, RoomEmpty, Freed, Retired,
     UsedSlots, IndexInv, Victim
<1>32. ASSUME NEW c \in Clients, Mark(c) PROVE TableInv'
  <2>1. SlotsLive'
       BY <1>32 DEF Mark, SlotsLive, Freed, UsedSlots
  <2>2. SlotsActive'
       BY <1>32 DEF Mark, SlotsActive, SlotsLive, Freed, Retired, UsedSlots
  <2>3. SlotsDistinct'
       BY <1>32 DEF Mark, SlotsDistinct, SlotsLive, Freed, UsedSlots
  <2>4. HeapInTable'
       BY <1>32 DEF Mark, HeapInTable, SlotsLive, Freed, UsedSlots
  <2>5. VictimPresent'
       BY <1>32 DEF Mark, VictimPresent, IndexInv, Victim
  <2>6. RoomEmpty'
       BY <1>32 DEF Mark, RoomEmpty, IndexInv, Victim
  <2> QED
    BY <2>1, <2>2, <2>3, <2>4, <2>5, <2>6
<1>33. ASSUME NEW c \in Clients, ElLock(c) PROVE TableInv'
  BY <1>33 DEF ElLock, SetMutex, SlotsLive, SlotsActive, SlotsDistinct, HeapInTable,
     VictimPresent, RoomEmpty, Freed, Retired, UsedSlots, IndexInv, Victim
<1>34. ASSUME NEW c \in Clients, ElUpdate(c) PROVE TableInv'
  <2>1. SlotsLive'
       BY <1>34 DEF ElUpdate, Return, SlotsLive, Freed, UsedSlots
  <2>2. SlotsActive'
       BY <1>34 DEF ElUpdate, Return, SlotsActive, SlotsLive, Freed, Retired,
          UsedSlots, ElementFlags, ElementInv
  <2>3. SlotsDistinct'
       BY <1>34 DEF ElUpdate, Return, SlotsDistinct, SlotsLive, Freed, UsedSlots
  <2>4. HeapInTable'
       BY <1>34 DEF ElUpdate, Return, HeapInTable, SlotsLive, Freed, UsedSlots
  <2>5. VictimPresent'
       BY <1>34 DEF ElUpdate, Return, VictimPresent, IndexInv, Victim
  <2>6. RoomEmpty'
       BY <1>34 DEF ElUpdate, Return, RoomEmpty, IndexInv, Victim
  <2> QED
    BY <2>1, <2>2, <2>3, <2>4, <2>5, <2>6
<1>35. ASSUME NEW c \in Clients, ReadFlags(c) PROVE TableInv'
  BY <1>35 DEF ReadFlags, SlotsLive, SlotsActive, SlotsDistinct, HeapInTable,
     VictimPresent, RoomEmpty, Freed, Retired, UsedSlots, IndexInv, Victim
<1>36. ASSUME NEW c \in Clients, WriteFlags(c) PROVE TableInv'
  BY <1>36 DEF WriteFlags, Return, SlotsLive, SlotsActive, SlotsDistinct,
     HeapInTable, VictimPresent, RoomEmpty, Freed, Retired, UsedSlots, IndexInv,
     Victim
<1>37. ASSUME NEW c \in Clients, Poll(c) PROVE TableInv'
  BY <1>37 DEF Poll, SlotsLive, SlotsActive, SlotsDistinct, HeapInTable,
     VictimPresent, RoomEmpty, Freed, Retired, UsedSlots, IndexInv, Victim
<1>38. ASSUME NEW c \in Clients, Join(c) PROVE TableInv'
  BY <1>38 DEF Join, Return, SlotsLive, SlotsActive, SlotsDistinct, HeapInTable,
     VictimPresent, RoomEmpty, Freed, Retired, UsedSlots, IndexInv, Victim
<1>39. ASSUME UNCHANGED vars PROVE TableInv'
  BY <1>39 DEF vars, SlotsLive, SlotsActive, SlotsDistinct, HeapInTable,
     VictimPresent, RoomEmpty, Freed, Retired, UsedSlots, Victim
<1> QED
  BY <1>1, <1>2, <1>3, <1>4, <1>5, <1>6, <1>7, <1>8, <1>9, <1>10, <1>11, <1>12,
     <1>13, <1>14, <1>15, <1>16, <1>17, <1>18, <1>19, <1>20, <1>21, <1>22, <1>23,
     <1>24, <1>25, <1>26, <1>27, <1>28, <1>29, <1>30, <1>31, <1>32, <1>33, <1>34,
     <1>35, <1>36, <1>37, <1>38, <1>39
  DEF Next, ThreadNext, Dispose, Call, InCall, Procs

\* The table is finite.
LEMMA LiveSlotsFinite == IsFiniteSet(LiveSlots)
<1>1. IsFiniteSet(Slots)
  BY ConstantsAssumption, FS_Interval DEF Slots
<1> QED
  BY <1>1, FS_Subset DEF LiveSlots, UsedSlots

\* A finite set without one of its elements has one element less.
LEMMA OneLess ==
  ASSUME NEW S, IsFiniteSet(S), NEW x \in S
  PROVE  Cardinality(S \ {x}) = Cardinality(S) - 1
  BY FS_RemoveElement

\* ca_elements_in_use follows the table: it drops where an element is retired,
\* two steps before its slot is emptied, and grows where one is allocated.
LEMMA CountStep ==
  TypeOK /\ MutexInv /\ LocalInv /\ TableInv /\ CountInv /\ [Next]_vars => CountInv'
<1> SUFFICES ASSUME TypeOK, MutexInv, LocalInv, TableInv, CountInv, [Next]_vars
             PROVE  CountInv'
  OBVIOUS
<1>k. UNCHANGED <<LiveSlots, ca_in_use>> => CountInv'
  BY DEF CountInv
<1> USE ConstantsAssumption DEF TypeOK, ProcTypeOK, CacheTypeOK, MutexInv, HoldsCa,
        LocalInv, IndexInv, LiveSlots, UsedSlots, Retired, Procs,
        Step, StepIdx, Goto, cacheVars, keptVars
<1>1. ASSUME CacheEnable PROVE CountInv'
  BY <1>1, <1>k DEF CacheEnable
<1>2. ASSUME ThreadStart PROVE CountInv'
  BY <1>2, <1>k DEF ThreadStart
<1>3. ASSUME ThreadStartWrite PROVE CountInv'
  BY <1>3, <1>k DEF ThreadStartWrite, SetCaFlags
<1>4. ASSUME ThreadTop PROVE CountInv'
  BY <1>4, <1>k DEF ThreadTop
<1>5. ASSUME ThreadLock PROVE CountInv'
  BY <1>5, <1>k DEF ThreadLock
<1>6. ASSUME ThreadSkip PROVE CountInv'
  BY <1>6, <1>k DEF ThreadSkip, NextSlot
<1>7. ASSUME ThreadReadFlags PROVE CountInv'
  BY <1>7, <1>k DEF ThreadReadFlags
<1>8. ASSUME ThreadTryFails PROVE CountInv'
  BY <1>8, <1>k DEF ThreadTryFails, NextSlot
<1>9. ASSUME ThreadTryLock PROVE CountInv'
  BY <1>9, <1>k DEF ThreadTryLock, Work, AfterFlush, SetMutex
<1>10. ASSUME ThreadRelease PROVE CountInv'
  BY <1>10, <1>k DEF ThreadRelease, NextSlot, SetMutex
<1>11. ASSUME ThreadPassEnd PROVE CountInv'
  BY <1>11, <1>k DEF ThreadPassEnd
<1>12. ASSUME ThreadCheck PROVE CountInv'
  BY <1>12, <1>k DEF ThreadCheck
<1>13. ASSUME ThreadFinish PROVE CountInv'
  BY <1>13, <1>k DEF ThreadFinish, SetCaFlags
<1>14. ASSUME NEW p \in Procs, Flush(p) PROVE CountInv'
  BY <1>14, <1>k DEF Flush, AfterFlush
<1>15. ASSUME NEW p \in Procs, Retire(p) PROVE CountInv'
  <2>1. idx[p] \in LiveSlots
       BY <1>15 DEF Retire, TableInv, VictimPresent, Victim
  <2>2. LiveSlots' = LiveSlots \ {idx[p]}
       BY <1>15 DEF Retire
  <2>3. Cardinality(LiveSlots') = Cardinality(LiveSlots) - 1
       <3> HIDE DEF LiveSlots
       <3> QED BY <2>1, <2>2, LiveSlotsFinite, OneLess
  <2> QED
       BY <1>15, <2>3 DEF Retire, CountInv
<1>16. ASSUME NEW p \in Procs, Free(p) PROVE CountInv'
  BY <1>16, <1>k DEF Free
<1>17. ASSUME NEW p \in Procs, Clear(p) PROVE CountInv'
  BY <1>17, <1>k DEF Clear, AfterClear
<1>18. ASSUME NEW c \in Clients, CallLocked(c) PROVE CountInv'
  BY <1>18, <1>k DEF CallLocked, Begin
<1>19. ASSUME NEW c \in Clients, CallKeyed(c) PROVE CountInv'
  BY <1>19, <1>k DEF CallKeyed, Begin, GiveUp
<1>20. ASSUME NEW c \in Clients, CallSync(c) PROVE CountInv'
  BY <1>20, <1>k DEF CallSync, Begin, GiveUp, Return
<1>21. ASSUME NEW c \in Clients, CallDisable(c) PROVE CountInv'
  BY <1>21, <1>k DEF CallDisable, Begin, GiveUp
<1>22. ASSUME NEW c \in Clients, CallElement(c) PROVE CountInv'
  BY <1>22, <1>k DEF CallElement, Begin, Return
<1>23. ASSUME NEW c \in Clients, CallWaitEl(c) PROVE CountInv'
  BY <1>23, <1>k DEF CallWaitEl, Begin, Return
<1>24. ASSUME NEW c \in Clients, LockCa(c) PROVE CountInv'
  BY <1>24, <1>k DEF LockCa, AfterLock
<1>25. ASSUME NEW c \in Clients, UnlockCa(c) PROVE CountInv'
  BY <1>25, <1>k DEF UnlockCa
<1>26. ASSUME NEW c \in Clients, FindRoom(c) PROVE CountInv'
  BY <1>26, <1>k DEF FindRoom, MapRefused
<1>27. ASSUME NEW c \in Clients, Alloc(c) PROVE CountInv'
  <2>1. idx[c] \notin LiveSlots
       BY <1>27 DEF Alloc, TableInv, RoomEmpty, Victim
  <2>2. LiveSlots' = LiveSlots \union {idx[c]}
       BY <1>27 DEF Alloc
  <2>3. Cardinality(LiveSlots') = Cardinality(LiveSlots) + 1
       <3> HIDE DEF LiveSlots
       <3> QED BY <2>1, <2>2, LiveSlotsFinite, FS_AddElement
  <2> QED
       BY <1>27, <2>3 DEF Alloc, CountInv
<1>28. ASSUME NEW c \in Clients, AllocFails(c) PROVE CountInv'
  BY <1>28, <1>k DEF AllocFails, MapRefused
<1>29. ASSUME NEW c \in Clients, Lookup(c) PROVE CountInv'
  BY <1>29, <1>k DEF Lookup
<1>30. ASSUME NEW c \in Clients, FindKey(c) PROVE CountInv'
  BY <1>30, <1>k DEF FindKey
<1>31. ASSUME NEW c \in Clients, EvictLock(c) PROVE CountInv'
  BY <1>31, <1>k DEF EvictLock, Work, AfterFlush, SetMutex
<1>32. ASSUME NEW c \in Clients, Mark(c) PROVE CountInv'
  BY <1>32, <1>k DEF Mark
<1>33. ASSUME NEW c \in Clients, ElLock(c) PROVE CountInv'
  BY <1>33, <1>k DEF ElLock, SetMutex
<1>34. ASSUME NEW c \in Clients, ElUpdate(c) PROVE CountInv'
  BY <1>34, <1>k DEF ElUpdate, Return
<1>35. ASSUME NEW c \in Clients, ReadFlags(c) PROVE CountInv'
  BY <1>35, <1>k DEF ReadFlags
<1>36. ASSUME NEW c \in Clients, WriteFlags(c) PROVE CountInv'
  BY <1>36, <1>k DEF WriteFlags, Return
<1>37. ASSUME NEW c \in Clients, Poll(c) PROVE CountInv'
  BY <1>37, <1>k DEF Poll
<1>38. ASSUME NEW c \in Clients, Join(c) PROVE CountInv'
  BY <1>38, <1>k DEF Join, Return
<1>39. ASSUME UNCHANGED vars PROVE CountInv'
  BY <1>39, <1>k DEF vars
<1> QED
  BY <1>1, <1>2, <1>3, <1>4, <1>5, <1>6, <1>7, <1>8, <1>9, <1>10, <1>11, <1>12,
     <1>13, <1>14, <1>15, <1>16, <1>17, <1>18, <1>19, <1>20, <1>21, <1>22, <1>23,
     <1>24, <1>25, <1>26, <1>27, <1>28, <1>29, <1>30, <1>31, <1>32, <1>33, <1>34,
     <1>35, <1>36, <1>37, <1>38, <1>39
  DEF Next, ThreadNext, Dispose, Call, InCall, Procs

\* CLEAN goes up only where DIRTY goes down, on an element of the table that is
\* still active; and it goes down where DIRTY goes up.
LEMMA CleanStep == IInv /\ CleanMeansClean /\ [Next]_vars => CleanMeansClean'
<1> SUFFICES ASSUME IInv, CleanMeansClean, [Next]_vars PROVE CleanMeansClean'
  OBVIOUS
<1>k. UNCHANGED ce_flags => CleanMeansClean'
  BY DEF CleanMeansClean
<1> USE ConstantsAssumption DEF IInv, TypeOK, CacheTypeOK, HeapTypeOK, cacheVars,
        heapVars, keptVars
<1>1. ASSUME CacheEnable PROVE CleanMeansClean'
  BY <1>1, <1>k DEF CacheEnable
<1>2. ASSUME ThreadStart PROVE CleanMeansClean'
  BY <1>2, <1>k DEF ThreadStart
<1>3. ASSUME ThreadStartWrite PROVE CleanMeansClean'
  BY <1>3, <1>k DEF ThreadStartWrite, SetCaFlags
<1>4. ASSUME ThreadTop PROVE CleanMeansClean'
  BY <1>4, <1>k DEF ThreadTop
<1>5. ASSUME ThreadLock PROVE CleanMeansClean'
  BY <1>5, <1>k DEF ThreadLock
<1>6. ASSUME ThreadSkip PROVE CleanMeansClean'
  BY <1>6, <1>k DEF ThreadSkip
<1>7. ASSUME ThreadReadFlags PROVE CleanMeansClean'
  BY <1>7, <1>k DEF ThreadReadFlags
<1>8. ASSUME ThreadTryFails PROVE CleanMeansClean'
  BY <1>8, <1>k DEF ThreadTryFails
<1>9. ASSUME ThreadTryLock PROVE CleanMeansClean'
  BY <1>9, <1>k DEF ThreadTryLock, SetMutex
<1>10. ASSUME ThreadRelease PROVE CleanMeansClean'
  BY <1>10, <1>k DEF ThreadRelease, SetMutex
<1>11. ASSUME ThreadPassEnd PROVE CleanMeansClean'
  BY <1>11, <1>k DEF ThreadPassEnd
<1>12. ASSUME ThreadCheck PROVE CleanMeansClean'
  BY <1>12, <1>k DEF ThreadCheck
<1>13. ASSUME ThreadFinish PROVE CleanMeansClean'
  BY <1>13, <1>k DEF ThreadFinish, SetCaFlags
<1>14. ASSUME NEW p \in Procs, Flush(p) PROVE CleanMeansClean'
  <2>1. Victim(p) \in Addr /\ idx[p] \in UsedSlots /\ ~Retired(idx[p])
    BY <1>14, VictimType DEF Flush, MutexInv, HoldsCa, Procs, Retired, UsedSlots,
       Victim, TableInv, VictimPresent
  <2>2. "ACTIVE" \in ce_flags[Victim(p)]
    BY <2>1 DEF TableInv, SlotsActive, Victim
  <2> QED
    BY <1>14, <2>1, <2>2 DEF Flush, CleanMeansClean
<1>15. ASSUME NEW p \in Procs, Retire(p) PROVE CleanMeansClean'
  BY <1>15, VictimType DEF Retire, CleanMeansClean
<1>16. ASSUME NEW p \in Procs, Free(p) PROVE CleanMeansClean'
  BY <1>16, <1>k DEF Free
<1>17. ASSUME NEW p \in Procs, Clear(p) PROVE CleanMeansClean'
  BY <1>17, <1>k DEF Clear
<1>18. ASSUME NEW c \in Clients, CallLocked(c) PROVE CleanMeansClean'
  BY <1>18, <1>k DEF CallLocked, Begin
<1>19. ASSUME NEW c \in Clients, CallKeyed(c) PROVE CleanMeansClean'
  BY <1>19, <1>k DEF CallKeyed, Begin
<1>20. ASSUME NEW c \in Clients, CallSync(c) PROVE CleanMeansClean'
  BY <1>20, <1>k DEF CallSync, Begin
<1>21. ASSUME NEW c \in Clients, CallDisable(c) PROVE CleanMeansClean'
  BY <1>21, <1>k DEF CallDisable, Begin
<1>22. ASSUME NEW c \in Clients, CallElement(c) PROVE CleanMeansClean'
  BY <1>22, <1>k DEF CallElement, Begin
<1>23. ASSUME NEW c \in Clients, CallWaitEl(c) PROVE CleanMeansClean'
  BY <1>23, <1>k DEF CallWaitEl, Begin
<1>24. ASSUME NEW c \in Clients, LockCa(c) PROVE CleanMeansClean'
  BY <1>24, <1>k DEF LockCa
<1>25. ASSUME NEW c \in Clients, UnlockCa(c) PROVE CleanMeansClean'
  BY <1>25, <1>k DEF UnlockCa
<1>26. ASSUME NEW c \in Clients, FindRoom(c) PROVE CleanMeansClean'
  BY <1>26, <1>k DEF FindRoom, MapRefused
<1>27. ASSUME NEW c \in Clients, Alloc(c) PROVE CleanMeansClean'
  BY <1>27 DEF Alloc, CleanMeansClean
<1>28. ASSUME NEW c \in Clients, AllocFails(c) PROVE CleanMeansClean'
  BY <1>28, <1>k DEF AllocFails, MapRefused
<1>29. ASSUME NEW c \in Clients, Lookup(c) PROVE CleanMeansClean'
  BY <1>29, <1>k DEF Lookup
<1>30. ASSUME NEW c \in Clients, FindKey(c) PROVE CleanMeansClean'
  BY <1>30, <1>k DEF FindKey
<1>31. ASSUME NEW c \in Clients, EvictLock(c) PROVE CleanMeansClean'
  BY <1>31, <1>k DEF EvictLock, SetMutex
<1>32. ASSUME NEW c \in Clients, Mark(c) PROVE CleanMeansClean'
  BY <1>32, <1>k DEF Mark
<1>33. ASSUME NEW c \in Clients, ElLock(c) PROVE CleanMeansClean'
  BY <1>33, <1>k DEF ElLock, SetMutex
<1>34. ASSUME NEW c \in Clients, ElUpdate(c) PROVE CleanMeansClean'
  <2>1. el[c] \in Addr
    BY <1>34 DEF ElUpdate, LocalInv, ElementInv
  <2> QED
    BY <1>34, <2>1 DEF ElUpdate, ElementFlags, CleanMeansClean
<1>35. ASSUME NEW c \in Clients, ReadFlags(c) PROVE CleanMeansClean'
  BY <1>35, <1>k DEF ReadFlags
<1>36. ASSUME NEW c \in Clients, WriteFlags(c) PROVE CleanMeansClean'
  BY <1>36, <1>k DEF WriteFlags
<1>37. ASSUME NEW c \in Clients, Poll(c) PROVE CleanMeansClean'
  BY <1>37, <1>k DEF Poll
<1>38. ASSUME NEW c \in Clients, Join(c) PROVE CleanMeansClean'
  BY <1>38, <1>k DEF Join
<1>39. ASSUME UNCHANGED vars PROVE CleanMeansClean'
  BY <1>39, <1>k DEF vars
<1> QED
  BY <1>1, <1>2, <1>3, <1>4, <1>5, <1>6, <1>7, <1>8, <1>9, <1>10, <1>11, <1>12,
     <1>13, <1>14, <1>15, <1>16, <1>17, <1>18, <1>19, <1>20, <1>21, <1>22, <1>23,
     <1>24, <1>25, <1>26, <1>27, <1>28, <1>29, <1>30, <1>31, <1>32, <1>33, <1>34,
     <1>35, <1>36, <1>37, <1>38, <1>39
  DEF Next, ThreadNext, Dispose, Call, InCall, Procs

-----------------------------------------------------------------------------
\* The initial states: an empty table, everybody outside the mutexes.
LEMMA InitIInv == Init => IInv
<1> SUFFICES ASSUME Init PROVE IInv
  OBVIOUS
<1> USE ConstantsAssumption DEF Init, Procs
<1>1. TypeOK
  BY DEF TypeOK, CacheTypeOK, HeapTypeOK, ProcTypeOK, CallTypeOK, CaFlags,
     ThreadLabels, ClientLabels
<1>2. MutexInv
  BY DEF MutexInv, HoldsCa
<1>3. LocalInv
  BY DEF LocalInv, IndexInv, ElementInv, OpInv, FlagOps
<1>4. UsedSlots = {}
  BY DEF UsedSlots
<1>5. TableInv
  BY <1>4 DEF TableInv, SlotsLive, SlotsActive, SlotsDistinct, HeapInTable,
     VictimPresent, RoomEmpty
<1>6. LiveSlots = {}
  BY <1>4 DEF LiveSlots
<1>7. CountInv
  BY <1>6, FS_EmptySet DEF CountInv
<1> QED
  BY <1>1, <1>2, <1>3, <1>5, <1>7 DEF IInv

\* One step of the program keeps the whole invariant.
LEMMA IInvStep == IInv /\ [Next]_vars => IInv'
  BY TypeStep, MutexStep, LocalStep, TableStep, CountStep DEF IInv

\* The inductive invariant holds in every reachable state, for any number of
\* clients, slots and addresses.
THEOREM InductiveInvariant == Spec => []IInv
  BY InitIInv, IInvStep, PTL DEF Spec

\* Every variable keeps its type: in particular no index leaves the table and no
\* NULL is followed where the code follows a pointer.
THEOREM TypeCorrect == Spec => []TypeOK
<1>1. IInv => TypeOK
  BY DEF IInv
<1> QED
  BY <1>1, InductiveInvariant, PTL

\* ca_elements_in_use is the number of occupied slots whenever ca_mutex is free
\* (cache.c:45, 95, 254, 541).
THEOREM InUseCorrect == Spec => []InUseExact
<1>1. IInv => InUseExact
  BY DEF IInv, CountInv, LiveSlots, UsedSlots, Retired, InUseExact
<1> QED
  BY <1>1, InductiveInvariant, PTL

\* Whenever ca_mutex is free the table holds every allocated element exactly
\* once, holds nothing freed, and all of it is active (cache.c:84-105, 214-261).
THEOREM TableCorrect == Spec => []TableSound
<1>1. IInv => TableSound
  BY DEF IInv, TableInv, SlotsLive, SlotsActive, SlotsDistinct, HeapInTable,
     Retired, Freed, TableSound
<1> QED
  BY <1>1, InductiveInvariant, PTL

\* CLEAN never stands beside DIRTY, nor on an element that is not active
\* (cache.h:47), whatever the clients do and however the flags race.
THEOREM CleanCorrect == Spec => []CleanMeansClean
<1>1. Init => CleanMeansClean
  BY DEF Init, CleanMeansClean
<1>2. IInv /\ CleanMeansClean /\ [Next]_vars => CleanMeansClean'
  BY CleanStep
<1> QED
  BY <1>1, <1>2, InductiveInvariant, PTL DEF Spec

=============================================================================
