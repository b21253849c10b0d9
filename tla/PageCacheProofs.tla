--------------------------- MODULE PageCacheProofs ---------------------------
(* Proofs about PageCache, for every number of clients, blocks and slots, with *)
(* or without careful clients and all faults: its types, who holds pc_mutex,  *)
(* and that a block address is cached once.                                   *)
EXTENDS PageCache, SequenceTheorems, WellFoundedInduction, TLAPS

-----------------------------------------------------------------------------
(* The inductive invariant.                                                  *)

\* The labels at which a client is between lock and unlock of pc_mutex.
Growing    == {"grow", "grow_seek", "grow_write", "realloc"}
MakingRoom == {"room", "victim", "victim_seek", "victim_write", "victim_free", "new"}
Reading    == {"read_seek", "read"}
Mapping    == {"scan", "malloc"} \union Growing \union MakingRoom \union Reading

Labels ==
  {"idle", "lock", "seek", "write", "settle", "free", "clear", "pc_lock", "mark"}
    \union Mapping

LocksType ==
  /\ pc_mutex \in Clients \union {NoOne} /\ ca_mutex \in Procs \union {NoOne}
  /\ ce_mutex \in [Slots -> Procs \union {NoOne}]

PagesType ==
  /\ slot \in [Slots -> {"empty", "live", "freed"}]
  /\ ce_flags \in [Slots -> SUBSET {"CLEAN", "DIRTY", "EVICT"}]
  /\ ce_id \in [Slots -> Blocks \union {NoAddr}] /\ pe_num_blocks \in [Slots -> Nat]
  /\ mem \in [Slots -> Seq(Contents)]

DeviceType == offset \in Nat /\ disk \in [Blocks -> Contents]

GhostsType == newest \in [Blocks -> 0 .. MaxWrites] /\ clock \in 0 .. MaxWrites

CallsType ==
  /\ want = [c \in Clients |-> want[c]] /\ zero = [c \in Clients |-> zero[c]]
  /\ left = [c \in Clients |-> left[c]]
  /\ \A c \in Clients : want[c][1] \in Blocks /\ want[c][2] \in Nat \ {0}
  /\ handle \in [Clients -> Slots \union {NoPage}]

ProcsType ==
  /\ pc \in [Procs -> Labels] /\ cur \in [Procs -> Slots]
  /\ seen \subseteq {"CLEAN", "DIRTY", "EVICT"}

TypeInv == LocksType /\ PagesType /\ DeviceType /\ GhostsType /\ CallsType /\ ProcsType

\* pc_mutex is held by whoever maps.
HoldsPc == \A c \in Clients : pc[c] \in Mapping => pc_mutex = c

Live(i) == slot[i] = "live"

\* No live slot but i has the address that client c is mapping.
AloneAt(c, i) == \A j \in Slots : Live(j) /\ j # i => ce_id[j] # want[c][1]

\* At any moment, whoever holds pc_mutex.
Distinct ==
  \A i, j \in Slots : i # j /\ Live(i) /\ Live(j) /\ ce_id[i] # NoAddr => ce_id[i] # ce_id[j]

\* What a client has seen in its scan of the table is still so.
Seen(c) ==
  /\ pc[c] \in MakingRoom => \A j \in Slots : Live(j) => ce_id[j] # want[c][1]
  /\ pc[c] = "malloc" => AloneAt(c, cur[c])
  /\ pc[c] \in Growing /\ Live(cur[c]) => ce_id[cur[c]] = want[c][1]
  /\ pc[c] \in Reading /\ Live(cur[c]) => AloneAt(c, cur[c])
MappingInv == \A c \in Clients : Seen(c)

IInv == TypeInv /\ HoldsPc /\ Distinct /\ MappingInv

-----------------------------------------------------------------------------
(* Lemmas.                                                                   *)

\* A set of slots that is not empty has a lowest one.
LEMMA LowestSlot ==
  ASSUME NEW S, S \subseteq Slots, S # {}
  PROVE  (CHOOSE k \in S : \A j \in S : k <= j) \in S
<1>1. S \subseteq Nat
  BY PagesAssumption DEF Slots
<1>2. PICK k \in S : \A j \in S : ~(<<j, k>> \in OpToRel(<, Nat))
  BY <1>1, NatLessThanWellFounded, WFMin
<1>3. \A j \in S : ~(j < k)
  BY <1>1, <1>2 DEF OpToRel
<1>4. \A j \in S : k <= j
  BY <1>1, <1>3
<1> QED  BY <1>4

\* The thread, the clients, nobody and the numbers of pages are told apart.
LEMMA Someone ==
  /\ Thread \in Procs /\ Thread \notin Clients /\ Clients \subseteq Procs
  /\ NoOne \notin Procs /\ 1 \in Slots /\ NoPage \notin Slots
BY PagesAssumption DEF Procs, Slots, NoPage

\* What a page holds, and what is written of it.
LEMMA ContentsOf ==
  ASSUME TypeInv, NEW i \in Slots
  PROVE  /\ mem[i] \in Seq(Contents) /\ Len(mem[i]) \in Nat
         /\ \A j \in 1 .. Len(mem[i]) : mem[i][j] \in Contents
BY LenProperties, ElementOfSeq DEF TypeInv, PagesType

\* What a flush writes is contents of blocks, and where it ends is a number.
LEMMA WrittenType ==
  ASSUME TypeInv, NEW i \in Slots
  PROVE  Written(i) \in [Blocks -> Contents] /\ offset + Len(mem[i]) \in Nat
<1>1. offset \in Nat /\ disk \in [Blocks -> Contents] /\ Blocks \subseteq Nat
  BY PagesAssumption DEF TypeInv, DeviceType
<1>2. Len(mem[i]) \in Nat /\ \A j \in 1 .. Len(mem[i]) : mem[i][j] \in Contents
  BY ContentsOf
<1>3. ASSUME NEW b \in Blocks, b \in offset .. offset + Len(mem[i]) - 1
      PROVE  mem[i][b - offset + 1] \in Contents
  <2>1. b - offset + 1 \in 1 .. Len(mem[i])
    BY <1>1, <1>2, <1>3
  <2> QED  BY <1>2, <2>1
<1> QED  BY <1>1, <1>2, <1>3 DEF Written

\* The memory of a page of n blocks.
LEMMA MemoryType ==
  ASSUME NEW n \in Nat, NEW m, m = [j \in 1 .. n |-> m[j]],
         \A j \in 1 .. n : m[j] \in Contents
  PROVE  m \in Seq(Contents)
<1>1. m \in [1 .. n -> Contents]
  OBVIOUS
<1> QED  BY <1>1, SeqDef

\* The contents that no client wrote, and a page of none.
LEMMA SpecialContents ==
  Blank \in Contents /\ Junk \in Contents /\ <<>> \in Seq(Contents)
BY EmptySeq DEF Contents

-----------------------------------------------------------------------------
(* Types.                                                                    *)

\* A cache that was just allocated.
LEMMA InitHolds == Init => IInv
<1> SUFFICES ASSUME Init PROVE IInv
  OBVIOUS
<1> USE DEF Init
<1>1. LocksType /\ ProcsType
  BY Someone DEF LocksType, ProcsType, Labels
<1>2. PagesType
  BY SpecialContents DEF PagesType
<1>3. DeviceType /\ GhostsType
  <2>1. \A b \in Blocks : <<b, 0>> \in Contents
    BY PagesAssumption DEF Contents
  <2> QED  BY <2>1, PagesAssumption DEF DeviceType, GhostsType
<1>4. CallsType
  BY PagesAssumption DEF CallsType
<1>5. HoldsPc /\ Distinct /\ MappingInv
  BY Someone
     DEF HoldsPc, Distinct, MappingInv, Seen, Mapping, Growing, MakingRoom, Reading, Live
<1> QED  BY <1>1, <1>2, <1>3, <1>4, <1>5 DEF IInv, TypeInv

\* The thread's steps keep the types.
LEMMA ThreadTypes ==
  ASSUME TypeInv, ThreadNext
  PROVE  TypeInv'
<1> USE DEF TypeInv, vars, locks, pages, device, ghosts, calls
<1>1. GhostsType' /\ CallsType'
  BY DEF ThreadNext, ThreadReads, ThreadLocks, FlushSeek, FlushWrite, ThreadSettles,
         ThreadFrees, ThreadClears, Step, GhostsType, CallsType
<1>2. DeviceType'
  <2>1. CASE FlushSeek(Thread, "seek", "write")
    <3>1. ce_id[cur[Thread]] \in Blocks \union {NoAddr}
      BY Someone DEF PagesType, ProcsType
    <3> QED  BY <2>1, <3>1, PagesAssumption DEF FlushSeek, LSeek, pe_block_addr, DeviceType
  <2>2. CASE FlushWrite(Thread, "write", "settle")
    <3>1. cur[Thread] \in Slots
      BY Someone DEF ProcsType
    <3> QED  BY <2>2, <3>1, WrittenType DEF FlushWrite, Write, DeviceType
  <2>3. CASE UNCHANGED device
    BY <2>3 DEF DeviceType
  <2> QED  BY <2>1, <2>2, <2>3
           DEF ThreadNext, ThreadReads, ThreadLocks, ThreadSettles, ThreadFrees, ThreadClears
<1>3. ProcsType'
  BY Someone DEF ThreadNext, ThreadReads, ThreadLocks, FlushSeek, FlushWrite, ThreadSettles,
                 ThreadFrees, ThreadClears, Step, Goto, ProcsType, PagesType, Labels, WorkOn
<1>4. LocksType'
  BY Someone DEF ThreadNext, ThreadReads, ThreadLocks, FlushSeek, FlushWrite, ThreadSettles,
                 ThreadFrees, ThreadClears, LocksType
<1>5. PagesType'
  <2>1. CASE UNCHANGED pages
    BY <2>1 DEF PagesType
  <2>2. CASE ThreadSettles
    BY <2>2 DEF ThreadSettles, Cleaned, PagesType
  <2>3. CASE ThreadFrees
    <3>1. cur[Thread] \in Slots
      BY Someone DEF ProcsType
    <3> QED  BY <2>3, <3>1, SpecialContents DEF ThreadFrees, FreePage, PagesType
  <2>4. CASE ThreadClears
    BY <2>4 DEF ThreadClears, PagesType
  <2> QED  BY <2>1, <2>2, <2>3, <2>4
           DEF ThreadNext, ThreadReads, ThreadLocks, FlushSeek, FlushWrite
<1> QED  BY <1>1, <1>2, <1>3, <1>4, <1>5

\* A client's steps, by what they leave alone.
LEMMA ClientTypes ==
  ASSUME TypeInv, NEW c \in Clients, ClientNext(c)
  PROVE  TypeInv'
<1> USE DEF TypeInv, vars, locks, pages, device, ghosts, calls
<1>0. /\ c \in Procs /\ cur[c] \in Slots /\ want[c][1] \in Blocks /\ want[c][2] \in Nat \ {0}
      /\ Blocks \subseteq Nat /\ handle[c] \in Slots \union {NoPage}
  BY Someone, PagesAssumption DEF ProcsType, CallsType
<1>1. GhostsType'
  <2>1. CASE Change(c)
    <3>1. clock + 1 \in 0 .. MaxWrites
      BY <2>1, PagesAssumption DEF Change, GhostsType
    <3> QED  BY <2>1, <3>1 DEF Change, GhostsType
  <2>2. CASE UNCHANGED ghosts
    BY <2>2 DEF GhostsType
  <2> QED  BY <2>1, <2>2
           DEF ClientNext, CallMap, PcLock, Scan, GrowLock, FlushSeek, FlushWrite, Realloc,
               Room, VictimLock, VictimFree, New, Malloc, ReadSeek, ReadPage, MarkDirty,
               MarkEviction
<1>2. CallsType'
  <2>1. CASE CallMap(c)
    BY <2>1, PagesAssumption DEF CallMap, CallsType
  <2>2. ASSUME NEW i \in Slots \union {NoPage}, Return(c, i)
        PROVE  CallsType'
    BY <2>2 DEF Return, CallsType
  <2>3. CASE UNCHANGED calls
    BY <2>3 DEF CallsType
  <2>4. CASE Change(c)
    BY <2>4 DEF Change, CallsType
  <2>5. CASE MarkEviction(c)
    BY <2>5 DEF MarkEviction, CallsType
  <2>6. CASE Scan(c)
    <3>1. PICK stale \in SUBSET {i \in Slots : slot[i] = "freed"} :
            LET hits == Hits(want[c][1], stale)
                i == CHOOSE k \in hits : \A j \in hits : k <= j
            IN  UNCHANGED calls \/ Return(c, NoPage) \/ (hits # {} /\ Return(c, i))
      BY <2>6 DEF Scan
    <3> DEFINE hits == Hits(want[c][1], stale)
    <3>2. hits \subseteq Slots
      BY DEF Hits
    <3>3. hits # {} => (CHOOSE k \in hits : \A j \in hits : k <= j) \in Slots
      BY <3>2, LowestSlot
    <3> QED  BY <2>2, <2>3, <3>1, <3>3
  <2>7. CASE Realloc(c)
    BY <2>2, <2>3, <2>7 DEF Realloc, Step
  <2>8. CASE Malloc(c)
    BY <1>0, <2>2, <2>3, <2>8 DEF Malloc, Step
  <2>9. CASE ReadPage(c)
    BY <1>0, <2>2, <2>9 DEF ReadPage
  <2> QED  BY <2>1, <2>3, <2>4, <2>5, <2>6, <2>7, <2>8, <2>9
           DEF ClientNext, PcLock, GrowLock, FlushSeek, FlushWrite, Room, VictimLock,
               VictimFree, New, ReadSeek, MarkDirty, Step
<1>3. DeviceType'
  <2>1. ASSUME NEW a, NEW b, FlushSeek(c, a, b)
        PROVE  DeviceType'
    <3>1. ce_id[cur[c]] \in Blocks \union {NoAddr}
      BY <1>0 DEF PagesType
    <3> QED  BY <1>0, <2>1, <3>1 DEF FlushSeek, LSeek, pe_block_addr, DeviceType
  <2>2. ASSUME NEW a, NEW b, FlushWrite(c, a, b)
        PROVE  DeviceType'
    BY <1>0, <2>2, WrittenType DEF FlushWrite, Write, DeviceType
  <2>3. CASE ReadSeek(c)
    BY <1>0, <2>3 DEF ReadSeek, LSeek, DeviceType
  <2>4. CASE ReadPage(c)
    BY <1>0, <2>4 DEF ReadPage, Read, DeviceType
  <2>5. CASE UNCHANGED device
    BY <2>5 DEF DeviceType
  <2> QED  BY <2>1, <2>2, <2>3, <2>4, <2>5
           DEF ClientNext, CallMap, PcLock, Scan, GrowLock, Realloc, Room, VictimLock,
               VictimFree, New, Malloc, Change, MarkDirty, MarkEviction
<1>4. LocksType'
  BY <1>0, Someone
     DEF ClientNext, CallMap, PcLock, Scan, GrowLock, FlushSeek, FlushWrite, Realloc, Room,
         VictimLock, VictimFree, New, Malloc, ReadSeek, ReadPage, Change, MarkDirty,
         MarkEviction, Step, Return, LocksType
<1>5. PagesType'
  <2>1. CASE UNCHANGED pages
    BY <2>1 DEF PagesType
  <2>2. CASE VictimFree(c)
    BY <1>0, <2>2, SpecialContents DEF VictimFree, FreePage, PagesType
  <2>3. CASE New(c)
    BY <1>0, <2>3, SpecialContents DEF New, PagesType
  <2>4. CASE Realloc(c)
    <3>1. CASE /\ mem' = [mem EXCEPT ![cur[c]] = <<>>]
               /\ UNCHANGED <<slot, ce_flags, ce_id, pe_num_blocks>>
      BY <1>0, <3>1, SpecialContents DEF PagesType
    <3> QED  BY <2>1, <2>4, <3>1 DEF Realloc
  <2>5. CASE Malloc(c)
    <3>1. [j \in 1 .. want[c][2] |-> Blank] \in Seq(Contents)
      BY <1>0, SpecialContents, MemoryType
    <3>2. CASE /\ mem' = [mem EXCEPT ![cur[c]] = [j \in 1 .. want[c][2] |-> Blank]]
               /\ Place(c) /\ UNCHANGED <<slot, ce_flags>>
      <4> DEFINE m == [j \in 1 .. want[c][2] |-> Blank]
      <4>1. mem' = [mem EXCEPT ![cur[c]] = m] /\ m \in Seq(Contents)
        BY <3>1, <3>2
      <4> HIDE DEF m
      <4> QED  BY <1>0, <3>2, <4>1 DEF Place, PagesType
    <3>3. CASE /\ ce_flags' \in {ce_flags, [ce_flags EXCEPT ![cur[c]] = @ \union {"EVICT"}]}
               /\ UNCHANGED <<slot, ce_id, pe_num_blocks, mem>>
      <4>1. ce_flags[cur[c]] \union {"EVICT"} \in SUBSET {"CLEAN", "DIRTY", "EVICT"}
        BY <1>0 DEF PagesType
      <4>2. ce_flags' \in [Slots -> SUBSET {"CLEAN", "DIRTY", "EVICT"}]
        BY <3>3, <4>1 DEF PagesType
      <4> QED  BY <3>3, <4>2 DEF PagesType
    <3> QED  BY <2>1, <2>5, <3>2, <3>3 DEF Malloc
  <2>6. CASE ReadPage(c)
    <3> DEFINE m == [j \in 1 .. want[c][2] |->
                       IF offset + j - 1 \in Blocks THEN disk[offset + j - 1] ELSE Junk]
    <3>1. \A j \in 1 .. want[c][2] : m[j] \in Contents
      BY SpecialContents DEF DeviceType
    <3>2. m \in Seq(Contents)
      BY <1>0, <3>1, MemoryType
    <3>3. mem' = [mem EXCEPT ![cur[c]] = m]
      BY <2>6 DEF ReadPage, Read
    <3> HIDE DEF m
    <3> QED  BY <1>0, <2>6, <3>2, <3>3 DEF ReadPage, Place, PagesType
  <2>7. CASE Change(c)
    <3> DEFINE i == handle[c]
               m == [j \in DOMAIN mem[i] |-> IF ce_id[i] + j - 1 \in Blocks
                                             THEN <<ce_id[i] + j - 1, clock + 1>>
                                             ELSE mem[i][j]]
    <3>1. i \in Slots /\ clock + 1 \in 0 .. MaxWrites
      BY <1>0, <2>7, PagesAssumption DEF Change, GhostsType
    <3>2. Len(mem[i]) \in Nat /\ DOMAIN mem[i] = 1 .. Len(mem[i])
      BY <3>1, ContentsOf, LenProperties
    <3>3. \A j \in DOMAIN mem[i] : m[j] \in Contents
      BY <3>1, <3>2, ContentsOf DEF Contents
    <3>4. m \in Seq(Contents)
      BY <3>2, <3>3, MemoryType
    <3>5. mem' = [mem EXCEPT ![i] = m]
      BY <2>7 DEF Change
    <3> HIDE DEF m
    <3> QED  BY <2>7, <3>1, <3>4, <3>5 DEF Change, PagesType
  <2>8. ASSUME NEW i \in Slots \union {NoPage}, NEW f, Flag(i, f),
               i \in Slots => f \in SUBSET {"CLEAN", "DIRTY", "EVICT"},
               UNCHANGED <<slot, ce_id, pe_num_blocks, mem>>
        PROVE  PagesType'
    BY <2>8 DEF Flag, PagesType
  <2>9. CASE MarkDirty(c)
    BY <1>0, <2>8, <2>9 DEF MarkDirty, Marked, PagesType
  <2>10. CASE MarkEviction(c)
    BY <1>0, <2>8, <2>10 DEF MarkEviction, PagesType
  <2> QED  BY <2>1, <2>2, <2>3, <2>4, <2>5, <2>6, <2>7, <2>9, <2>10
           DEF ClientNext, CallMap, PcLock, Scan, GrowLock, FlushSeek, FlushWrite, Room,
               VictimLock, ReadSeek
<1>6. ProcsType'
  <2>1. ASSUME NEW l \in Labels, NEW i \in Slots, pc' = [pc EXCEPT ![c] = l],
               cur' = [cur EXCEPT ![c] = i], UNCHANGED seen
        PROVE  ProcsType'
    BY <1>0, <2>1 DEF ProcsType
  <2>2. ASSUME NEW l \in Labels, pc' = [pc EXCEPT ![c] = l], UNCHANGED <<cur, seen>>
        PROVE  ProcsType'
    BY <1>0, <2>2 DEF ProcsType
  <2>3. CASE Scan(c)
    <3>1. PICK stale \in SUBSET {i \in Slots : slot[i] = "freed"} :
            LET hits == Hits(want[c][1], stale)
                i == CHOOSE k \in hits : \A j \in hits : k <= j
            IN  \/ pc' = [pc EXCEPT ![c] = "room"] /\ UNCHANGED cur
                \/ pc' = [pc EXCEPT ![c] = "idle"] /\ UNCHANGED cur
                \/ hits # {} /\ cur' = [cur EXCEPT ![c] = i] /\ pc' = [pc EXCEPT ![c] = "grow"]
      BY <2>3 DEF Scan, Return, Goto
    <3> DEFINE hits == Hits(want[c][1], stale)
    <3>2. hits \subseteq Slots
      BY DEF Hits
    <3>3. hits # {} => (CHOOSE k \in hits : \A j \in hits : k <= j) \in Slots
      BY <3>2, LowestSlot
    <3>4. "room" \in Labels /\ "idle" \in Labels /\ "grow" \in Labels /\ UNCHANGED seen
      BY <2>3 DEF Scan, Labels, Mapping, MakingRoom, Growing
    <3> QED  BY <2>1, <2>2, <3>1, <3>3, <3>4
  <2>4. CASE Room(c)
    BY <2>1, <2>4 DEF Room, Goto, Labels, Mapping, MakingRoom
  <2>5. CASE MarkEviction(c)
    BY <2>5 DEF MarkEviction, ProcsType
  <2>6. CASE CallMap(c) \/ PcLock(c) \/ GrowLock(c) \/ VictimLock(c) \/ Change(c)
    BY <2>2, <2>6 DEF CallMap, PcLock, GrowLock, VictimLock, Change, Goto, Labels, Mapping,
                      MakingRoom, Growing
  <2>7. CASE Realloc(c) \/ Malloc(c) \/ ReadPage(c)
    BY <2>2, <2>7 DEF Realloc, Malloc, ReadPage, Return, Step, Goto, Labels, Mapping, Reading
  <2>8. CASE VictimFree(c) \/ New(c) \/ ReadSeek(c) \/ MarkDirty(c)
    BY <2>2, <2>8 DEF VictimFree, New, ReadSeek, MarkDirty, Step, Goto, Labels, Mapping,
                      MakingRoom, Reading
  <2>9. ASSUME NEW a, NEW b \in Labels, FlushSeek(c, a, b) \/ FlushWrite(c, a, b)
        PROVE  ProcsType'
    BY <2>2, <2>9 DEF FlushSeek, FlushWrite, Step, Goto
  <2> QED  BY <2>3, <2>4, <2>5, <2>6, <2>7, <2>8, <2>9
           DEF ClientNext, Labels, Mapping, MakingRoom, Growing
<1> QED  BY <1>1, <1>2, <1>3, <1>4, <1>5, <1>6

-----------------------------------------------------------------------------
(* Who maps, and what it has seen.                                           *)

\* The thread and an eviction only take pages out of the table.
LEMMA ThreadKeeps ==
  ASSUME IInv, TypeInv', ThreadNext
  PROVE  HoldsPc' /\ Distinct' /\ MappingInv'
<1> USE DEF vars, locks, pages, device, ghosts, calls
<1>1. UNCHANGED <<pc_mutex, want, ce_id>>
  BY DEF ThreadNext, ThreadReads, ThreadLocks, FlushSeek, FlushWrite, ThreadSettles,
         ThreadFrees, ThreadClears, FreePage, Step
<1>2. \A c \in Clients : pc'[c] = pc[c] /\ cur'[c] = cur[c]
  BY Someone DEF ThreadNext, ThreadReads, ThreadLocks, FlushSeek, FlushWrite, ThreadSettles,
                 ThreadFrees, ThreadClears, Step, Goto, IInv, TypeInv, ProcsType
<1>3. \A i \in Slots : Live(i)' => Live(i)
  BY DEF ThreadNext, ThreadReads, ThreadLocks, FlushSeek, FlushWrite, ThreadSettles,
         ThreadFrees, ThreadClears, FreePage, Live, IInv, TypeInv, PagesType
<1>4. \A c \in Clients : cur[c] \in Slots
  BY Someone DEF IInv, TypeInv, ProcsType
<1>5. HoldsPc'
  BY <1>1, <1>2 DEF IInv, HoldsPc
<1>6. Distinct'
  BY <1>1, <1>3 DEF IInv, Distinct
<1>7. MappingInv'
  BY <1>1, <1>2, <1>3, <1>4 DEF IInv, MappingInv, Seen, AloneAt
<1> QED  BY <1>5, <1>6, <1>7

\* A client's steps keep who holds what, and what the caller that maps has seen.
LEMMA ClientKeeps ==
  ASSUME IInv, TypeInv', NEW c \in Clients, ClientNext(c)
  PROVE  HoldsPc' /\ Distinct' /\ MappingInv'
<1> USE DEF vars, locks, pages, device, ghosts, calls
<1> DEFINE a == want[c][1]
           i == cur[c]
<1>0. /\ c \in Procs /\ i \in Slots /\ a \in Blocks /\ a # NoAddr /\ c # NoOne
      /\ slot \in [Slots -> {"empty", "live", "freed"}]
      /\ ce_id \in [Slots -> Blocks \union {NoAddr}]
      /\ pc \in [Procs -> Labels] /\ cur \in [Procs -> Slots]
  <2>1. /\ slot \in [Slots -> {"empty", "live", "freed"}]
        /\ ce_id \in [Slots -> Blocks \union {NoAddr}]
        /\ pc \in [Procs -> Labels] /\ cur \in [Procs -> Slots] /\ a \in Blocks
    BY DEF IInv, TypeInv, ProcsType, PagesType, CallsType
  <2>2. NoAddr \notin Blocks
    BY PagesAssumption DEF NoAddr
  <2> QED  BY Someone, <2>1, <2>2
<1>1. \A d \in Clients \ {c} : pc'[d] = pc[d] /\ cur'[d] = cur[d] /\ want'[d] = want[d]
  <2> USE <1>0, Someone
  <2>1. \A d \in Clients \ {c} : pc'[d] = pc[d]
    BY DEF ClientNext, CallMap, PcLock, Scan, GrowLock, FlushSeek, FlushWrite, Realloc, Room,
           VictimLock, VictimFree, New, Malloc, ReadSeek, ReadPage, Change, MarkDirty,
           MarkEviction, Step, Goto, Return
  <2>2. \A d \in Clients \ {c} : cur'[d] = cur[d]
    BY DEF ClientNext, CallMap, PcLock, Scan, GrowLock, FlushSeek, FlushWrite, Realloc, Room,
           VictimLock, VictimFree, New, Malloc, ReadSeek, ReadPage, Change, MarkDirty,
           MarkEviction, Step, Return
  <2>3. \A d \in Clients \ {c} : want'[d] = want[d]
    BY DEF ClientNext, CallMap, PcLock, Scan, GrowLock, FlushSeek, FlushWrite, Realloc, Room,
           VictimLock, VictimFree, New, Malloc, ReadSeek, ReadPage, Change, MarkDirty,
           MarkEviction, Step, Return, IInv, TypeInv, CallsType
  <2> QED  BY <2>1, <2>2, <2>3
\* Outside the mapping functions nothing of this changes.
<1>2. ASSUME pc[c] \notin Mapping, pc'[c] \notin Mapping, UNCHANGED <<pc_mutex, slot, ce_id>>
      PROVE  HoldsPc' /\ Distinct' /\ MappingInv'
  <2>1. HoldsPc'
    BY <1>1, <1>2 DEF IInv, HoldsPc
  <2>2. Distinct'
    BY <1>2 DEF IInv, Distinct, Live
  <2>3. MappingInv'
    BY <1>1, <1>2 DEF IInv, MappingInv, Seen, AloneAt, Live, Mapping
  <2> QED  BY <2>1, <2>2, <2>3
\* Inside, no other client is.
<1>3. ASSUME pc[c] \in Mapping \/ pc_mutex = NoOne, pc'[c] \in Mapping => pc_mutex' = c,
             Distinct', Seen(c)'
      PROVE  HoldsPc' /\ Distinct' /\ MappingInv'
  <2>1. \A d \in Clients \ {c} : pc'[d] \notin Mapping
    BY Someone, <1>1, <1>3 DEF IInv, HoldsPc
  <2>2. HoldsPc'
    BY <1>3, <2>1 DEF HoldsPc
  <2>3. \A d \in Clients \ {c} : Seen(d)'
    BY <2>1 DEF Seen, Mapping
  <2> QED  BY <1>3, <2>2, <2>3 DEF MappingInv
<1>4. UNCHANGED <<slot, ce_id>> => Distinct'
  BY DEF IInv, Distinct, Live
<1>5. pc[c] \in Mapping => pc_mutex = c
  BY DEF IInv, HoldsPc
<1>6. Seen(c) /\ Distinct
  BY DEF IInv, MappingInv
<1> HIDE DEF a, i
<1> USE <1>0
<1>7. CASE CallMap(c) \/ Change(c) \/ MarkDirty(c) \/ MarkEviction(c)
  BY <1>2, <1>7 DEF CallMap, Change, MarkDirty, MarkEviction, Step, Goto, Mapping, Growing,
                    MakingRoom, Reading
<1>8. CASE PcLock(c)
  BY <1>3, <1>4, <1>8 DEF PcLock, Goto, Seen, Mapping, Growing, MakingRoom, Reading
<1>9. CASE Scan(c)
  <2>1. PICK stale \in SUBSET {j \in Slots : slot[j] = "freed"} :
          LET hits == Hits(want[c][1], stale)
              k == CHOOSE l \in hits : \A j \in hits : l <= j
          IN  \/ hits = {} /\ pc'[c] = "room" /\ UNCHANGED pc_mutex
              \/ pc'[c] = "idle"
              \/ hits # {} /\ cur'[c] = k /\ pc'[c] = "grow" /\ UNCHANGED pc_mutex
    BY <1>9 DEF Scan, Return, Goto
  <2> DEFINE hits == Hits(want[c][1], stale)
             k == CHOOSE l \in hits : \A j \in hits : l <= j
  <2>2. hits \subseteq Slots /\ \A j \in hits : Live(j) => ce_id[j] = want[c][1]
    BY DEF Hits, Live
  <2>3. hits # {} => k \in hits
    BY <2>2, LowestSlot
  <2>4. hits = {} => \A j \in Slots : Live(j) => ce_id[j] # want[c][1]
    BY DEF Hits, Live
  <2>5. pc[c] = "scan" /\ UNCHANGED <<slot, ce_id>>
    BY <1>9 DEF Scan
  <2>6. pc'[c] # "idle" => want'[c] = want[c]
    BY <1>9 DEF Scan, Return, Goto
  <2> HIDE DEF hits, k
  <2>7. Seen(c)'
    BY <2>1, <2>2, <2>3, <2>4, <2>5, <2>6
       DEF hits, k, Seen, Live, MakingRoom, Growing, Reading
  <2>8. pc[c] \in Mapping /\ (pc'[c] \in Mapping => pc_mutex' = c)
    BY <1>5, <2>1, <2>5 DEF Mapping, Growing, MakingRoom, Reading
  <2> QED  BY <1>3, <1>4, <2>5, <2>7, <2>8
\* Steps that leave the table and the page alone.
<1>10. ASSUME UNCHANGED <<slot, ce_id, cur, want, pc_mutex>>,
              \/ pc[c] \in Growing /\ pc'[c] \in Growing
              \/ pc[c] \in MakingRoom /\ pc'[c] \in MakingRoom
              \/ pc[c] \in Reading /\ pc'[c] \in Reading
       PROVE  HoldsPc' /\ Distinct' /\ MappingInv'
  <2>1. Seen(c)'
    BY <1>6, <1>10 DEF Seen, AloneAt, Live, Growing, MakingRoom, Reading
  <2> QED  BY <1>3, <1>4, <1>5, <1>10, <2>1 DEF Mapping
<1>11. CASE GrowLock(c) \/ VictimLock(c) \/ ReadSeek(c)
  BY <1>10, <1>11 DEF GrowLock, VictimLock, ReadSeek, Step, Goto, Growing, MakingRoom, Reading
<1>12. CASE \/ FlushSeek(c, "grow_seek", "grow_write")
            \/ FlushSeek(c, "victim_seek", "victim_write")
  BY <1>10, <1>12 DEF FlushSeek, Step, Goto, Growing, MakingRoom
<1>13. CASE \/ FlushWrite(c, "grow_write", "realloc")
            \/ FlushWrite(c, "victim_write", "victim_free")
  BY <1>10, <1>13 DEF FlushWrite, Step, Goto, Growing, MakingRoom
\* The address it is growing is this page's only.
<1>14. CASE Realloc(c)
  <2>1. /\ pc[c] = "realloc" /\ UNCHANGED <<slot, ce_id, cur, want>>
        /\ pc'[c] = "idle" \/ (pc'[c] = "read_seek" /\ UNCHANGED pc_mutex)
    BY <1>14 DEF Realloc, Step, Goto, Return
  <2>2. Seen(c)'
    BY <1>6, <2>1 DEF Seen, AloneAt, Distinct, Live, Growing, MakingRoom, Reading, i, a
  <2> QED  BY <1>3, <1>4, <1>5, <2>1, <2>2 DEF Mapping, Growing, MakingRoom, Reading
<1>15. CASE Room(c)
  <2>1. /\ pc[c] = "room" /\ pc'[c] \in {"new", "victim"}
        /\ UNCHANGED <<slot, ce_id, want, pc_mutex>>
    BY <1>15 DEF Room, Goto
  <2>2. Seen(c)'
    BY <1>6, <2>1 DEF Seen, Live, Growing, MakingRoom, Reading
  <2> QED  BY <1>3, <1>4, <1>5, <2>1, <2>2 DEF Mapping, MakingRoom
<1>16. CASE VictimFree(c)
  <2>1. /\ pc[c] = "victim_free" /\ pc'[c] = "new" /\ UNCHANGED <<ce_id, want, pc_mutex>>
        /\ \A j \in Slots : Live(j)' => Live(j)
    BY <1>16 DEF VictimFree, FreePage, Step, Goto, Live
  <2>2. Seen(c)' /\ Distinct'
    BY <1>6, <2>1 DEF Seen, Distinct, Growing, MakingRoom, Reading
  <2> QED  BY <1>3, <1>5, <2>1, <2>2 DEF Mapping, MakingRoom
\* The new page has no address yet.
<1>17. CASE New(c)
  <2>1. /\ pc[c] = "new" /\ pc'[c] = "malloc" /\ UNCHANGED <<want, pc_mutex, cur>>
        /\ slot' = [slot EXCEPT ![i] = "live"] /\ ce_id' = [ce_id EXCEPT ![i] = NoAddr]
    BY <1>17 DEF New, Step, Goto, i
  <2>2. \A j \in Slots : Live(j)' /\ j # i => Live(j) /\ ce_id'[j] = ce_id[j]
    BY <2>1 DEF Live
  <2>3. ce_id'[i] = NoAddr
    BY <2>1
  <2>4. Distinct'
    BY <1>6, <2>2, <2>3 DEF Distinct
  <2>5. Seen(c)'
    BY <1>6, <2>1, <2>2 DEF Seen, AloneAt, Growing, MakingRoom, Reading, i
  <2> QED  BY <1>3, <1>5, <2>1, <2>4, <2>5 DEF Mapping, MakingRoom
\* The address is given to a page that has it alone, or to one not in the table.
<1>18. ASSUME Place(c), UNCHANGED slot, Live(i) => AloneAt(c, i)
       PROVE  Distinct'
  <2>1. ce_id' = [ce_id EXCEPT ![i] = a]
    BY <1>18 DEF Place, i, a
  <2>2. \A j \in Slots : (Live(j)' <=> Live(j)) /\ (j # i => ce_id'[j] = ce_id[j])
    BY <1>18, <2>1 DEF Live
  <2>3. ce_id'[i] = a
    BY <2>1
  <2> QED  BY <1>6, <1>18, <2>2, <2>3 DEF Distinct, AloneAt, a
<1>19. CASE Malloc(c)
  <2>1. pc[c] = "malloc" /\ AloneAt(c, i)
    BY <1>6, <1>19 DEF Malloc, Step, Seen, i
  <2>2. UNCHANGED <<slot, cur, want>>
    BY <1>19 DEF Malloc, Step, Return
  <2>3. pc'[c] = "idle" \/ (pc'[c] = "read_seek" /\ UNCHANGED <<pc_mutex, ce_id>>)
    BY <1>19 DEF Malloc, Step, Return, Goto
  <2>4. UNCHANGED ce_id \/ Place(c)
    BY <1>19 DEF Malloc
  <2>5. Distinct'
    BY <1>4, <1>18, <2>1, <2>2, <2>4
  <2>6. Seen(c)'
    BY <2>1, <2>2, <2>3 DEF Seen, AloneAt, Live, Growing, MakingRoom, Reading, i
  <2> QED  BY <1>3, <1>5, <2>1, <2>3, <2>5, <2>6
           DEF Mapping, Growing, MakingRoom, Reading
<1>20. CASE ReadPage(c)
  <2>1. pc[c] = "read" /\ pc'[c] = "idle" /\ Place(c) /\ UNCHANGED slot
    BY <1>20 DEF ReadPage, Return, Goto
  <2>2. Live(i) => AloneAt(c, i)
    BY <1>6, <2>1 DEF Seen, Reading, i
  <2>3. Seen(c)'
    BY <2>1 DEF Seen, Growing, MakingRoom, Reading
  <2> QED  BY <1>3, <1>18, <2>1, <2>2, <2>3 DEF Mapping, Growing, MakingRoom, Reading
<1> QED  BY <1>7, <1>8, <1>9, <1>11, <1>12, <1>13, <1>14, <1>15, <1>16, <1>17, <1>19, <1>20
         DEF ClientNext

-----------------------------------------------------------------------------
(* The theorems.                                                             *)

\* The types, who holds pc_mutex, and what a mapping has seen of the table.
THEOREM PageCacheInvariant == Spec => []IInv
<1>1. IInv /\ [Next]_vars => IInv'
  <2> SUFFICES ASSUME IInv, [Next]_vars PROVE IInv'
    OBVIOUS
  <2>1. CASE ThreadNext
    <3>1. TypeInv'
      BY <2>1, ThreadTypes DEF IInv
    <3> QED  BY <2>1, <3>1, ThreadKeeps DEF IInv
  <2>2. ASSUME NEW c \in Clients, ClientNext(c) PROVE IInv'
    <3>1. TypeInv'
      BY <2>2, ClientTypes DEF IInv
    <3> QED  BY <2>2, <3>1, ClientKeeps DEF IInv
  <2>3. CASE UNCHANGED vars
    BY <2>3 DEF IInv, TypeInv, LocksType, PagesType, DeviceType, GhostsType, CallsType,
                ProcsType, HoldsPc, Distinct, MappingInv, Seen, AloneAt, Live, vars, locks,
                pages, device, ghosts, calls
  <2> QED  BY <2>1, <2>2, <2>3 DEF Next
<1> QED  BY <1>1, InitHolds, PTL DEF Spec

\* The types of the locks, the pages, the device and the clients' handles: no
\* step of a mapping, a write-back or an eviction leaves them.
THEOREM TypeCorrect == Spec => []TypeOK
<1>1. IInv => TypeOK
  BY DEF IInv, TypeInv, LocksType, PagesType, DeviceType, GhostsType, CallsType, ProcsType,
         TypeOK
<1> QED  BY <1>1, PageCacheInvariant, PTL

\* However many clients map at once, and whatever is evicted under them without
\* pc_mutex, a block address is cached by one page only.
THEOREM AddressesDistinct == Spec => []PagesDistinct
<1>1. IInv => PagesDistinct
  BY DEF IInv, Distinct, Live, PagesDistinct
<1> QED  BY <1>1, PageCacheInvariant, PTL

=============================================================================
