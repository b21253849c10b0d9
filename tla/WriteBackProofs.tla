--------------------------- MODULE WriteBackProofs ---------------------------
(* Proofs about PageCache with one careful client, for every device, table and *)
(* set of extents that do not overlap: blocks and pages hold data of their own *)
(* block, no write of the client is lost, a page that is mapped shows the       *)
(* newest data, and the whole implements the write-back store of WriteBack.    *)
EXTENDS PageCacheProofs

\* What is assumed of the client and of the extents it maps: two at different
\* addresses have no block in common.
OneCareful == Careful = TRUE /\ \A c, d \in Clients : c = d
Apart ==
  \A e, f \in Extents : e[1] # f[1] => e[1] + e[2] <= f[1] \/ f[1] + f[2] <= e[1]

-----------------------------------------------------------------------------
(* The inductive invariant, on top of IInv.                                  *)

InCall == {"pc_lock"} \union Mapping
\* The client has looked at the table, and has the page it maps or room for it.
Busy   == (Growing \ {"grow"}) \union MakingRoom \union {"malloc"} \union Reading
\* By now all data is on the device.
Synced == {"realloc", "malloc"} \union MakingRoom \union Reading

Stored(b)      == disk[b] = <<b, newest[b]>>
ShowsNewest(i) == \A b \in Covered(i) : At(i, b) = <<b, newest[b]>>
ShowsBlank(i)  == \A j \in 1 .. Len(mem[i]) : mem[i][j] = Blank
AtMark(i)      == \E c \in Clients : pc[c] = "mark" /\ handle[c] = i

\* A page of the table is either clean or dirty.
FlagsInv ==
  \A i \in Slots : IF Live(i) THEN "CLEAN" \in ce_flags[i] <=> "DIRTY" \notin ce_flags[i]
                   ELSE ce_flags[i] = {}

\* A page is mapped to an extent and has the memory for it, unless a realloc()
\* failed, or is not mapped yet.
Mapped(i) ==
  /\ \E e \in Extents : ce_id[i] = e[1] /\ pe_num_blocks[i] = e[2]
  /\ mem[i] = <<>> \/ Len(mem[i]) = pe_num_blocks[i]
Bare(i) == ce_id[i] = NoAddr /\ mem[i] = <<>> /\ "DIRTY" \notin ce_flags[i]
ExtentInv == \A i \in Slots : Live(i) => Mapped(i) \/ Bare(i)

WantInv == \A c \in Clients : pc[c] \in InCall => want[c] \in Extents

\* The page that is held is in the table and big enough, and not to be evicted.
Held(c) ==
  /\ Live(handle[c]) /\ "EVICT" \notin ce_flags[handle[c]]
  /\ ce_id[handle[c]] # NoAddr /\ want[c][2] <= pe_num_blocks[handle[c]]
HandleInv ==
  \A c \in Clients : handle[c] # NoPage => pc[c] \in {"idle", "mark"} /\ Held(c)

\* A page shows the newest data, or is still as pgcache_element_map_zero() left it.
Fresh(i) ==
  /\ ShowsBlank(i) /\ "DIRTY" \notin ce_flags[i]
  /\ \E c \in Clients : pc[c] = "idle" /\ handle[c] = i
PageInv == \A i \in Slots : Live(i) /\ mem[i] # <<>> => ShowsNewest(i) \/ Fresh(i)

\* What the client waited for before it mapped a page holds until it has it.
CallInv ==
  \A c \in Clients : pc[c] \in InCall =>
    \A i \in Slots :
      /\ "EVICT" \notin ce_flags[i]
      /\ slot[i] = "freed" => pc[c] = "new" /\ cur[c] = i
      /\ Live(i) /\ ce_id[i] # want[c][1] => "CLEAN" \in ce_flags[i]

\* So there is nothing to write back but the page that grows, and nobody else
\* moves the file offset.
ClientAt(c) ==
  /\ pc[c] \notin {"victim_seek", "victim_write"}
  /\ pc[c] \in Growing \union Reading \union {"malloc"} => Live(cur[c])
  /\ pc[c] = "malloc" => ce_id[cur[c]] = NoAddr
  /\ pc[c] \in Growing \ {"grow"} => ce_mutex[cur[c]] = c
  /\ pc[c] \in Reading => ce_mutex[cur[c]] = c \/ "CLEAN" \in ce_flags[cur[c]]
  /\ pc[c] = "grow_write" => offset = ce_id[cur[c]]
  /\ pc[c] = "read" => offset = want[c][1]
  /\ pc[c] \in Synced => \A b \in Blocks : Stored(b)
StepInv == \A c \in Clients : ClientAt(c)

\* The thread has locked the page it writes, the flags it has copied are still
\* set, and while it writes the offset is its own.
ThreadLabels == {"idle", "lock", "seek", "write", "settle", "free", "clear"}
ThreadAt(i, label) ==
  /\ label \in ThreadLabels
  /\ label \in ThreadLabels \ {"idle", "clear"} => Live(i)
  /\ label \in {"lock", "seek", "write", "settle"} => seen \ {"CLEAN"} \subseteq ce_flags[i]
  /\ label = "lock" => /\ seen \intersect {"DIRTY", "EVICT"} # {}
                       /\ "DIRTY" \notin seen => "DIRTY" \notin ce_flags[i]
  /\ label \in {"seek", "write", "settle"} => "DIRTY" \in seen
  /\ label \in {"seek", "write", "settle", "free"} => ce_mutex[i] = Thread
  /\ label = "write" => offset = ce_id[i]
  /\ label = "settle" => \A b \in Covered(i) : Stored(b) \/ AtMark(i)
  /\ label = "free" => "EVICT" \in ce_flags[i] /\ "DIRTY" \notin ce_flags[i]
  /\ label = "clear" => slot[i] = "freed" /\ \A c \in Clients : pc[c] \notin InCall
ThreadInv == ThreadAt(cur[Thread], pc[Thread])

\* Versions are given out in order.
ClockInv == \A b \in Blocks : newest[b] <= clock

TableInv == FlagsInv /\ ExtentInv /\ PageInv /\ NothingLost /\ ClockInv
ActorInv == WantInv /\ HandleInv /\ CallInv /\ StepInv /\ ThreadInv
WInv == IInv /\ TableInv /\ ActorInv

-----------------------------------------------------------------------------
(* Lemmas.                                                                   *)

\* Functions and what they range over, and that slots, processes and addresses
\* are not confused with "none".
LEMMA Types ==
  ASSUME IInv
  PROVE  /\ ce_mutex \in [Slots -> Procs \union {NoOne}]
         /\ slot \in [Slots -> {"empty", "live", "freed"}]
         /\ ce_flags \in [Slots -> SUBSET {"CLEAN", "DIRTY", "EVICT"}]
         /\ ce_id \in [Slots -> Blocks \union {NoAddr}] /\ pe_num_blocks \in [Slots -> Nat]
         /\ mem \in [Slots -> Seq(Contents)]
         /\ offset \in Nat /\ disk \in [Blocks -> Contents]
         /\ newest \in [Blocks -> 0 .. MaxWrites] /\ clock \in 0 .. MaxWrites
         /\ want = [c \in Clients |-> want[c]] /\ zero = [c \in Clients |-> zero[c]]
         /\ \A c \in Clients : want[c][1] \in Blocks /\ want[c][2] \in Nat \ {0}
         /\ handle \in [Clients -> Slots \union {NoPage}]
         /\ pc \in [Procs -> Labels] /\ cur \in [Procs -> Slots]
         /\ seen \subseteq {"CLEAN", "DIRTY", "EVICT"}
BY DEF IInv, TypeInv, LocksType, PagesType, DeviceType, GhostsType, CallsType, ProcsType

\* What PagesAssumption says of processes, addresses and extents.
LEMMA Constants ==
  /\ Thread \in Procs /\ Thread \notin Clients /\ Clients \subseteq Procs
  /\ NoOne \notin Procs /\ NoPage \notin Slots /\ NoAddr \notin Blocks /\ Blocks \subseteq Nat
  /\ \A e \in Extents : e[1] \in Blocks /\ e[2] \in Nat \ {0}
BY Someone, PagesAssumption DEF NoAddr

\* While the client is busy the thread has no page to work on, but for the one
\* that the client has locked.
LEMMA ThreadQuiet ==
  ASSUME WInv, NEW c \in Clients, pc[c] \in Busy
  PROVE  /\ pc[Thread] \in {"idle", "lock"}
         /\ pc[c] \in MakingRoom \union {"malloc"} => pc[Thread] = "idle"
<1> DEFINE i == cur[Thread]
           k == cur[c]
<1>1. i \in Slots /\ k \in Slots /\ c \in Procs /\ c # Thread /\ Busy \subseteq InCall
  BY Constants, Types DEF WInv, Busy, InCall, Mapping
<1>2. ThreadAt(i, pc[Thread]) /\ ClientAt(c) /\ Seen(c)
  BY DEF WInv, ActorInv, ThreadInv, StepInv, IInv, MappingInv
<1>3. "EVICT" \notin ce_flags[i] /\ (Live(i) /\ ce_id[i] # want[c][1] => "CLEAN" \in ce_flags[i])
  BY <1>1 DEF WInv, ActorInv, CallInv
<1> HIDE DEF i, k
<1>4. ASSUME Live(i), "DIRTY" \in ce_flags[i]
      PROVE  pc[c] \notin MakingRoom \union {"malloc"} /\ ce_mutex[i] = c
  <2>1. ce_id[i] = want[c][1]
    BY <1>1, <1>3, <1>4 DEF WInv, TableInv, FlagsInv
  <2>2. pc[c] \notin MakingRoom
    BY <1>1, <1>2, <2>1, <1>4 DEF Seen
  <2>3. pc[c] = "malloc" => i = k
    BY <1>1, <1>2, <2>1, <1>4 DEF Seen, AloneAt, k
  <2>4. pc[c] # "malloc"
    BY <1>1, <1>2, <2>1, <2>3, Constants, Types DEF ClientAt, k, WInv
  <2>5. pc[c] \in Reading \union Growing /\ Live(k)
    BY <1>2, <2>2, <2>4 DEF Busy, ClientAt, k
  <2>6. i = k
    BY <1>1, <1>2, <2>1, <2>5, <1>4, Constants, Types
       DEF Seen, AloneAt, k, WInv, IInv, Distinct
  <2>7. "CLEAN" \notin ce_flags[k]
    BY <1>1, <1>4, <2>6 DEF WInv, TableInv, FlagsInv
  <2> QED  BY <1>2, <2>2, <2>4, <2>6, <2>7 DEF ClientAt, k, Busy
<1>5. pc[Thread] # "clear" /\ pc[Thread] # "free"
  BY <1>1, <1>2, <1>3 DEF ThreadAt
<1>6. pc[Thread] \notin {"seek", "write", "settle"}
  <2> SUFFICES ASSUME pc[Thread] \in {"seek", "write", "settle"} PROVE FALSE
    OBVIOUS
  <2>1. Live(i) /\ "DIRTY" \in ce_flags[i] /\ ce_mutex[i] = Thread
    BY <1>2 DEF ThreadAt, ThreadLabels
  <2> QED  BY <1>1, <1>4, <2>1
<1>7. pc[Thread] = "lock" => Live(i) /\ "DIRTY" \in ce_flags[i]
  BY <1>2, <1>3, Types DEF ThreadAt, ThreadLabels, WInv
<1> QED  BY <1>2, <1>4, <1>5, <1>6, <1>7 DEF ThreadAt, ThreadLabels

\* A page without memory has no blocks.
LEMMA NoMemory ==
  ASSUME IInv, NEW i \in Slots, mem[i] = <<>>
  PROVE  Covered(i) = {} /\ ShowsNewest(i)
<1>1. Len(mem[i]) = 0 /\ ce_id[i] \in Int
  <2>1. Len(<<>>) = 0
    BY EmptySeq
  <2> QED  BY <2>1, Types, Constants DEF NoAddr
<1> DEFINE a == ce_id[i]
           n == Len(mem[i])
<1>2. Covered(i) = {b \in Blocks : b \in a .. a + n - 1}
  BY DEF Covered
<1>3. n = 0 /\ a \in Int
  BY <1>1
<1> HIDE DEF a, n
<1>4. Covered(i) = {}
  <2>1. ASSUME NEW b \in Blocks, b \in a .. a + n - 1 PROVE FALSE
    <3>1. b \in Int
      BY Constants
    <3> QED  BY <1>3, <2>1, <3>1
  <2> QED  BY <1>2, <2>1
<1> QED  BY <1>4 DEF ShowsNewest

\* Intervals that are apart stay so when they are cut short.
LEMMA IntervalsApart ==
  ASSUME NEW a \in Nat, NEW m \in Nat, NEW b \in Nat, NEW n \in Nat, NEW k, NEW l,
         k \in Nat, k <= m, l \in Nat, l <= n, a + m <= b \/ b + n <= a
  PROVE  \A x \in Nat : ~(x \in a .. a + k - 1 /\ x \in b .. b + l - 1)
OBVIOUS

\* Two pages have no block in common.
LEMMA PagesApart ==
  ASSUME Apart, IInv, ExtentInv, NEW i \in Slots, NEW j \in Slots, i # j, Live(i), Live(j)
  PROVE  Covered(i) \intersect Covered(j) = {}
<1>1. ASSUME NEW k \in Slots, Bare(k) PROVE Covered(k) = {}
  BY <1>1, NoMemory DEF Bare
<1>2. CASE Bare(i) \/ Bare(j)
  BY <1>1, <1>2
<1>3. CASE Mapped(i) /\ Mapped(j)
  <2>1. PICK e \in Extents : ce_id[i] = e[1] /\ pe_num_blocks[i] = e[2]
    BY <1>3 DEF Mapped
  <2>2. PICK f \in Extents : ce_id[j] = f[1] /\ pe_num_blocks[j] = f[2]
    BY <1>3 DEF Mapped
  <2>3. e[1] # f[1]
    BY <2>1, <2>2, Constants DEF IInv, Distinct
  <2>4. Len(mem[i]) <= e[2] /\ Len(mem[j]) <= f[2] /\ Len(mem[i]) \in Nat /\ Len(mem[j]) \in Nat
    BY <1>3, <2>1, <2>2, Constants DEF Mapped
  <2>5. e[1] + e[2] <= f[1] \/ f[1] + f[2] <= e[1]
    BY <2>3 DEF Apart
  <2>6. e[1] \in Nat /\ e[2] \in Nat /\ f[1] \in Nat /\ f[2] \in Nat
    BY Constants
  <2>7. \A b \in Nat :
          ~(b \in e[1] .. e[1] + Len(mem[i]) - 1 /\ b \in f[1] .. f[1] + Len(mem[j]) - 1)
    BY <2>4, <2>5, <2>6, IntervalsApart
  <2> QED  BY <2>1, <2>2, <2>7, Constants DEF Covered
<1> QED  BY <1>2, <1>3 DEF ExtentInv

\* A page written at its own address brings its blocks up to date.
LEMMA WriteOut ==
  ASSUME IInv, NEW i \in Slots, offset = ce_id[i], ShowsNewest(i)
  PROVE  Written(i) = [b \in Blocks |-> IF b \in Covered(i) THEN <<b, newest[b]>> ELSE disk[b]]
<1>1. \A b \in Blocks : b \in offset .. offset + Len(mem[i]) - 1 <=> b \in Covered(i)
  BY DEF Covered
<1>2. \A b \in Covered(i) : mem[i][b - offset + 1] = <<b, newest[b]>>
  BY DEF ShowsNewest, At
<1> QED  BY <1>1, <1>2 DEF Written

\* A page of zeros shows nothing else at any of its blocks.
LEMMA BlankCovered ==
  ASSUME IInv, NEW i \in Slots, ShowsBlank(i), NEW b \in Covered(i)
  PROVE  At(i, b) = Blank
<1>1. b \in Int /\ ce_id[i] \in Int /\ b \in ce_id[i] .. ce_id[i] + Len(mem[i]) - 1
  BY Types, Constants DEF Covered, NoAddr
<1>2. Len(mem[i]) \in Nat
  BY Types, LenProperties
<1>3. b - ce_id[i] + 1 \in 1 .. Len(mem[i])
  BY <1>1, <1>2
<1> QED  BY <1>3 DEF ShowsBlank, At

-----------------------------------------------------------------------------
(* Steps of the thread.                                                      *)

\* What any step of the thread does to the pages and to the client: it cleans
\* the page it has written, and takes the one it evicts out of the table.
ThreadLeaves(t) ==
  /\ ce_id' = ce_id /\ pe_num_blocks' = pe_num_blocks
  /\ newest' = newest /\ clock' = clock
  /\ want' = want /\ handle' = handle
  /\ \A c \in Clients : pc'[c] = pc[c] /\ cur'[c] = cur[c]
  /\ \A i \in Slots :
       /\ Live(i)' => /\ Live(i) /\ mem'[i] = mem[i]
                      /\ \/ ce_flags'[i] = ce_flags[i]
                         \/ /\ i = t /\ pc[Thread] = "settle"
                            /\ ce_flags'[i] = (ce_flags[i] \ {"DIRTY"}) \union {"CLEAN"}
       /\ ~Live(i)' => ce_flags'[i] = {}
       /\ Live(i) /\ ~Live(i)' => i = t /\ pc[Thread] = "free"
       /\ slot'[i] = "freed" => slot[i] = "freed" \/ pc[Thread] = "free"

\* Every step of pgcache_thread() and of the cache thread that calls it.
LEMMA ThreadLeavesAll ==
  ASSUME WInv, ThreadNext
  PROVE  ThreadLeaves(cur[Thread])
<1> USE Constants, Types DEF vars, locks, pages, device, ghosts, calls, WInv
<1> DEFINE t == cur[Thread]
<1>1. t \in Slots /\ ThreadAt(t, pc[Thread]) /\ FlagsInv
  BY DEF ActorInv, ThreadInv, TableInv
<1>2. CASE UNCHANGED pages /\ ThreadNext
  BY <1>1, <1>2 DEF ThreadLeaves, ThreadNext, ThreadReads, ThreadLocks, FlushSeek, FlushWrite,
            ThreadSettles, ThreadFrees, ThreadClears, Step, Goto, Live, FlagsInv
<1>3. CASE ThreadSettles
  BY <1>1, <1>3 DEF ThreadLeaves, ThreadSettles, Cleaned, Step, Goto, Live, FlagsInv,
                    ThreadAt, ThreadLabels
<1>4. CASE ThreadFrees
  BY <1>1, <1>4 DEF ThreadLeaves, ThreadFrees, FreePage, Step, Goto, Live, FlagsInv
<1>5. CASE ThreadClears
  BY <1>1, <1>5 DEF ThreadLeaves, ThreadClears, Step, Goto, Live, FlagsInv,
                    ThreadAt, ThreadLabels
<1> QED  BY <1>2, <1>3, <1>4, <1>5
         DEF ThreadNext, ThreadReads, ThreadLocks, FlushSeek, FlushWrite

\* What it does to the device: one of its writes brings the page's blocks up to
\* date, anything else leaves it alone.
LEMMA ThreadWrites ==
  ASSUME WInv, ThreadNext
  PROVE  \/ pc[Thread] # "write" /\ UNCHANGED disk
         \/ /\ pc[Thread] = "write" /\ pc'[Thread] = "settle"
            /\ disk' = [b \in Blocks |-> IF b \in Covered(cur[Thread]) THEN <<b, newest[b]>>
                                         ELSE disk[b]]
<1> USE DEF vars, locks, pages, device, ghosts, calls
<1>1. CASE FlushWrite(Thread, "write", "settle")
  <2> DEFINE t == cur[Thread]
  <2>1. t \in Slots /\ ThreadAt(t, "write") /\ pc[Thread] = "write" /\ pc'[Thread] = "settle"
    BY <1>1, Constants, Types
       DEF WInv, ActorInv, ThreadInv, FlushWrite, Step, Goto
  <2>2. Live(t) /\ offset = ce_id[t] /\ "DIRTY" \in ce_flags[t]
    BY <2>1 DEF ThreadAt, ThreadLabels
  <2>3. mem[t] # <<>> => ShowsNewest(t)
    BY <2>1, <2>2 DEF WInv, TableInv, PageInv, Fresh
  <2>5. ShowsNewest(t)
    BY <2>1, <2>3, NoMemory DEF WInv
  <2>6. disk' = Written(t)
    BY <1>1 DEF FlushWrite, Write
  <2> QED  BY <2>1, <2>2, <2>5, <2>6, WriteOut DEF WInv
<1>2. CASE pc[Thread] # "write" /\ UNCHANGED disk
  BY <1>2
<1> QED  BY <1>1, <1>2 DEF ThreadNext, ThreadReads, ThreadLocks, FlushSeek, LSeek,
                           ThreadSettles, ThreadFrees, ThreadClears, Step

\* So what is on the device stays.
LEMMA ThreadStores ==
  ASSUME WInv, ThreadNext, NEW b \in Blocks, Stored(b)
  PROVE  Stored(b)'
<1>1. newest' = newest
  BY ThreadLeavesAll DEF ThreadLeaves
<1> QED  BY <1>1, ThreadWrites DEF Stored

\* The thread keeps what is said of pages, flags and data: what it cleans is stored.
LEMMA ThreadTable ==
  ASSUME WInv, ThreadNext
  PROVE  TableInv'
<1> DEFINE t == cur[Thread]
<1>1. t \in Slots /\ ThreadLeaves(t) /\ ThreadAt(t, pc[Thread])
  BY ThreadLeavesAll, Constants, Types DEF WInv, ActorInv, ThreadInv
<1> HIDE DEF t
<1>2. FlagsInv'
  BY <1>1 DEF ThreadLeaves, WInv, TableInv, FlagsInv
<1>3. ExtentInv'
  BY <1>1 DEF ThreadLeaves, WInv, TableInv, ExtentInv, Mapped, Bare
<1>4. \A i \in Slots : Live(i)' => /\ Covered(i)' = Covered(i)
                                   /\ \A b \in Blocks : At(i, b)' = At(i, b)
  BY <1>1 DEF ThreadLeaves, Covered, At
<1>5. PageInv'
  <2> SUFFICES ASSUME NEW i \in Slots, Live(i)', mem'[i] # <<>>
               PROVE  ShowsNewest(i)' \/ Fresh(i)'
    BY DEF PageInv
  <2>1. Live(i) /\ mem'[i] = mem[i]
    BY <1>1 DEF ThreadLeaves
  <2>2. CASE ShowsNewest(i)
    BY <1>1, <1>4, <2>2 DEF ShowsNewest, ThreadLeaves, Covered
  <2>3. CASE Fresh(i)
    BY <1>1, <2>1, <2>3 DEF Fresh, ThreadLeaves, ShowsBlank
  <2> QED  BY <2>1, <2>2, <2>3 DEF WInv, TableInv, PageInv
<1>6. NothingLost'
  <2> SUFFICES ASSUME NEW b \in Blocks, ~Stored(b)'
               PROVE  \E i \in Slots :
                        /\ slot'[i] = "live" /\ b \in Covered(i)' /\ At(i, b)' = <<b, newest'[b]>>
                        /\ \/ "DIRTY" \in ce_flags'[i]
                           \/ \E c \in Clients : pc'[c] = "mark" /\ handle'[c] = i
    BY DEF NothingLost, Stored
  <2>1. ~Stored(b)
    BY ThreadStores
  <2>2. PICK i \in Slots :
               /\ Live(i) /\ b \in Covered(i) /\ At(i, b) = <<b, newest[b]>>
               /\ "DIRTY" \in ce_flags[i] \/ AtMark(i)
    BY <2>1 DEF WInv, TableInv, NothingLost, Stored, Live, AtMark
  <2>3. ~(i = t /\ pc[Thread] = "free")
    <3>1. "EVICT" \in ce_flags[i] => ~AtMark(i)
      BY Constants DEF WInv, ActorInv, HandleInv, Held, AtMark
    <3> QED  BY <1>1, <2>2, <3>1 DEF ThreadAt
  <2>4. i = t /\ pc[Thread] = "settle" => AtMark(i)
    BY <1>1, <2>1, <2>2 DEF ThreadAt
  <2>5. Live(i)'
    BY <1>1, <2>2, <2>3 DEF ThreadLeaves
  <2>6. "DIRTY" \in ce_flags'[i] \/ AtMark(i)
    BY <1>1, <2>2, <2>4, <2>5 DEF ThreadLeaves
  <2>7. newest' = newest /\ (AtMark(i) => \E c \in Clients : pc'[c] = "mark" /\ handle'[c] = i)
    BY <1>1 DEF ThreadLeaves, AtMark
  <2> QED  BY <1>4, <2>2, <2>5, <2>6, <2>7 DEF Live
<1>7. ClockInv'
  BY <1>1 DEF ThreadLeaves, WInv, TableInv, ClockInv
<1> QED  BY <1>2, <1>3, <1>5, <1>6, <1>7 DEF TableInv

\* The thread keeps what it and the client count on from step to step.
LEMMA ThreadActor ==
  ASSUME WInv, ThreadNext
  PROVE  ActorInv'
<1> DEFINE t == cur[Thread]
<1>1. t \in Slots /\ ThreadLeaves(t) /\ ThreadAt(t, pc[Thread])
  BY ThreadLeavesAll, Constants, Types DEF WInv, ActorInv, ThreadInv
<1> HIDE DEF t
<1>2. WantInv'
  BY <1>1 DEF ThreadLeaves, WInv, ActorInv, WantInv
<1>3. HandleInv'
  <2> SUFFICES ASSUME NEW c \in Clients, handle[c] # NoPage
               PROVE  pc[c] \in {"idle", "mark"} /\ Held(c)'
    BY <1>1 DEF HandleInv, ThreadLeaves
  <2>1. pc[c] \in {"idle", "mark"} /\ Held(c) /\ handle[c] \in Slots
    BY Types, Constants DEF WInv, ActorInv, HandleInv
  <2>2. Live(handle[c])'
    BY <1>1, <2>1 DEF ThreadLeaves, ThreadAt, Held
  <2> QED  BY <1>1, <2>1, <2>2 DEF ThreadLeaves, Held
\* A page that is taken out of the table was to be evicted.
<1>4. ASSUME NEW c \in Clients, pc[c] \in InCall
      PROVE  pc[Thread] # "free" /\ UNCHANGED slot
  <2>1. pc[Thread] # "free" /\ pc[Thread] # "clear"
    BY <1>1, <1>4 DEF WInv, ActorInv, CallInv, ThreadAt
  <2> QED  BY <2>1 DEF ThreadNext, ThreadReads, ThreadLocks, FlushSeek, FlushWrite,
                       ThreadSettles, ThreadFrees, ThreadClears, Step, pages
<1>5. CallInv'
  <2> SUFFICES ASSUME NEW c \in Clients, pc[c] \in InCall, NEW i \in Slots
               PROVE  /\ "EVICT" \notin ce_flags'[i]
                      /\ slot'[i] = "freed" => pc[c] = "new" /\ cur[c] = i
                      /\ Live(i)' /\ ce_id[i] # want[c][1] => "CLEAN" \in ce_flags'[i]
    BY <1>1 DEF CallInv, ThreadLeaves
  <2> QED  BY <1>1, <1>4 DEF WInv, ActorInv, CallInv, ThreadLeaves
<1>6. StepInv'
  <2> SUFFICES ASSUME NEW c \in Clients PROVE ClientAt(c)'
    BY DEF StepInv
  <2>1. ClientAt(c) /\ pc'[c] = pc[c] /\ cur'[c] = cur[c] /\ want' = want /\ ce_id' = ce_id
    BY <1>1 DEF WInv, ActorInv, StepInv, ThreadLeaves
  <2>2. CASE pc[c] \notin InCall
    BY <2>1, <2>2 DEF ClientAt, InCall, Mapping, Growing, Reading, MakingRoom, Synced
  <2>3. CASE pc[c] \in InCall \ Busy
    BY <1>4, <2>1, <2>3 DEF ClientAt, InCall, Mapping, Growing, Reading, MakingRoom,
                            Synced, Busy, Live
  <2>4. CASE pc[c] \in Busy
    <3>1. /\ UNCHANGED <<slot, ce_flags, device>>
          /\ \A i \in Slots : ce_mutex[i] \in Clients => ce_mutex'[i] = ce_mutex[i]
      BY <2>4, ThreadQuiet, Constants, Types
         DEF WInv, ThreadNext, ThreadReads, ThreadLocks, FlushSeek, FlushWrite, ThreadSettles,
             ThreadFrees, ThreadClears, Step, pages, device
    <3>2. cur[c] \in Slots /\ newest' = newest
      BY <1>1, Constants, Types DEF WInv, ThreadLeaves
    <3> QED  BY <2>1, <2>4, <3>1, <3>2
             DEF ClientAt, device, Live, Stored, Growing, Reading, MakingRoom, Synced, Busy
  <2> QED  BY <2>2, <2>3, <2>4 DEF InCall
<1>7. ThreadInv'
  <2>1. CASE ThreadReads
    <3>1. PICK i \in Slots :
            /\ slot[i] = "live" /\ ce_flags[i] \intersect {"DIRTY", "EVICT"} # {}
            /\ cur' = [cur EXCEPT ![Thread] = i] /\ seen' = ce_flags[i]
      BY <2>1 DEF ThreadReads
    <3>2. cur'[Thread] = i /\ pc'[Thread] = "lock" /\ UNCHANGED <<slot, ce_flags>>
      BY <2>1, <3>1, Constants, Types DEF WInv, ThreadReads, Goto, pages
    <3> QED  BY <3>1, <3>2 DEF ThreadInv, ThreadAt, ThreadLabels, Live
  <2>2. CASE ThreadLocks
    <3>1. /\ cur' = cur /\ pc[Thread] = "lock" /\ UNCHANGED <<slot, ce_flags, seen>>
          /\ \/ pc'[Thread] = "idle"
             \/ pc'[Thread] = WorkOn(seen) /\ ce_mutex'[t] = Thread
      BY <1>1, <2>2, Constants, Types DEF WInv, ThreadLocks, Step, Goto, pages, t
    <3> QED  BY <1>1, <3>1 DEF ThreadInv, ThreadAt, ThreadLabels, Live, WorkOn, t
  <2>3. CASE FlushSeek(Thread, "seek", "write")
    <3>1. /\ cur' = cur /\ pc[Thread] = "seek" /\ pc'[Thread] = "write"
          /\ UNCHANGED <<slot, ce_flags, seen, ce_mutex, ce_id>>
          /\ offset' = pe_block_addr(t)
      BY <1>1, <2>3, Constants, Types
         DEF WInv, FlushSeek, LSeek, Step, Goto, pages, locks, t
    <3>2. "DIRTY" \in ce_flags[t] /\ Live(t)
      BY <1>1, <3>1 DEF ThreadAt, ThreadLabels
    <3>3. Mapped(t)
      BY <1>1, <3>2 DEF WInv, TableInv, ExtentInv, Bare
    <3>4. ce_id[t] # NoAddr
      BY <3>3, Constants DEF Mapped
    <3> QED  BY <1>1, <3>1, <3>4
             DEF ThreadInv, ThreadAt, ThreadLabels, Live, pe_block_addr, t
  <2>4. CASE FlushWrite(Thread, "write", "settle")
    <3>1. /\ cur' = cur /\ pc[Thread] = "write" /\ pc'[Thread] = "settle"
          /\ UNCHANGED <<slot, ce_flags, seen, ce_mutex, ce_id, mem>>
      BY <1>1, <2>4, Constants, Types
         DEF WInv, FlushWrite, Step, Goto, pages, locks, t
    <3>2. \A b \in Covered(t) : Stored(b)'
      BY <1>1, <3>1, ThreadWrites DEF Stored, Covered, t, ThreadLeaves
    <3> QED  BY <1>1, <3>1, <3>2 DEF ThreadInv, ThreadAt, ThreadLabels, Live, t, Covered
  <2>5. CASE ThreadSettles
    <3>1. /\ cur' = cur /\ pc[Thread] = "settle" /\ UNCHANGED slot
          /\ ce_flags'[t] = (ce_flags[t] \ {"DIRTY"}) \union {"CLEAN"}
          /\ \/ pc'[Thread] = "idle"
             \/ pc'[Thread] = "free" /\ "EVICT" \in seen /\ UNCHANGED ce_mutex
      BY <1>1, <2>5, Constants, Types
         DEF WInv, ThreadSettles, Cleaned, Step, Goto, locks, t
    <3> QED  BY <1>1, <3>1 DEF ThreadInv, ThreadAt, ThreadLabels, Live, t
  <2>6. CASE ThreadFrees
    <3>1. cur' = cur /\ pc[Thread] = "free" /\ pc'[Thread] = "clear" /\ slot'[t] = "freed"
      BY <1>1, <2>6, Constants, Types DEF WInv, ThreadFrees, FreePage, Step, Goto, t
    <3>2. \A c \in Clients : pc'[c] \notin InCall
      BY <1>1, <1>4, <3>1 DEF ThreadLeaves
    <3> QED  BY <3>1, <3>2 DEF ThreadInv, ThreadAt, ThreadLabels, t
  <2>7. CASE ThreadClears
    <3>1. pc'[Thread] = "idle"
      BY <2>7, Constants, Types DEF WInv, ThreadClears, Step, Goto
    <3> QED  BY <3>1 DEF ThreadInv, ThreadAt, ThreadLabels
  <2> QED  BY <2>1, <2>2, <2>3, <2>4, <2>5, <2>6, <2>7 DEF ThreadNext
<1> QED  BY <1>2, <1>3, <1>5, <1>6, <1>7 DEF ActorInv

-----------------------------------------------------------------------------
(* Steps of the client: pages and device.                                    *)

\* No page is as pgcache_element_map_zero() left it, unless the client holds it.
LEMMA AllShowNewest ==
  ASSUME OneCareful, WInv, NEW c \in Clients, pc[c] # "idle" \/ ~IsBlank(handle[c]),
         NEW i \in Slots, Live(i)
  PROVE  ShowsNewest(i)
<1>1. CASE mem[i] = <<>>
  BY <1>1, NoMemory DEF WInv
<1>2. CASE mem[i] # <<>>
  <2>1. SUFFICES ASSUME Fresh(i) PROVE FALSE
    BY <1>2 DEF WInv, TableInv, PageInv
  <2>2. ~IsBlank(i)
    BY <2>1 DEF Fresh, OneCareful
  <2>3. Len(mem[i]) \in Nat /\ Len(mem[i]) # 0
    BY <1>2, Types, EmptySeq, LenProperties DEF WInv
  <2>4. mem[i][1] = Blank
    BY <2>1, <2>3 DEF Fresh, ShowsBlank
  <2> QED  BY <1>2, <2>2, <2>4, Constants DEF IsBlank
<1> QED  BY <1>1, <1>2

\* During a mapping nobody is about to mark a page.
LEMMA NothingToMark ==
  ASSUME OneCareful, NEW c \in Clients, pc[c] # "mark"
  PROVE  \A i \in Slots : ~AtMark(i)
BY DEF AtMark, OneCareful

\* When every page of the table is clean all data is on the device.
LEMMA AllStored ==
  ASSUME OneCareful, WInv, NEW c \in Clients, pc[c] # "mark",
         \A i \in Slots : Live(i) => "DIRTY" \notin ce_flags[i]
  PROVE  \A b \in Blocks : Stored(b)
BY NothingToMark DEF WInv, TableInv, NothingLost, Stored, AtMark, Live

\* A step that does nothing to the pages and the blocks but mark one for eviction.
LEMMA TableStays ==
  ASSUME OneCareful, WInv, NEW c \in Clients,
         UNCHANGED <<slot, ce_id, pe_num_blocks, mem, disk, ghosts>>,
         \A i \in Slots : \/ ce_flags'[i] = ce_flags[i]
                          \/ Live(i) /\ ce_flags'[i] = ce_flags[i] \union {"EVICT"},
         pc[c] # "mark", pc[c] # "idle" \/ ~IsBlank(handle[c])
  PROVE  TableInv'
<1> USE DEF ghosts
<1>1. FlagsInv'
  BY DEF WInv, TableInv, FlagsInv, Live
<1>2. ExtentInv' /\ ClockInv'
  BY DEF WInv, TableInv, ExtentInv, ClockInv, Mapped, Bare, Live
<1>3. \A i \in Slots : Live(i)' => ShowsNewest(i)'
  BY AllShowNewest DEF Live, ShowsNewest, Covered, At
<1>4. NothingLost'
  <2>1. ASSUME NEW b \in Blocks, ~Stored(b)
        PROVE  \E i \in Slots : /\ Live(i)' /\ b \in Covered(i)' /\ At(i, b)' = <<b, newest[b]>>
                                /\ "DIRTY" \in ce_flags'[i]
    <3>1. PICK i \in Slots : /\ Live(i) /\ b \in Covered(i) /\ At(i, b) = <<b, newest[b]>>
                             /\ "DIRTY" \in ce_flags[i] \/ AtMark(i)
      BY <2>1 DEF WInv, TableInv, NothingLost, Stored, AtMark, Live
    <3>2. "DIRTY" \in ce_flags'[i]
      BY <3>1, NothingToMark
    <3> QED  BY <3>1, <3>2 DEF Live, Covered, At
  <2> QED  BY <2>1 DEF NothingLost, Stored, Live
<1> QED  BY <1>1, <1>2, <1>3, <1>4 DEF TableInv, PageInv

\* What is on the device is not lost whatever happens to the pages.
LEMMA NothingToLose ==
  ASSUME WInv, NEW c \in Clients, pc[c] \in Synced, UNCHANGED <<disk, newest>>
  PROVE  NothingLost'
BY DEF WInv, ActorInv, StepInv, ClientAt, Stored, NothingLost

\* Of a client that maps there is no page to lose, and the page it works on.
LEMMA Working ==
  ASSUME OneCareful, WInv, NEW c \in Clients, pc[c] \in InCall
  PROVE  /\ cur[c] \in Slots /\ want[c] \in Extents /\ want[c][1] \in Blocks
         /\ want[c][2] \in Nat \ {0} /\ want[c][1] # NoAddr /\ handle[c] = NoPage
         /\ \A i \in Slots : Live(i) => ShowsNewest(i)
         /\ \A i \in Slots : "EVICT" \notin ce_flags[i]
<1>1. pc[c] \notin {"idle", "mark"}
  BY DEF InCall, Mapping, Growing, MakingRoom, Reading
<1> QED  BY <1>1, AllShowNewest, Constants, Types
         DEF WInv, ActorInv, WantInv, HandleInv, CallInv

\* A growing page is written first; from then on all data is on the device.
LEMMA GrowWriteTable ==
  ASSUME OneCareful, Apart, WInv, NEW c \in Clients, FlushWrite(c, "grow_write", "realloc")
  PROVE  TableInv' /\ \A b \in Blocks : Stored(b)'
<1> USE DEF pages, ghosts
<1> DEFINE k == cur[c]
<1>1. /\ pc[c] = "grow_write" /\ disk' = Written(k) /\ UNCHANGED <<pages, ghosts>>
      /\ pc[c] \in InCall
  BY DEF FlushWrite, Write, Step, InCall, Mapping, Growing
<1>2. /\ k \in Slots /\ \A i \in Slots : Live(i) => ShowsNewest(i)
  BY <1>1, Working
<1>3. Live(k) /\ offset = ce_id[k] /\ ce_id[k] = want[c][1]
  BY <1>1, <1>2 DEF WInv, ActorInv, StepInv, ClientAt, Growing, IInv, MappingInv, Seen
<1>4. disk' = [b \in Blocks |-> IF b \in Covered(k) THEN <<b, newest[b]>> ELSE disk[b]]
  BY <1>1, <1>2, <1>3, WriteOut DEF WInv
<1>5. \A i \in Slots : Live(i) /\ i # k => "DIRTY" \notin ce_flags[i]
  <2>1. \A i \in Slots : Live(i) /\ i # k => ce_id[i] # want[c][1]
    BY <1>2, <1>3, Working, <1>1 DEF WInv, IInv, Distinct
  <2> QED  BY <1>1, <2>1 DEF WInv, ActorInv, CallInv, TableInv, FlagsInv
<1> HIDE DEF k
<1>6. ASSUME NEW b \in Blocks PROVE Stored(b)'
  <2>1. CASE b \in Covered(k)
    BY <1>1, <1>4, <2>1 DEF Stored
  <2>2. CASE b \notin Covered(k)
    BY <1>1, <1>4, <1>5, <2>2, NothingToMark
       DEF Stored, WInv, TableInv, NothingLost, AtMark, Live
  <2> QED  BY <2>1, <2>2
<1>7. NothingLost'
  BY <1>6 DEF NothingLost, Stored
<1>8. FlagsInv' /\ ExtentInv' /\ ClockInv'
  BY <1>1 DEF WInv, TableInv, FlagsInv, ExtentInv, ClockInv, Mapped, Bare, Live
<1>9. PageInv'
  BY <1>1, <1>2 DEF Live, ShowsNewest, Covered, At, PageInv
<1> QED  BY <1>6, <1>7, <1>8, <1>9 DEF TableInv

\* A page that leaves the table, or that has lost its memory.
LEMMA DropTable ==
  ASSUME OneCareful, WInv, NEW c \in Clients, pc[c] \in Synced, NEW k \in Slots,
         UNCHANGED <<disk, ghosts>>,
         \A i \in Slots \ {k} :
           /\ slot'[i] = slot[i] /\ ce_flags'[i] = ce_flags[i] /\ ce_id'[i] = ce_id[i]
           /\ pe_num_blocks'[i] = pe_num_blocks[i] /\ mem'[i] = mem[i],
         mem'[k] = <<>>, Live(k)' => Mapped(k)' \/ Bare(k)',
         IF Live(k)' THEN "CLEAN" \in ce_flags'[k] <=> "DIRTY" \notin ce_flags'[k]
         ELSE ce_flags'[k] = {}
  PROVE  TableInv'
<1> USE DEF ghosts
<1>1. \A i \in Slots : Live(i) => ShowsNewest(i)
  BY Working DEF Synced, InCall, Mapping, Growing
<1>2. \A i \in Slots \ {k} :
        /\ (Live(i)' <=> Live(i)) /\ (Mapped(i)' <=> Mapped(i)) /\ (Bare(i)' <=> Bare(i))
        /\ Covered(i)' = Covered(i) /\ \A b \in Blocks : At(i, b)' = At(i, b)
  BY DEF Live, Mapped, Bare, Covered, At
<1>3. FlagsInv'
  <2> SUFFICES ASSUME NEW i \in Slots, i # k
               PROVE  IF Live(i)' THEN "CLEAN" \in ce_flags'[i] <=> "DIRTY" \notin ce_flags'[i]
                      ELSE ce_flags'[i] = {}
    BY DEF FlagsInv
  <2> QED  BY <1>2 DEF WInv, TableInv, FlagsInv
<1>4. ExtentInv'
  <2> SUFFICES ASSUME NEW i \in Slots, i # k, Live(i)' PROVE Mapped(i)' \/ Bare(i)'
    BY DEF ExtentInv
  <2> QED  BY <1>2 DEF WInv, TableInv, ExtentInv
<1>5. PageInv'
  <2> SUFFICES ASSUME NEW i \in Slots, Live(i)', mem'[i] # <<>> PROVE ShowsNewest(i)'
    BY DEF PageInv
  <2> QED  BY <1>1, <1>2 DEF ShowsNewest, Covered
<1>6. NothingLost' /\ ClockInv'
  BY NothingToLose DEF WInv, TableInv, ClockInv
<1> QED  BY <1>3, <1>4, <1>5, <1>6 DEF TableInv

\* pgcache_element_map_zero(): the page gets zeroed memory and no other changes.
LEMMA MallocTable ==
  ASSUME OneCareful, WInv, NEW c \in Clients, NEW k \in Slots, k = cur[c],
         pc[c] = "malloc", pc'[c] = "idle", handle'[c] = k, Place(c),
         mem' = [mem EXCEPT ![k] = [j \in 1 .. want[c][2] |-> Blank]],
         UNCHANGED <<slot, ce_flags, device, ghosts>>
  PROVE  TableInv'
<1> USE DEF device, ghosts
<1> DEFINE m == [j \in 1 .. want[c][2] |-> Blank]
           n == want[c][2]
<1>1. /\ \A i \in Slots : Live(i) => ShowsNewest(i)
      /\ want[c] \in Extents /\ n \in Nat \ {0} /\ want[c][1] # NoAddr
  BY Working DEF InCall, Mapping
<1>2. /\ Live(k) /\ ce_id[k] = NoAddr
      /\ ce_id' = [ce_id EXCEPT ![k] = want[c][1]]
      /\ pe_num_blocks' = [pe_num_blocks EXCEPT ![k] = n]
  BY DEF WInv, ActorInv, StepInv, ClientAt, Place
<1>3. "DIRTY" \notin ce_flags[k]
  BY <1>2, Constants DEF WInv, TableInv, ExtentInv, Bare, Mapped
<1>4. Len(m) = n /\ \A j \in 1 .. Len(m) : m[j] = Blank
  BY <1>1, LenProperties, SpecialContents, MemoryType
<1>5. mem'[k] = m /\ ce_id'[k] = want[c][1] /\ pe_num_blocks'[k] = n /\ Live(k)'
  BY <1>2, Types DEF WInv, Live
<1> HIDE DEF m, n
<1>6. \A i \in Slots \ {k} :
        /\ (Live(i)' <=> Live(i)) /\ (Mapped(i)' <=> Mapped(i)) /\ (Bare(i)' <=> Bare(i))
        /\ Covered(i)' = Covered(i) /\ \A b \in Blocks : At(i, b)' = At(i, b)
  BY <1>2, Types DEF Live, Mapped, Bare, Covered, At
<1>7. FlagsInv' /\ ClockInv'
  BY DEF WInv, TableInv, FlagsInv, ClockInv, Live
<1>8. ExtentInv'
  <2>1. Mapped(k)'
    BY <1>1, <1>4, <1>5 DEF Mapped, n
  <2> QED  BY <1>6, <2>1 DEF WInv, TableInv, ExtentInv
<1>9. PageInv'
  <2>1. Fresh(k)'
    BY <1>3, <1>4, <1>5 DEF Fresh, ShowsBlank
  <2>2. \A i \in Slots \ {k} : Live(i)' => ShowsNewest(i)'
    BY <1>1, <1>6 DEF ShowsNewest, Covered
  <2> QED  BY <2>1, <2>2 DEF PageInv
<1>10. NothingLost'
  BY NothingToLose DEF Synced
<1> QED  BY <1>7, <1>8, <1>9, <1>10 DEF TableInv

\* pgcache_element_map(): the page is read at its own address, where the data
\* is the newest because all of it has been written.
LEMMA ReadTable ==
  ASSUME OneCareful, WInv, NEW c \in Clients, ReadPage(c)
  PROVE  TableInv'
<1> USE DEF ghosts, device
<1> DEFINE k == cur[c]
           n == want[c][2]
           a == want[c][1]
           m == [j \in 1 .. n |-> IF a + j - 1 \in Blocks THEN disk[a + j - 1] ELSE Junk]
<1>1. pc[c] = "read" /\ offset = a /\ Live(k) /\ \A b \in Blocks : Stored(b)
  BY DEF ReadPage, WInv, ActorInv, StepInv, ClientAt, Growing, Reading, Synced
<1>2. /\ k \in Slots /\ \A i \in Slots : Live(i) => ShowsNewest(i)
      /\ want[c] \in Extents /\ n \in Nat \ {0} /\ a # NoAddr /\ a \in Nat
  BY <1>1, Working, Constants DEF InCall, Mapping, Reading
<1>3. /\ ce_id' = [ce_id EXCEPT ![k] = a] /\ pe_num_blocks' = [pe_num_blocks EXCEPT ![k] = n]
      /\ mem' = [mem EXCEPT ![k] = m] /\ UNCHANGED <<slot, ce_flags, disk, newest, clock>>
  BY <1>1 DEF ReadPage, Place, Read
<1>4. Len(m) = n /\ \A b \in Blocks : b \in a .. a + n - 1 => m[b - a + 1] = disk[b]
  <2>1. \A j \in 1 .. n : m[j] \in Contents
    BY SpecialContents, Types DEF WInv
  <2>2. m \in Seq(Contents)
    BY <1>2, <2>1, MemoryType
  <2>3. Len(m) = n
    BY <1>2, <2>2, LenProperties
  <2>4. ASSUME NEW b \in Blocks, b \in a .. a + n - 1 PROVE m[b - a + 1] = disk[b]
    <3>1. b - a + 1 \in 1 .. n /\ a + (b - a + 1) - 1 = b
      BY <1>2, <2>4, Constants
    <3> QED  BY <3>1
  <2> QED  BY <2>3, <2>4
<1>5. mem'[k] = m /\ ce_id'[k] = a /\ pe_num_blocks'[k] = n
  BY <1>2, <1>3, Types DEF WInv
<1> HIDE DEF m, n, a, k
<1>6. \A i \in Slots \ {k} :
        /\ (Live(i)' <=> Live(i)) /\ (Mapped(i)' <=> Mapped(i)) /\ (Bare(i)' <=> Bare(i))
        /\ Covered(i)' = Covered(i) /\ \A b \in Blocks : At(i, b)' = At(i, b)
  BY <1>2, <1>3, Types DEF Live, Mapped, Bare, Covered, At
<1>7. FlagsInv' /\ ClockInv'
  BY <1>3 DEF WInv, TableInv, FlagsInv, ClockInv, Live
<1>8. ExtentInv'
  <2>1. ASSUME NEW i \in Slots, i = k PROVE Mapped(i)'
    BY <1>2, <1>4, <1>5, <2>1 DEF Mapped, n, a
  <2> QED  BY <1>6, <2>1 DEF WInv, TableInv, ExtentInv
<1>9. PageInv'
  <2>1. ASSUME NEW i \in Slots, i = k PROVE ShowsNewest(i)'
    BY <1>1, <1>3, <1>4, <1>5, <2>1 DEF ShowsNewest, Covered, At, Stored
  <2>2. \A i \in Slots \ {k} : Live(i)' => ShowsNewest(i)'
    BY <1>2, <1>3, <1>6 DEF ShowsNewest, Covered
  <2> QED  BY <2>1, <2>2 DEF PageInv
<1>10. NothingLost'
  BY <1>1, <1>3, NothingToLose DEF Synced, Reading
<1> QED  BY <1>7, <1>8, <1>9, <1>10 DEF TableInv

\* The client writes to the page it holds; no other page shows these blocks.
LEMMA ChangeTable ==
  ASSUME OneCareful, Apart, WInv, NEW c \in Clients, Change(c)
  PROVE  TableInv'
<1> DEFINE k == handle[c]
           m == [j \in DOMAIN mem[k] |-> IF ce_id[k] + j - 1 \in Blocks
                                         THEN <<ce_id[k] + j - 1, clock + 1>> ELSE mem[k][j]]
<1>1. /\ pc[c] = "idle" /\ pc'[c] = "mark" /\ k # NoPage /\ handle' = handle
      /\ UNCHANGED <<slot, ce_flags, ce_id, pe_num_blocks, disk>>
      /\ mem' = [mem EXCEPT ![k] = m] /\ clock' = clock + 1 /\ clock \in Nat
      /\ newest' = [b \in Blocks |-> IF b \in Covered(k) THEN clock + 1 ELSE newest[b]]
  BY Constants, Types, PagesAssumption DEF Change, WInv, Goto, device
<1>2. k \in Slots /\ Live(k) /\ ce_id[k] # NoAddr
  BY <1>1, Types DEF WInv, ActorInv, HandleInv, Held
<1>3. Len(mem[k]) \in Nat /\ DOMAIN mem[k] = 1 .. Len(mem[k])
  BY <1>2, ContentsOf, LenProperties DEF WInv, IInv
<1>4. Len(m) = Len(mem[k]) /\ (mem[k] = <<>> => m = <<>>)
  BY <1>2, <1>3
<1>5. ASSUME NEW b \in Covered(k)
      PROVE  m[b - ce_id[k] + 1] = <<b, clock + 1>>
  <2>1. /\ b \in Blocks /\ b \in Int /\ ce_id[k] \in Int
        /\ b \in ce_id[k] .. ce_id[k] + Len(mem[k]) - 1
    BY <1>2, Types, Constants DEF Covered, WInv
  <2>2. b - ce_id[k] + 1 \in 1 .. Len(mem[k]) /\ ce_id[k] + (b - ce_id[k] + 1) - 1 = b
    <3> DEFINE a == ce_id[k]
               n == Len(mem[k])
    <3>1. a \in Int /\ n \in Nat /\ b \in Int /\ b \in a .. a + n - 1
      BY <1>3, <2>1
    <3> HIDE DEF a, n
    <3>2. b - a + 1 \in 1 .. n /\ a + (b - a + 1) - 1 = b
      BY <3>1
    <3> QED  BY <3>2 DEF a, n
  <2> QED  BY <1>3, <2>1, <2>2
<1>6. mem'[k] = m
  BY <1>1, <1>2, Types DEF WInv
<1> HIDE DEF m, k
<1>7. \A i \in Slots : Covered(i)' = Covered(i)
  BY <1>1, <1>2, <1>4, <1>6, Types DEF Covered, WInv
<1>8. \A i \in Slots \ {k} : Live(i) =>
        \A b \in Covered(i) : b \notin Covered(k) /\ newest'[b] = newest[b] /\ At(i, b)' = At(i, b)
  <2> SUFFICES ASSUME NEW i \in Slots, i # k, Live(i), NEW b \in Covered(i)
               PROVE  b \notin Covered(k) /\ newest'[b] = newest[b] /\ At(i, b)' = At(i, b)
    OBVIOUS
  <2>1. b \notin Covered(k)
    BY <1>2, PagesApart DEF WInv, TableInv
  <2> QED  BY <1>1, <1>2, <2>1, Types DEF At, Covered, WInv
<1>9. \A b \in Covered(k) : newest'[b] = clock + 1 /\ mem'[k][b - ce_id'[k] + 1] = <<b, clock + 1>>
  BY <1>1, <1>5, <1>6 DEF Covered
<1>10. FlagsInv' /\ ClockInv'
  BY <1>1, Types DEF WInv, TableInv, FlagsInv, ClockInv, Live
<1>11. ExtentInv'
  BY <1>1, <1>2, <1>4, <1>6, Types DEF WInv, TableInv, ExtentInv, Mapped, Bare, Live
<1>12. PageInv'
  <2> SUFFICES ASSUME NEW i \in Slots, Live(i)', mem'[i] # <<>> PROVE ShowsNewest(i)'
    BY DEF PageInv
  <2>1. CASE i = k
    BY <1>7, <1>9, <2>1 DEF ShowsNewest, At
  <2>2. CASE i # k
    <3>1. Live(i) /\ mem[i] # <<>>
      BY <1>1, <2>2, Types DEF Live, WInv
    <3>2. ~Fresh(i)
      BY <1>1, <2>2 DEF Fresh, OneCareful, k
    <3>3. ShowsNewest(i)
      BY <3>1, <3>2 DEF WInv, TableInv, PageInv
    <3> QED  BY <1>7, <1>8, <2>2, <3>1, <3>3 DEF ShowsNewest
  <2> QED  BY <2>1, <2>2
<1>13. NothingLost'
  <2> SUFFICES ASSUME NEW b \in Blocks, ~Stored(b)'
               PROVE  \E i \in Slots :
                        /\ Live(i)' /\ b \in Covered(i)' /\ At(i, b)' = <<b, newest'[b]>>
                        /\ "DIRTY" \in ce_flags'[i] \/ AtMark(i)'
    BY DEF NothingLost, Stored, Live, AtMark
  <2>1. CASE b \in Covered(k)
    <3>1. PICK i \in Slots : i = k
      BY <1>2
    <3>2. Live(i)' /\ AtMark(i)'
      BY <1>1, <1>2, <3>1 DEF Live, AtMark, k
    <3> QED  BY <1>7, <1>9, <2>1, <3>1, <3>2 DEF At
  <2>2. CASE b \notin Covered(k)
    <3>1. ~Stored(b)
      BY <1>1, <2>2 DEF Stored
    <3>2. PICK i \in Slots : /\ Live(i) /\ b \in Covered(i) /\ At(i, b) = <<b, newest[b]>>
                             /\ "DIRTY" \in ce_flags[i] \/ AtMark(i)
      BY <3>1 DEF WInv, TableInv, NothingLost, Stored, Live, AtMark
    <3>3. "DIRTY" \in ce_flags[i] /\ i # k
      BY <1>1, <2>2, <3>2, NothingToMark
    <3> QED  BY <1>1, <1>7, <1>8, <3>2, <3>3 DEF Live
  <2> QED  BY <2>1, <2>2
<1> QED  BY <1>10, <1>11, <1>12, <1>13 DEF TableInv

\* pgcache_element_mark_dirty(): the page whose data is newer becomes DIRTY.
LEMMA MarkTable ==
  ASSUME OneCareful, WInv, NEW c \in Clients, MarkDirty(c)
  PROVE  TableInv'
<1> USE DEF ghosts, device
<1> DEFINE k == handle[c]
<1>1. /\ pc[c] = "mark" /\ UNCHANGED <<slot, ce_id, pe_num_blocks, mem, disk, newest, clock>>
      /\ k # NoPage =>
           Live(k) /\ ce_id[k] # NoAddr /\ ce_flags' = [ce_flags EXCEPT ![k] = Marked(@)]
      /\ k = NoPage => \A i \in Slots : ce_flags'[i] = ce_flags[i]
      /\ k \in Slots \union {NoPage}
  BY Constants, Types DEF MarkDirty, Flag, Step, WInv, ActorInv, HandleInv, Held, Live
<1> HIDE DEF k
<1>2. \A i \in Slots : ce_flags'[i] = IF i = k THEN Marked(ce_flags[i]) ELSE ce_flags[i]
  BY <1>1, Types, Constants DEF WInv
<1>3. FlagsInv'
  BY <1>1, <1>2 DEF WInv, TableInv, FlagsInv, Live, Marked
<1>4. ExtentInv'
  BY <1>1, <1>2 DEF WInv, TableInv, ExtentInv, Live, Mapped, Bare
<1>5. PageInv'
  <2>1. \A i \in Slots : Live(i) => ShowsNewest(i)
    BY <1>1, AllShowNewest
  <2> QED  BY <1>1, <2>1 DEF PageInv, ShowsNewest, Live, Covered, At
<1>6. NothingLost'
  <2> SUFFICES ASSUME NEW b \in Blocks, ~Stored(b)
               PROVE  \E i \in Slots :
                        /\ Live(i) /\ b \in Covered(i) /\ At(i, b) = <<b, newest[b]>>
                        /\ "DIRTY" \in ce_flags'[i]
    BY <1>1 DEF NothingLost, Stored, Live, Covered, At
  <2>1. PICK i \in Slots : /\ Live(i) /\ b \in Covered(i) /\ At(i, b) = <<b, newest[b]>>
                           /\ "DIRTY" \in ce_flags[i] \/ AtMark(i)
    BY DEF WInv, TableInv, NothingLost, Stored, Live, AtMark
  <2>2. AtMark(i) => i = k
    BY DEF AtMark, OneCareful, k
  <2> QED  BY <1>2, <2>1, <2>2 DEF Marked
<1>7. ClockInv'
  BY <1>1 DEF WInv, TableInv, ClockInv
<1> QED  BY <1>3, <1>4, <1>5, <1>6, <1>7 DEF TableInv

\* Every step of a client keeps what is said of pages, flags and data.
LEMMA ClientTable ==
  ASSUME OneCareful, Apart, WInv, NEW c \in Clients, ClientNext(c)
  PROVE  TableInv'
<1> USE DEF vars, locks, pages, device, ghosts, calls
<1>0. /\ c \in Procs /\ cur[c] \in Slots /\ NoPage \notin Slots
      /\ handle[c] \in Slots \union {NoPage} /\ Careful = TRUE
      /\ pc \in [Procs -> Labels] /\ handle \in [Clients -> Slots \union {NoPage}]
      /\ ce_flags \in [Slots -> SUBSET {"CLEAN", "DIRTY", "EVICT"}]
      /\ slot \in [Slots -> {"empty", "live", "freed"}]
      /\ ce_id \in [Slots -> Blocks \union {NoAddr}] /\ mem \in [Slots -> Seq(Contents)]
      /\ pe_num_blocks \in [Slots -> Nat]
  BY Constants, Types DEF WInv, OneCareful
<1>1. ASSUME UNCHANGED <<pages, disk, ghosts>>, pc[c] # "mark",
             pc[c] # "idle" \/ ~IsBlank(handle[c])
      PROVE  TableInv'
  BY <1>1, TableStays
<1>2. CASE CallMap(c) \/ PcLock(c) \/ Scan(c) \/ GrowLock(c) \/ Room(c) \/ VictimLock(c)
  BY <1>0, <1>1, <1>2 DEF CallMap, PcLock, Scan, GrowLock, Room, VictimLock
<1>3. CASE \/ FlushSeek(c, "grow_seek", "grow_write") \/ ReadSeek(c)
           \/ FlushSeek(c, "victim_seek", "victim_write")
  BY <1>1, <1>3 DEF FlushSeek, ReadSeek, LSeek, Step
<1>4. CASE FlushWrite(c, "grow_write", "realloc")
  BY <1>4, GrowWriteTable
\* A dirty victim there is none.
<1>5. CASE FlushWrite(c, "victim_write", "victim_free")
  BY <1>5 DEF FlushWrite, Step, WInv, ActorInv, StepInv, ClientAt
<1>6. CASE Realloc(c)
  <2>1. CASE UNCHANGED <<pages, disk, ghosts>>
    BY <1>1, <1>6, <2>1 DEF Realloc, Step
  <2>2. CASE mem' = [mem EXCEPT ![cur[c]] = <<>>]
    <3>1. pc[c] = "realloc" /\ UNCHANGED <<slot, ce_flags, ce_id, pe_num_blocks, disk, ghosts>>
      BY <1>6 DEF Realloc, Step
    <3>2. PICK k \in Slots : k = cur[c]
      BY <1>0
    <3>3. mem'[k] = <<>> /\ \A i \in Slots \ {k} : mem'[i] = mem[i]
      BY <1>0, <2>2, <3>2
    <3>4. Live(k)' => Mapped(k)' \/ Bare(k)'
      BY <3>1, <3>3 DEF WInv, TableInv, ExtentInv, Live, Mapped, Bare
    <3>5. IF Live(k)' THEN "CLEAN" \in ce_flags'[k] <=> "DIRTY" \notin ce_flags'[k]
          ELSE ce_flags'[k] = {}
      BY <3>1 DEF WInv, TableInv, FlagsInv, Live
    <3> QED  BY <3>1, <3>3, <3>4, <3>5, DropTable DEF Synced
  <2> QED  BY <1>6, <2>1, <2>2 DEF Realloc
<1>7. CASE VictimFree(c) \/ New(c)
  <2>1. PICK k \in Slots : k = cur[c]
    BY <1>0
  <2>2. /\ pc[c] \in {"victim_free", "new"} /\ UNCHANGED <<disk, ghosts>>
        /\ \A i \in Slots \ {k} :
             /\ slot'[i] = slot[i] /\ ce_flags'[i] = ce_flags[i] /\ ce_id'[i] = ce_id[i]
             /\ pe_num_blocks'[i] = pe_num_blocks[i] /\ mem'[i] = mem[i]
        /\ mem'[k] = <<>>
        /\ \/ slot'[k] = "freed" /\ ce_flags'[k] = {}
           \/ slot'[k] = "live" /\ ce_flags'[k] = {"CLEAN"} /\ ce_id'[k] = NoAddr
    BY <1>0, <1>7, <2>1 DEF VictimFree, New, FreePage, Step
  <2>3. Live(k)' => Mapped(k)' \/ Bare(k)'
    BY <2>2 DEF Live, Bare
  <2>4. IF Live(k)' THEN "CLEAN" \in ce_flags'[k] <=> "DIRTY" \notin ce_flags'[k]
        ELSE ce_flags'[k] = {}
    BY <2>2 DEF Live
  <2> QED  BY <2>2, <2>3, <2>4, DropTable DEF Synced, MakingRoom
<1>8. CASE Malloc(c)
  <2>1. CASE ~zero[c] /\ Step(c, "malloc", "read_seek") /\ UNCHANGED <<pages, device, ghosts>>
    BY <1>1, <2>1 DEF Step
  <2>2. CASE /\ pc[c] = "malloc" /\ Place(c) /\ Return(c, cur[c])
             /\ mem' = [mem EXCEPT ![cur[c]] = [j \in 1 .. want[c][2] |-> Blank]]
             /\ UNCHANGED <<slot, ce_flags, device, ghosts>>
    <3>1. PICK k \in Slots : k = cur[c]
      BY <1>0
    <3>2. pc'[c] = "idle" /\ handle'[c] = k
      BY <1>0, <2>2, <3>1 DEF Return, Goto
    <3> QED  BY <2>2, <3>1, <3>2, MallocTable
  <2>3. CASE /\ pc[c] = "malloc" /\ Return(c, NoPage)
             /\ ce_flags' = IF zero[c] THEN ce_flags
                            ELSE [ce_flags EXCEPT ![cur[c]] = @ \union {"EVICT"}]
             /\ UNCHANGED <<slot, ce_id, pe_num_blocks, mem, device, ghosts>>
    <3>1. Live(cur[c])
      BY <2>3 DEF WInv, ActorInv, StepInv, ClientAt
    <3>2. \A i \in Slots : \/ ce_flags'[i] = ce_flags[i]
                           \/ Live(i) /\ ce_flags'[i] = ce_flags[i] \union {"EVICT"}
      BY <1>0, <2>3, <3>1
    <3> QED  BY <2>3, <3>2, TableStays
  <2> QED  BY <1>8, <2>1, <2>2, <2>3 DEF Malloc
<1>9. CASE ReadPage(c)
  BY <1>9, ReadTable
<1>10. CASE Change(c)
  BY <1>10, ChangeTable
<1>11. CASE MarkDirty(c)
  BY <1>11, MarkTable
<1>12. CASE MarkEviction(c)
  <2>1. /\ pc[c] = "idle" /\ ~IsBlank(handle[c]) /\ handle[c] \in Slots
        /\ UNCHANGED <<slot, ce_id, pe_num_blocks, mem, device, ghosts>>
    BY <1>0, <1>12 DEF MarkEviction
  <2>2. \A i \in Slots : \/ ce_flags'[i] = ce_flags[i]
                         \/ Live(i) /\ ce_flags'[i] = ce_flags[i] \union {"EVICT"}
    BY <1>0, <1>12, <2>1 DEF MarkEviction, Flag, Live
  <2> QED  BY <2>1, <2>2, TableStays
<1> QED  BY <1>2, <1>3, <1>4, <1>5, <1>6, <1>7, <1>8, <1>9, <1>10, <1>11, <1>12 DEF ClientNext

-----------------------------------------------------------------------------
(* Steps of the client: the client itself.                                   *)

\* What every step of the client leaves alone.
LEMMA ClientLeaves ==
  ASSUME WInv, NEW c \in Clients, ClientNext(c)
  PROVE  /\ pc'[Thread] = pc[Thread] /\ cur'[Thread] = cur[Thread] /\ seen' = seen
         /\ c \in Procs /\ cur[c] \in Slots /\ handle[c] \in Slots \union {NoPage}
<1> USE Constants, Types
    DEF WInv, vars, locks, pages, device, ghosts, calls
<1>1. c \in Procs /\ c # Thread
  OBVIOUS
<1>2. seen' = seen
  BY DEF ClientNext, CallMap, PcLock, Scan, GrowLock, FlushSeek, FlushWrite, Realloc, Room,
         VictimLock, VictimFree, New, Malloc, ReadSeek, ReadPage, Change, MarkDirty,
         MarkEviction, Step, Return
<1>3. pc'[Thread] = pc[Thread]
  BY <1>1 DEF ClientNext, CallMap, PcLock, Scan, GrowLock, FlushSeek, FlushWrite, Realloc,
         Room, VictimLock, VictimFree, New, Malloc, ReadSeek, ReadPage, Change, MarkDirty,
         MarkEviction, Step, Goto, Return
<1>4. cur'[Thread] = cur[Thread]
  BY <1>1 DEF ClientNext, CallMap, PcLock, Scan, GrowLock, FlushSeek, FlushWrite, Realloc,
         Room, VictimLock, VictimFree, New, Malloc, ReadSeek, ReadPage, Change, MarkDirty,
         MarkEviction, Step, Return
<1> QED  BY <1>1, <1>2, <1>3, <1>4

\* What its search of the table finds: no page, a page that is big enough, or
\* one that must grow - never an element that has been freed.
LEMMA Found ==
  ASSUME WInv, NEW c \in Clients, Scan(c)
  PROVE  /\ pc[c] = "scan" /\ UNCHANGED <<pages, device, ghosts, ce_mutex, want>>
         /\ \/ /\ pc'[c] = "room" /\ \A i \in Slots : Live(i) => ce_id[i] # want[c][1]
               /\ handle' = handle
            \/ pc'[c] = "idle" /\ handle'[c] = NoPage
            \/ \E i \in Slots :
                 /\ Live(i) /\ ce_id[i] = want[c][1]
                 /\ \/ /\ pc'[c] = "idle" /\ handle'[c] = i
                       /\ want[c][2] <= pe_num_blocks[i]
                    \/ pc'[c] = "grow" /\ cur'[c] = i /\ handle' = handle
<1> USE DEF pages, device, ghosts, calls
<1> DEFINE Pick(S) == CHOOSE k \in S : \A j \in S : k <= j
<1>1. PICK stale \in SUBSET {j \in Slots : slot[j] = "freed"} :
        LET hits == Hits(want[c][1], stale)
            i == CHOOSE k \in hits : \A j \in hits : k <= j
        IN  \/ hits = {} /\ Goto(c, "room") /\ UNCHANGED <<pc_mutex, calls, cur>>
            \/ hits # {} /\ zero[c] /\ Return(c, NoPage)
            \/ hits # {} /\ ~zero[c] /\ TRUE \in Enough(i, want[c][2]) /\ Return(c, i)
            \/ /\ hits # {} /\ ~zero[c] /\ FALSE \in Enough(i, want[c][2])
               /\ cur' = [cur EXCEPT ![c] = i] /\ Goto(c, "grow")
               /\ UNCHANGED <<pc_mutex, calls>>
  BY DEF Scan
<1>2. pc[c] = "scan" /\ UNCHANGED <<pages, device, ghosts, ce_mutex>>
  BY DEF Scan
<1>3. stale = {}
  BY <1>2 DEF WInv, ActorInv, CallInv, InCall, Mapping
<1> DEFINE hits == Hits(want[c][1], stale)
           i == Pick(hits)
<1>4. hits = {j \in Slots : Live(j) /\ ce_id[j] = want[c][1]}
  BY <1>3 DEF Hits, Live
<1>5. hits # {} => i \in hits
  BY <1>4, LowestSlot
<1> HIDE DEF hits, Pick, i
<1>6. \/ hits = {} /\ Goto(c, "room") /\ UNCHANGED calls
      \/ Return(c, NoPage)
      \/ hits # {} /\ TRUE \in Enough(i, want[c][2]) /\ Return(c, i)
      \/ hits # {} /\ cur' = [cur EXCEPT ![c] = i] /\ Goto(c, "grow") /\ UNCHANGED calls
  BY <1>1 DEF hits, i, Pick
<1>7. /\ pc \in [Procs -> Labels] /\ cur \in [Procs -> Slots] /\ c \in Procs
      /\ handle \in [Clients -> Slots \union {NoPage}]
  BY Constants, Types DEF WInv
<1>8. CASE hits = {} /\ Goto(c, "room") /\ UNCHANGED calls
  BY <1>2, <1>4, <1>7, <1>8 DEF Goto
<1>9. CASE Return(c, NoPage)
  BY <1>2, <1>7, <1>9 DEF Return, Goto
<1>10. CASE hits # {} /\ TRUE \in Enough(i, want[c][2]) /\ Return(c, i)
  <2>1. i \in Slots /\ Live(i) /\ ce_id[i] = want[c][1] /\ want[c][2] <= pe_num_blocks[i]
    BY <1>4, <1>5, <1>10 DEF Enough, Live
  <2> QED  BY <1>2, <1>7, <1>10, <2>1 DEF Return, Goto
<1>11. CASE hits # {} /\ cur' = [cur EXCEPT ![c] = i] /\ Goto(c, "grow") /\ UNCHANGED calls
  <2>1. i \in Slots /\ Live(i) /\ ce_id[i] = want[c][1]
    BY <1>4, <1>5, <1>11
  <2> QED  BY <1>2, <1>7, <1>11, <2>1 DEF Goto
<1> QED  BY <1>6, <1>8, <1>9, <1>10, <1>11

\* A call in progress maps an extent of Extents.
LEMMA ClientWant ==
  ASSUME OneCareful, WInv, NEW c \in Clients, ClientNext(c)
  PROVE  WantInv'
<1> USE DEF vars, locks, pages, device, ghosts, calls
<1>1. SUFFICES ASSUME pc'[c] \in InCall PROVE want'[c] \in Extents
  BY DEF WantInv, OneCareful
<1>2. /\ pc \in [Procs -> Labels] /\ c \in Procs /\ want = [d \in Clients |-> want[d]]
      /\ pc[c] \in InCall => want[c] \in Extents
  BY Constants, Types DEF WInv, ActorInv, WantInv
<1>3. CASE CallMap(c)
  BY <1>2, <1>3 DEF CallMap
<1>4. CASE pc[c] \in InCall /\ want' = want
  BY <1>2, <1>4
<1>5. CASE pc'[c] \in {"idle", "mark"}
  BY <1>1, <1>5 DEF InCall, Mapping, Growing, MakingRoom, Reading
<1>6. pc[c] \in InCall \/ pc[c] \in {"idle", "mark"} \/ ~ClientNext(c)
  BY <1>2 DEF ClientNext, CallMap, PcLock, Scan, GrowLock, FlushSeek, FlushWrite, Realloc,
         Room, VictimLock, VictimFree, New, Malloc, ReadSeek, ReadPage, Change, MarkDirty,
         MarkEviction, Step, InCall, Mapping, Growing, MakingRoom, Reading
<1>7. CASE Change(c) \/ MarkDirty(c) \/ MarkEviction(c)
  BY <1>2, <1>5, <1>7 DEF Change, MarkDirty, MarkEviction, Step, Goto
<1> QED  BY <1>3, <1>4, <1>6, <1>7
         DEF ClientNext, PcLock, Scan, GrowLock, FlushSeek, FlushWrite, Realloc,
         Room, VictimLock, VictimFree, New, Malloc, ReadSeek, ReadPage, Step, Return,
         InCall, Mapping, Growing, MakingRoom, Reading

\* What a call returns is in the table, mapped, and big enough.
LEMMA ClientHandle ==
  ASSUME OneCareful, WInv, NEW c \in Clients, ClientNext(c)
  PROVE  HandleInv'
<1> USE DEF vars, locks, pages, device, ghosts, calls
<1>0. /\ pc \in [Procs -> Labels] /\ c \in Procs /\ want = [d \in Clients |-> want[d]]
      /\ handle \in [Clients -> Slots \union {NoPage}] /\ cur[c] \in Slots
      /\ NoPage \notin Slots
      /\ ce_flags \in [Slots -> SUBSET {"CLEAN", "DIRTY", "EVICT"}]
      /\ slot \in [Slots -> {"empty", "live", "freed"}]
      /\ ce_id \in [Slots -> Blocks \union {NoAddr}]
      /\ pe_num_blocks \in [Slots -> Nat]
  BY Constants, Types DEF WInv
<1>1. (\A i \in Slots : handle'[c] = i => pc'[c] \in {"idle", "mark"} /\ Live(i)'
          /\ "EVICT" \notin ce_flags'[i] /\ ce_id'[i] # NoAddr
          /\ want'[c][2] <= pe_num_blocks'[i])
        /\ handle'[c] \in Slots \union {NoPage} => HandleInv'
  BY DEF HandleInv, Held, OneCareful, Live
<1>2. /\ handle[c] # NoPage => pc[c] \in {"idle", "mark"} /\ Held(c)
      /\ pc[c] \in InCall => handle[c] = NoPage
  BY Working DEF WInv, ActorInv, HandleInv
<1>3. CASE handle'[c] = NoPage
  BY <1>0, <1>1, <1>3
<1>4. CASE CallMap(c) \/ MarkEviction(c)
  BY <1>0, <1>3, <1>4 DEF CallMap, MarkEviction
<1>5. CASE pc[c] \in InCall /\ handle' = handle
  BY <1>2, <1>3, <1>5
<1>6. CASE Scan(c)
  <2>1. CASE handle' = handle
    BY <1>5, <1>6, <2>1 DEF Scan, InCall, Mapping
  <2>2. ASSUME NEW i \in Slots, Live(i), ce_id[i] = want[c][1], pc'[c] = "idle", handle'[c] = i,
               want[c][2] <= pe_num_blocks[i], UNCHANGED <<pages, want>>, pc[c] = "scan"
        PROVE  HandleInv'
    <3>1. "EVICT" \notin ce_flags[i] /\ ce_id[i] # NoAddr
      BY <2>2, Working DEF InCall, Mapping
    <3> QED  BY <1>1, <2>2, <3>1 DEF Live
  <2> QED  BY <1>3, <1>6, <2>1, <2>2, Found
<1>7. CASE Realloc(c)
  <2>1. pc[c] \in InCall /\ (handle' = handle \/ handle'[c] = NoPage)
    BY <1>0, <1>7 DEF Realloc, Step, Return, InCall, Mapping, Growing
  <2> QED  BY <1>3, <1>5, <2>1
<1>8. ASSUME pc[c] \in {"malloc", "read"}, Place(c), Return(c, cur[c]), UNCHANGED <<slot, ce_flags>>
      PROVE  HandleInv'
  <2>1. /\ Live(cur[c]) /\ "EVICT" \notin ce_flags[cur[c]]
        /\ want[c][1] # NoAddr /\ want[c][2] \in Nat
    BY <1>0, <1>8, Working DEF WInv, ActorInv, StepInv, ClientAt, InCall, Mapping, Reading
  <2>2. PICK i \in Slots : i = cur[c]
    BY <1>0
  <2>3. handle'[c] = i /\ pc'[c] = "idle" /\ want' = want /\ ce_id'[i] = want[c][1]
        /\ pe_num_blocks'[i] = want[c][2]
    BY <1>0, <1>8, <2>2 DEF Return, Goto, Place
  <2> QED  BY <1>1, <1>8, <2>1, <2>2, <2>3 DEF Live
<1>9. CASE Malloc(c)
  <2>1. CASE handle' = handle \/ handle'[c] = NoPage
    BY <1>3, <1>5, <1>9, <2>1 DEF Malloc, Step, InCall, Mapping
  <2>2. CASE pc[c] = "malloc" /\ Place(c) /\ Return(c, cur[c]) /\ UNCHANGED <<slot, ce_flags>>
    BY <1>8, <2>2
  <2> QED  BY <1>0, <1>9, <2>1, <2>2 DEF Malloc, Step, Return
<1>10. CASE ReadPage(c)
  BY <1>8, <1>10 DEF ReadPage
<1>11. CASE Change(c)
  BY <1>0, <1>1, <1>2, <1>11 DEF Change, Goto, Held, Live
<1>12. CASE MarkDirty(c)
  <2>1. /\ UNCHANGED <<slot, ce_id, pe_num_blocks, handle, want>> /\ pc'[c] = "idle"
        /\ \A i \in Slots : "EVICT" \in ce_flags'[i] => "EVICT" \in ce_flags[i]
    BY <1>0, <1>12 DEF MarkDirty, Flag, Marked, Step, Goto
  <2> QED  BY <1>0, <1>1, <1>2, <2>1 DEF Held, Live
<1> QED  BY <1>4, <1>5, <1>6, <1>7, <1>9, <1>10, <1>11, <1>12
         DEF ClientNext, PcLock, GrowLock, FlushSeek, FlushWrite, Room, VictimLock,
             VictimFree, New, ReadSeek, Step, InCall, Mapping, Growing, MakingRoom, Reading

\* The wait of a careful client before it maps holds throughout its call.
LEMMA ClientCall ==
  ASSUME OneCareful, WInv, NEW c \in Clients, ClientNext(c)
  PROVE  CallInv'
<1> USE DEF vars, locks, pages, device, ghosts, calls
<1>0. /\ pc \in [Procs -> Labels] /\ c \in Procs /\ cur[c] \in Slots
      /\ cur \in [Procs -> Slots] /\ want = [d \in Clients |-> want[d]]
      /\ ce_flags \in [Slots -> SUBSET {"CLEAN", "DIRTY", "EVICT"}]
      /\ slot \in [Slots -> {"empty", "live", "freed"}]
      /\ ce_id \in [Slots -> Blocks \union {NoAddr}]
  BY Constants, Types DEF WInv
<1> DEFINE Ready(i) == /\ "EVICT" \notin ce_flags'[i]
                       /\ slot'[i] = "freed" => pc'[c] = "new" /\ cur'[c] = i
                       /\ Live(i)' /\ ce_id'[i] # want'[c][1] => "CLEAN" \in ce_flags'[i]
<1>1. SUFFICES ASSUME pc'[c] \in InCall, NEW i \in Slots PROVE Ready(i)
  BY DEF CallInv, OneCareful
<1>2. pc[c] \in InCall => /\ "EVICT" \notin ce_flags[i]
                          /\ slot[i] = "freed" => pc[c] = "new" /\ cur[c] = i
                          /\ Live(i) /\ ce_id[i] # want[c][1] => "CLEAN" \in ce_flags[i]
  BY DEF WInv, ActorInv, CallInv
<1>3. CASE CallMap(c)
  <2>1. PICK e \in Extents : MayMap(e) /\ want' = [want EXCEPT ![c] = e]
    BY <1>3 DEF CallMap
  <2>2. want'[c] = e /\ UNCHANGED pages
    BY <1>0, <1>3, <2>1 DEF CallMap
  <2> QED  BY <2>1, <2>2 DEF MayMap, OneCareful, Live
<1>4. CASE pc[c] \in InCall \ {"new"} /\ UNCHANGED <<slot, ce_flags, ce_id, want>>
  BY <1>2, <1>4 DEF Live
<1>5. CASE VictimFree(c)
  <2>1. /\ pc[c] \in InCall \ {"new"} /\ pc'[c] = "new" /\ cur' = cur
        /\ UNCHANGED <<ce_id, want>>
        /\ slot' = [slot EXCEPT ![cur[c]] = "freed"]
        /\ ce_flags' = [ce_flags EXCEPT ![cur[c]] = {}]
    BY <1>0, <1>5 DEF VictimFree, FreePage, Step, Goto, InCall, Mapping, MakingRoom
  <2> QED  BY <1>0, <1>2, <2>1 DEF Live
<1>6. CASE New(c)
  <2>1. /\ pc[c] = "new" /\ pc[c] \in InCall /\ cur' = cur /\ UNCHANGED want
        /\ slot' = [slot EXCEPT ![cur[c]] = "live"]
        /\ ce_flags' = [ce_flags EXCEPT ![cur[c]] = {"CLEAN"}]
        /\ ce_id' = [ce_id EXCEPT ![cur[c]] = NoAddr]
    BY <1>0, <1>6 DEF New, Step, Goto, InCall, Mapping, MakingRoom
  <2> QED  BY <1>0, <1>2, <2>1 DEF Live
<1>7. CASE pc'[c] \in {"idle", "mark"}
  BY <1>1, <1>7 DEF InCall, Mapping, Growing, MakingRoom, Reading
<1>8. CASE Change(c) \/ MarkDirty(c) \/ ReadPage(c)
  BY <1>0, <1>7, <1>8 DEF Change, MarkDirty, ReadPage, Return, Step, Goto
<1>9. CASE MarkEviction(c)
  BY <1>1, <1>9 DEF MarkEviction, InCall, Mapping, Growing, MakingRoom, Reading
<1>10. CASE Scan(c)
  BY <1>4, <1>10, Found DEF InCall, Mapping
<1>11. CASE Realloc(c) \/ Malloc(c)
  <2>1. pc'[c] = "idle" \/ UNCHANGED <<pages, want>>
    BY <1>0, <1>11 DEF Realloc, Malloc, Step, Return, Goto
  <2>2. pc[c] \in InCall \ {"new"}
    BY <1>11 DEF Realloc, Malloc, Step, InCall, Mapping, Growing
  <2> QED  BY <1>4, <1>7, <2>1, <2>2
<1>12. CASE PcLock(c) \/ GrowLock(c) \/ Room(c) \/ VictimLock(c) \/ ReadSeek(c)
  BY <1>4, <1>12 DEF PcLock, GrowLock, Room, VictimLock, ReadSeek, Step, InCall, Mapping,
                     Growing, MakingRoom, Reading
<1>13. ASSUME NEW a \in InCall \ {"new"}, NEW b, FlushSeek(c, a, b) \/ FlushWrite(c, a, b)
       PROVE  Ready(i)
  BY <1>4, <1>13 DEF FlushSeek, FlushWrite, Step
<1> HIDE DEF Ready
<1> QED  BY <1>3, <1>5, <1>6, <1>8, <1>9, <1>10, <1>11, <1>12, <1>13
         DEF ClientNext, InCall, Mapping, Growing, MakingRoom

\* A client that makes room or has an element to fill has no dirty page around.
LEMMA AllClean ==
  ASSUME OneCareful, WInv, NEW c \in Clients, pc[c] \in InCall,
         \A i \in Slots : Live(i) => ce_id[i] # want[c][1] \/ "DIRTY" \notin ce_flags[i]
  PROVE  /\ \A i \in Slots : "DIRTY" \notin ce_flags[i]
         /\ \A b \in Blocks : Stored(b)
<1>1. \A i \in Slots : "DIRTY" \notin ce_flags[i]
  BY DEF WInv, ActorInv, CallInv, TableInv, FlagsInv
<1>2. pc[c] # "mark"
  BY DEF InCall, Mapping, Growing, MakingRoom, Reading
<1> QED  BY <1>1, <1>2, AllStored

\* What the client counts on from one step of its call to the next.
LEMMA ClientStep ==
  ASSUME OneCareful, Apart, WInv, NEW c \in Clients, ClientNext(c)
  PROVE  StepInv'
<1> USE DEF vars, locks, pages, device, ghosts, calls
<1> DEFINE k == cur[c]
<1>0. /\ pc \in [Procs -> Labels] /\ c \in Procs /\ k \in Slots
      /\ cur \in [Procs -> Slots] /\ ce_mutex \in [Slots -> Procs \union {NoOne}]
      /\ ce_flags \in [Slots -> SUBSET {"CLEAN", "DIRTY", "EVICT"}]
      /\ slot \in [Slots -> {"empty", "live", "freed"}]
      /\ ce_id \in [Slots -> Blocks \union {NoAddr}]
  BY Constants, Types DEF WInv
<1>1. ClientAt(c) /\ Seen(c)
  BY DEF WInv, ActorInv, StepInv, IInv, MappingInv
<1>2. SUFFICES ClientAt(c)'
  BY DEF StepInv, OneCareful
<1>3. CASE pc'[c] \in {"idle", "mark", "pc_lock", "scan"}
  BY <1>3 DEF ClientAt, Growing, MakingRoom, Reading, Synced
<1>4. CASE \/ CallMap(c) \/ PcLock(c) \/ ReadPage(c) \/ Change(c) \/ MarkDirty(c)
  BY <1>0, <1>3, <1>4 DEF CallMap, PcLock, ReadPage, Change, MarkDirty, Return, Step, Goto
<1>5. CASE MarkEviction(c)
  BY <1>3, <1>5 DEF MarkEviction
<1>6. CASE Scan(c)
  <2>1. pc[c] = "scan" /\ pc[c] \in InCall /\ UNCHANGED <<pages, device, ghosts>>
    BY <1>6, Found DEF InCall, Mapping
  <2>2. CASE pc'[c] = "room" /\ \A i \in Slots : Live(i) => ce_id[i] # want[c][1]
    <3>1. \A b \in Blocks : Stored(b)
      BY <2>1, <2>2, AllClean
    <3> QED  BY <2>1, <2>2, <3>1 DEF ClientAt, Growing, MakingRoom, Reading, Synced, Stored
  <2>3. ASSUME NEW i \in Slots, Live(i), pc'[c] = "grow", cur'[c] = i
        PROVE  ClientAt(c)'
    BY <2>1, <2>3 DEF ClientAt, Growing, MakingRoom, Reading, Synced, Live
  <2> QED  BY <1>3, <1>6, <2>2, <2>3, Found
<1>7. CASE GrowLock(c)
  <2>1. /\ pc[c] = "grow" /\ pc[c] \in InCall /\ UNCHANGED <<pages, device, ghosts, cur, want>>
        /\ pc'[c] = IF "DIRTY" \in ce_flags[k] THEN "grow_seek" ELSE "realloc"
        /\ ce_mutex'[k] = c
    BY <1>0, <1>7 DEF GrowLock, Goto, InCall, Mapping, Growing
  <2>2. Live(k) /\ ce_id[k] = want[c][1]
    BY <1>1, <2>1 DEF ClientAt, Seen, Growing
  <2>3. \A i \in Slots : i # k /\ Live(i) => ce_id[i] # want[c][1]
    BY <1>0, <2>1, <2>2, Working DEF WInv, IInv, Distinct
  <2>4. pc'[c] = "realloc" => \A b \in Blocks : Stored(b)
    BY <2>1, <2>3, AllClean
  <2> QED  BY <2>1, <2>2, <2>4 DEF ClientAt, Growing, MakingRoom, Reading, Synced, Stored, Live
<1>8. CASE FlushSeek(c, "grow_seek", "grow_write")
  <2>1. /\ pc[c] = "grow_seek" /\ pc'[c] = "grow_write" /\ offset' = pe_block_addr(k)
        /\ UNCHANGED <<pages, cur, ce_mutex>> /\ pc[c] \in InCall
    BY <1>0, <1>8 DEF FlushSeek, LSeek, Step, Goto, InCall, Mapping, Growing
  <2>2. Live(k) /\ ce_id[k] = want[c][1] /\ ce_mutex[k] = c
    BY <1>1, <2>1 DEF ClientAt, Seen, Growing
  <2>3. ce_id[k] # NoAddr
    BY <2>1, <2>2, Working
  <2> QED  BY <2>1, <2>2, <2>3
           DEF ClientAt, Growing, MakingRoom, Reading, Synced, Live, pe_block_addr
<1>9. CASE FlushWrite(c, "grow_write", "realloc")
  <2>1. /\ pc[c] = "grow_write" /\ pc'[c] = "realloc" /\ UNCHANGED <<pages, cur, ce_mutex>>
    BY <1>0, <1>9 DEF FlushWrite, Step, Goto
  <2>2. \A b \in Blocks : Stored(b)'
    BY <1>9, GrowWriteTable
  <2> QED  BY <1>1, <2>1, <2>2 DEF ClientAt, Growing, MakingRoom, Reading, Synced, Live
<1>10. CASE Realloc(c)
  <2>1. CASE Step(c, "realloc", "read_seek") /\ UNCHANGED <<locks, pages, device, ghosts>>
    <3>1. pc[c] = "realloc" /\ pc'[c] = "read_seek" /\ UNCHANGED <<cur, want>>
      BY <1>0, <2>1 DEF Step, Goto
    <3> QED  BY <1>1, <2>1, <3>1
             DEF ClientAt, Growing, MakingRoom, Reading, Synced, Live, Stored
  <2>2. CASE Return(c, NoPage)
    BY <1>0, <1>3, <2>2 DEF Return, Goto
  <2> QED  BY <1>10, <2>1, <2>2 DEF Realloc
\* Making room: the device stays as it is, and no victim is dirty.
<1>11. CASE Room(c) \/ VictimLock(c) \/ VictimFree(c)
  <2>1. /\ pc[c] \in MakingRoom /\ UNCHANGED <<disk, newest>> /\ pc[c] \in InCall
        /\ \/ pc'[c] \in {"victim", "victim_free", "new"}
           \/ pc'[c] = "victim_seek" /\ "DIRTY" \in ce_flags[k]
    BY <1>0, <1>11 DEF Room, VictimLock, VictimFree, Step, Goto, MakingRoom, InCall, Mapping
  <2>2. "DIRTY" \notin ce_flags[k]
    BY <1>0, <1>1, <2>1, AllClean DEF Seen
  <2>3. \A b \in Blocks : Stored(b)'
    BY <1>1, <2>1 DEF ClientAt, Synced, Stored
  <2> QED  BY <2>1, <2>2, <2>3 DEF ClientAt, Growing, MakingRoom, Reading, Synced
<1>12. CASE FlushSeek(c, "victim_seek", "victim_write")
            \/ FlushWrite(c, "victim_write", "victim_free")
  BY <1>1, <1>12 DEF FlushSeek, FlushWrite, Step, ClientAt
<1>13. CASE New(c)
  <2>1. /\ pc[c] = "new" /\ pc'[c] = "malloc" /\ UNCHANGED <<disk, newest, cur>>
        /\ slot'[k] = "live" /\ ce_id'[k] = NoAddr
    BY <1>0, <1>13 DEF New, Step, Goto
  <2>2. \A b \in Blocks : Stored(b)'
    BY <1>1, <2>1 DEF ClientAt, Synced, MakingRoom, Stored
  <2> QED  BY <2>1, <2>2 DEF ClientAt, Growing, MakingRoom, Reading, Synced, Live
<1>14. CASE Malloc(c)
  <2>1. CASE Step(c, "malloc", "read_seek") /\ UNCHANGED <<pages, device, ghosts>>
    <3>1. pc[c] = "malloc" /\ pc'[c] = "read_seek" /\ UNCHANGED <<cur, want>>
      BY <1>0, <2>1 DEF Step, Goto
    <3>2. Live(k) /\ ce_id[k] = NoAddr
      BY <1>1, <3>1 DEF ClientAt
    <3>3. "CLEAN" \in ce_flags[k]
      BY <1>0, <3>2, Constants DEF WInv, TableInv, ExtentInv, Mapped, Bare, FlagsInv
    <3> QED  BY <1>1, <2>1, <3>1, <3>2, <3>3
             DEF ClientAt, Growing, MakingRoom, Reading, Synced, Live, Stored
  <2>2. CASE pc'[c] = "idle"
    BY <1>3, <2>2
  <2> QED  BY <1>0, <1>14, <2>1, <2>2 DEF Malloc, Return, Goto
<1>15. CASE ReadSeek(c)
  <2>1. /\ pc[c] = "read_seek" /\ pc'[c] = "read" /\ offset' = want[c][1]
        /\ UNCHANGED <<pages, cur, want, ce_mutex, disk, newest>>
    BY <1>0, <1>15 DEF ReadSeek, LSeek, Step, Goto
  <2> QED  BY <1>1, <2>1 DEF ClientAt, Growing, MakingRoom, Reading, Synced, Live, Stored
<1> QED  BY <1>4, <1>5, <1>6, <1>7, <1>8, <1>9, <1>10, <1>11, <1>12, <1>13, <1>14, <1>15
         DEF ClientNext

\* The client is kept off the page that the thread works on, by its mutex or by
\* the rules of careful clients, and off the file offset while the thread writes.
LEMMA ClientThread ==
  ASSUME OneCareful, Apart, WInv, NEW c \in Clients, ClientNext(c)
  PROVE  ThreadInv'
<1> USE DEF vars, locks, pages, device, ghosts, calls
<1>t. PICK t \in Slots : t = cur[Thread]
  BY Constants, Types DEF WInv
<1>0. /\ pc \in [Procs -> Labels] /\ c \in Procs /\ c # Thread /\ Thread # NoOne /\ c # NoOne
      /\ cur[c] \in Slots /\ handle[c] \in Slots \union {NoPage}
      /\ ce_mutex \in [Slots -> Procs \union {NoOne}]
      /\ ce_flags \in [Slots -> SUBSET {"CLEAN", "DIRTY", "EVICT"}]
      /\ slot \in [Slots -> {"empty", "live", "freed"}]
      /\ mem \in [Slots -> Seq(Contents)]
  BY Constants, Types DEF WInv
<1>1. ThreadAt(t, pc[Thread])
  BY <1>t DEF WInv, ActorInv, ThreadInv
<1>2. SUFFICES ASSUME NEW l, l = pc[Thread] PROVE ThreadAt(t, l)'
  BY <1>t, ClientLeaves DEF ThreadInv
<1>3. seen' = seen
  BY ClientLeaves
<1>4. handle[c] # NoPage => Held(c)
  BY DEF WInv, ActorInv, HandleInv
\* A busy client: the thread waits, or only looks.
<1>5. CASE l = "idle"
  BY <1>5 DEF ThreadAt, ThreadLabels
<1>6. CASE l = "lock" /\ UNCHANGED <<slot, ce_flags>>
  BY <1>1, <1>2, <1>3, <1>6 DEF ThreadAt, ThreadLabels, Live
<1>7. ASSUME pc[c] \in Busy, pc[c] \in MakingRoom \union {"malloc"} \/ UNCHANGED <<slot, ce_flags>>
      PROVE  ThreadAt(t, l)'
  BY <1>2, <1>5, <1>6, <1>7, ThreadQuiet
<1>8. CASE VictimLock(c) \/ VictimFree(c) \/ New(c) \/ Malloc(c) \/ Room(c)
  BY <1>7, <1>8 DEF VictimLock, VictimFree, New, Malloc, Room, Step, Busy, MakingRoom
<1>9. CASE Realloc(c) \/ ReadSeek(c) \/ ReadPage(c)
  BY <1>7, <1>9 DEF Realloc, ReadSeek, ReadPage, Step, Busy, Growing, Reading
<1>10. ASSUME NEW a \in Busy, NEW b, FlushSeek(c, a, b) \/ FlushWrite(c, a, b)
       PROVE  ThreadAt(t, l)'
  BY <1>7, <1>10 DEF FlushSeek, FlushWrite, Step
\* A client that calls, or searches the table.
<1>11. ASSUME UNCHANGED <<pages, device, ghosts>>, pc[c] # "mark",
              ce_mutex[t] = Thread => ce_mutex'[t] = Thread,
              pc'[c] \in InCall => pc[c] \in InCall \/ slot[t] # "freed"
       PROVE  ThreadAt(t, l)'
  <2>1. \A b \in Covered(t) : b \in Covered(t)' /\ Stored(b)' = Stored(b)
    BY <1>11 DEF Covered, Stored
  <2>2. Covered(t)' = Covered(t)
    BY <1>11 DEF Covered
  <2>3. l = "settle" => \A b \in Covered(t) : Stored(b)
    BY <1>1, <1>2, <1>11, NothingToMark DEF ThreadAt
  <2>4. l = "clear" => slot'[t] = "freed" /\ \A d \in Clients : pc'[d] \notin InCall
    BY <1>1, <1>2, <1>11 DEF ThreadAt, OneCareful
  <2>5. l = "settle" => \A b \in Covered(t)' : Stored(b)'
    BY <1>11, <2>2, <2>3 DEF Stored, Covered
  <2> QED  BY <1>1, <1>2, <1>3, <1>11, <2>4, <2>5 DEF ThreadAt, ThreadLabels, Live
<1>12. CASE CallMap(c)
  <2>1. slot[t] # "freed"
    BY <1>12 DEF CallMap, MayMap, OneCareful
  <2> QED  BY <1>11, <1>12, <2>1 DEF CallMap
<1>13. CASE PcLock(c)
  BY <1>11, <1>13 DEF PcLock, InCall
<1>14. CASE Scan(c)
  BY <1>11, <1>14 DEF Scan, InCall, Mapping
<1>15. CASE GrowLock(c)
  <2>1. ce_mutex[t] = Thread => ce_mutex'[t] = Thread
    BY <1>0, <1>15 DEF GrowLock
  <2> QED  BY <1>11, <1>15, <2>1 DEF GrowLock, InCall, Mapping, Growing
\* The page may change while the thread writes it: then it will be marked again.
<1>16. CASE Change(c)
  <2> DEFINE k == handle[c]
  <2>1. /\ pc'[c] = "mark" /\ handle' = handle /\ k \in Slots /\ Live(k)
        /\ UNCHANGED <<slot, ce_flags, ce_id, offset, disk, ce_mutex>> /\ pc[c] = "idle"
        /\ \A i \in Slots \ {k} : mem'[i] = mem[i]
        /\ \A b \in Blocks : b \notin Covered(k) => newest'[b] = newest[b]
    BY <1>0, <1>4, <1>16, Types DEF Change, Goto, Held, WInv
  <2>2. CASE t = k
    <3>1. AtMark(t)'
      BY <2>1, <2>2 DEF AtMark
    <3>2. \A d \in Clients : pc'[d] \notin InCall
      BY <2>1 DEF OneCareful, InCall, Mapping, Growing, MakingRoom, Reading
    <3> QED  BY <1>1, <1>2, <1>3, <2>1, <3>1, <3>2 DEF ThreadAt, ThreadLabels, Live
  <2>3. CASE t # k
    <3>1. Live(t) => \A b \in Covered(t) : b \notin Covered(k)
      BY <2>1, <2>3, PagesApart DEF WInv, TableInv
    <3>2. Covered(t)' = Covered(t)
      BY <2>1, <2>3 DEF Covered
    <3>3. Live(t) => \A b \in Covered(t) : newest'[b] = newest[b]
      BY <2>1, <3>1 DEF Covered
    <3>4. l = "settle" => Live(t) /\ \A b \in Covered(t) : Stored(b)
      BY <1>1, <1>2, <2>1, NothingToMark DEF ThreadAt, ThreadLabels
    <3>5. l = "settle" => \A b \in Covered(t)' : Stored(b)'
      BY <2>1, <3>2, <3>3, <3>4 DEF Stored
    <3>6. \A d \in Clients : pc'[d] \notin InCall
      BY <2>1 DEF OneCareful, InCall, Mapping, Growing, MakingRoom, Reading
    <3> QED  BY <1>1, <1>2, <1>3, <2>1, <3>5, <3>6 DEF ThreadAt, ThreadLabels, Live
  <2> QED  BY <2>2, <2>3
<1>17. CASE MarkDirty(c) \/ MarkEviction(c)
  <2> DEFINE k == handle[c]
  <2>1. /\ pc[c] \in {"idle", "mark"} /\ pc'[c] = "idle"
        /\ UNCHANGED <<slot, ce_id, mem, offset, disk, newest, ce_mutex>>
        /\ Flag(k, Marked(ce_flags[k])) \/ (Flag(k, ce_flags[k] \union {"EVICT"}) /\ pc[c] = "idle")
    BY <1>0, <1>17 DEF MarkDirty, MarkEviction, Step, Goto
  <2>2. CASE k = NoPage \/ k # t
    <3>1. ce_flags'[t] = ce_flags[t]
      BY <1>0, <2>1, <2>2, Constants DEF Flag
    <3>2. ~AtMark(t)
      BY <2>2, Constants DEF AtMark, OneCareful
    <3>3. Covered(t)' = Covered(t) /\ \A b \in Covered(t) : Stored(b) => Stored(b)'
      BY <2>1 DEF Covered, Stored
    <3>4. \A d \in Clients : pc'[d] \notin InCall
      BY <2>1 DEF OneCareful, InCall, Mapping, Growing, MakingRoom, Reading
    <3>5. l = "settle" => \A b \in Covered(t)' : Stored(b)'
      BY <1>1, <1>2, <3>2, <3>3 DEF ThreadAt
    <3> QED  BY <1>1, <1>2, <1>3, <2>1, <3>1, <3>4, <3>5 DEF ThreadAt, ThreadLabels, Live
  <2>3. CASE k # NoPage /\ k = t
    <3>1. Live(t) /\ "EVICT" \notin ce_flags[t] /\ ce_mutex[t] = NoOne
      BY <1>4, <2>1, <2>3 DEF Held, Flag, Live
    <3>2. /\ ce_flags'[t] \in {Marked(ce_flags[t]), ce_flags[t] \union {"EVICT"}}
      BY <1>0, <2>1, <2>3, <3>1 DEF Flag, Live
    <3>3. l \in {"idle", "lock"}
      BY <1>0, <1>1, <1>2, <3>1 DEF ThreadAt, ThreadLabels, Live
    <3>4. l = "lock" => "DIRTY" \in seen
      BY <1>1, <1>2, <3>1 DEF ThreadAt, ThreadLabels
    <3> QED  BY <1>1, <1>2, <1>3, <2>1, <3>1, <3>2, <3>3, <3>4
             DEF ThreadAt, ThreadLabels, Live, Marked
  <2> QED  BY <2>2, <2>3
<1> QED  BY <1>8, <1>9, <1>10, <1>12, <1>13, <1>14, <1>15, <1>16, <1>17
         DEF ClientNext, Busy, Growing, MakingRoom

-----------------------------------------------------------------------------
(* The theorems.                                                             *)

\* The invariant holds of an empty cache.
LEMMA WInit ==
  ASSUME Init PROVE TableInv /\ ActorInv
<1> USE DEF Init
<1>1. /\ \A c \in Clients : pc[c] = "idle" /\ handle[c] = NoPage
      /\ \A i \in Slots : ~Live(i) /\ ce_flags[i] = {}
      /\ \A b \in Blocks : Stored(b) /\ newest[b] <= clock
      /\ pc[Thread] = "idle"
  BY Constants DEF Live, Stored
<1>2. TableInv
  BY <1>1 DEF TableInv, FlagsInv, ExtentInv, PageInv, NothingLost, Stored, ClockInv
<1>3. ActorInv
  BY <1>1 DEF ActorInv, WantInv, HandleInv, CallInv, StepInv, ClientAt, ThreadInv, ThreadAt,
              ThreadLabels, InCall, Mapping, Growing, MakingRoom, Reading, Synced
<1> QED  BY <1>2, <1>3

\* Every step keeps what is said of the table and of the actors.
LEMMA WStep ==
  ASSUME OneCareful, Apart, WInv, [Next]_vars
  PROVE  TableInv' /\ ActorInv'
<1>1. CASE ThreadNext
  BY <1>1, ThreadTable, ThreadActor
<1>2. ASSUME NEW c \in Clients, ClientNext(c) PROVE TableInv' /\ ActorInv'
  BY <1>2, ClientTable, ClientWant, ClientHandle, ClientCall, ClientStep, ClientThread
     DEF ActorInv
<1>3. CASE UNCHANGED vars
  <2> USE <1>3 DEF vars, locks, pages, device, ghosts, calls
  <2>1. /\ \A i \in Slots : Covered(i)' = Covered(i) /\ (Live(i)' <=> Live(i))
        /\ \A b \in Blocks : Stored(b)' <=> Stored(b)
    BY DEF Covered, Live, Stored
  <2>2. FlagsInv' /\ ExtentInv' /\ ClockInv' /\ WantInv'
    BY DEF WInv, TableInv, ActorInv, FlagsInv, ExtentInv, Mapped, Bare, Live, ClockInv, WantInv
  <2>3. PageInv'
    BY DEF WInv, TableInv, PageInv, ShowsNewest, Fresh, ShowsBlank, Covered, At, Live
  <2>6. NothingLost'
    BY DEF WInv, TableInv, NothingLost, Covered, At
  <2>4. HandleInv' /\ CallInv' /\ StepInv'
    BY DEF WInv, ActorInv, HandleInv, Held, CallInv, StepInv, ClientAt, Live, Stored
  <2>5. ThreadInv'
    BY DEF WInv, ActorInv, ThreadInv, ThreadAt, Live, Stored, AtMark, Covered
  <2> QED  BY <2>2, <2>3, <2>4, <2>5, <2>6 DEF TableInv, ActorInv
<1> QED  BY <1>1, <1>2, <1>3 DEF Next

\* With one careful client and extents that do not overlap, pages show the newest
\* data, whatever the thread, an LRU eviction, a failed malloc() or realloc() do.
THEOREM WriteBackInvariant ==
  ASSUME OneCareful, Apart PROVE Spec => []WInv
<1>1. Init => TableInv /\ ActorInv
  BY WInit
<1>2. TableInv /\ ActorInv /\ IInv /\ [Next]_vars => (TableInv /\ ActorInv)'
  BY WStep DEF WInv
<1>3. IInv /\ TableInv /\ ActorInv => WInv
  BY DEF WInv
<1> QED  BY <1>1, <1>2, <1>3, PageCacheInvariant, PTL DEF Spec

\* A write that is not on the device yet is in a page that is DIRTY or about to
\* be marked: what the thread, an eviction or a growing page drop is stored.
THEOREM NoWriteIsLost ==
  ASSUME OneCareful, Apart PROVE Spec => []NothingLost
<1>1. WInv => NothingLost
  BY DEF WInv, TableInv
<1> QED  BY <1>1, WriteBackInvariant, PTL

\* What a mapping returns covers the blocks asked for and shows their newest
\* data, or the zeros of pgcache_element_map_zero().
THEOREM MappedIsCoherent ==
  ASSUME OneCareful, Apart PROVE Spec => []Coherent
<1>1. WInv => Coherent
  <2> SUFFICES ASSUME WInv, NEW c \in Clients, handle[c] # NoPage, NEW i, i = handle[c],
                      mem[i] # <<>>
               PROVE  /\ Len(mem[i]) >= want[c][2]
                      /\ \A b \in Covered(i) : At(i, b) \in {<<b, newest[b]>>, Blank}
    BY DEF Coherent
  <2>1. /\ i \in Slots /\ Live(i) /\ ce_id[i] # NoAddr /\ want[c][2] <= pe_num_blocks[i]
    BY Types DEF WInv, ActorInv, HandleInv, Held
  <2>2. Len(mem[i]) = pe_num_blocks[i]
    BY <2>1 DEF WInv, TableInv, ExtentInv, Mapped, Bare
  <2>3. ShowsNewest(i) \/ ShowsBlank(i)
    BY <2>1 DEF WInv, TableInv, PageInv, Fresh
  <2>4. ShowsBlank(i) => \A b \in Covered(i) : At(i, b) = Blank
    BY <2>1, BlankCovered DEF WInv
  <2>5. Len(mem[i]) >= want[c][2]
    BY <2>1, <2>2, Types DEF WInv
  <2> QED  BY <2>3, <2>4, <2>5 DEF ShowsNewest
<1> QED  BY <1>1, WriteBackInvariant, PTL

\* What a step does to the device and to the newest versions, seen from outside.
StoreStep(bs) ==
  /\ newest' = newest
  /\ disk' = [b \in Blocks |-> IF b \in bs THEN <<b, newest[b]>> ELSE disk[b]]
ChangeStep(bs, v) ==
  /\ disk' = disk /\ \A b \in Blocks : newest[b] < v
  /\ newest' = [b \in Blocks |-> IF b \in bs THEN v ELSE newest[b]]

\* Seen from outside, a step writes newest data to some blocks of the device, or
\* is a write of a client, or nothing.
LEMMA OutsideSteps ==
  ASSUME OneCareful, Apart, WInv, [Next]_vars
  PROVE  \/ UNCHANGED <<newest, disk>>
         \/ \E bs \in SUBSET Blocks : StoreStep(bs)
         \/ \E bs \in (SUBSET Blocks) \ {{}}, v \in 1 .. MaxWrites : ChangeStep(bs, v)
<1> USE DEF vars, locks, pages, device, ghosts, calls
<1>1. CASE ThreadNext
  <2>1. newest' = newest
    BY <1>1, ThreadLeavesAll DEF ThreadLeaves
  <2>2. Covered(cur[Thread]) \in SUBSET Blocks
    BY DEF Covered
  <2> QED  BY <1>1, <2>1, <2>2, ThreadWrites DEF StoreStep
<1>2. ASSUME NEW c \in Clients, FlushWrite(c, "grow_write", "realloc")
      PROVE  \E bs \in SUBSET Blocks : StoreStep(bs)
  <2>1. \A b \in Blocks : Stored(b)'
    BY <1>2, GrowWriteTable
  <2>4. newest' = newest
    BY <1>2 DEF FlushWrite
  <2>2. disk' = Written(cur[c])
    BY <1>2 DEF FlushWrite, Write
  <2>3. disk' = [b \in Blocks |-> <<b, newest[b]>>]
    BY <2>1, <2>2, <2>4 DEF Stored, Written
  <2>5. StoreStep(Blocks)
    BY <2>3, <2>4 DEF StoreStep
  <2> QED  BY <2>5
<1>3. ASSUME NEW c \in Clients, FlushWrite(c, "victim_write", "victim_free")
      PROVE  FALSE
  BY <1>3 DEF FlushWrite, Step, WInv, ActorInv, StepInv, ClientAt
<1>4. ASSUME NEW c \in Clients, Change(c)
      PROVE  \E bs \in (SUBSET Blocks) \ {{}}, v \in 1 .. MaxWrites : ChangeStep(bs, v)
  <2> DEFINE i == handle[c]
  <2>1. /\ i # NoPage /\ mem[i] # <<>> /\ clock < MaxWrites /\ disk' = disk
        /\ newest' = [b \in Blocks |-> IF b \in Covered(i) THEN clock + 1 ELSE newest[b]]
    BY <1>4 DEF Change
  <2>2. i \in Slots /\ Live(i) /\ ce_id[i] \in Blocks
    BY <2>1, Types DEF WInv, ActorInv, HandleInv, Held
  <2>3. Len(mem[i]) \in Nat \ {0}
    BY <2>1, <2>2, Types, EmptySeq, LenProperties DEF WInv
  <2>4. ce_id[i] \in Covered(i)
    <3>1. ASSUME NEW a \in Int, NEW n \in Nat \ {0}
          PROVE  a \in a .. (a + n - 1)
      OBVIOUS
    <3>2. Blocks \subseteq Int
      BY Constants
    <3>3. ce_id[i] \in ce_id[i] .. (ce_id[i] + Len(mem[i]) - 1)
      BY <2>2, <2>3, <3>1, <3>2
    <3> QED  BY <2>2, <3>3 DEF Covered
  <2>5. Covered(i) \in (SUBSET Blocks) \ {{}}
    BY <2>4 DEF Covered
  <2>6. clock + 1 \in 1 .. MaxWrites /\ \A b \in Blocks : newest[b] < clock + 1
    BY <2>1, Types, PagesAssumption DEF WInv, TableInv, ClockInv
  <2> HIDE DEF i
  <2>7. ChangeStep(Covered(i), clock + 1)
    BY <2>1, <2>6 DEF ChangeStep
  <2> QED  BY <2>5, <2>6, <2>7
<1>5. ASSUME NEW c \in Clients, ClientNext(c)
      PROVE  \/ UNCHANGED <<newest, disk>> \/ Change(c)
             \/ FlushWrite(c, "grow_write", "realloc")
             \/ FlushWrite(c, "victim_write", "victim_free")
  BY <1>5 DEF ClientNext, CallMap, PcLock, Scan, GrowLock, FlushSeek, LSeek, Realloc, Room,
              VictimLock, VictimFree, New, Malloc, ReadSeek, ReadPage, Read, MarkDirty,
              MarkEviction
<1>6. CASE UNCHANGED vars
  BY <1>6
<1> QED  BY <1>1, <1>2, <1>3, <1>4, <1>5, <1>6 DEF Next

\* Blocks of the device hold data of their own.
OwnData == \A b \in Blocks : disk[b][1] = b

\* No write lands at the address of another page, nor a read: the lseek() of one
\* actor is not followed by the read() or write() of another.
THEOREM DataIsPlaced ==
  ASSUME OneCareful, Apart PROVE Spec => []Placed
<1>1. Init => OwnData
  BY DEF Init, OwnData
<1>2. WInv /\ OwnData /\ [Next]_vars => OwnData'
  <2> SUFFICES ASSUME WInv, OwnData, [Next]_vars PROVE OwnData'
    OBVIOUS
  <2>1. UNCHANGED disk \/ \E bs \in SUBSET Blocks : StoreStep(bs)
    BY OutsideSteps DEF ChangeStep
  <2> QED  BY <2>1 DEF OwnData, StoreStep
<1>3. WInv /\ OwnData => Placed
  <2> SUFFICES ASSUME WInv, NEW i \in Slots, Live(i), NEW b \in Covered(i)
               PROVE  At(i, b)[1] = b \/ At(i, b) = Blank
    BY DEF Placed, OwnData, Live
  <2>1. ShowsNewest(i) \/ ShowsBlank(i)
    BY NoMemory DEF WInv, TableInv, PageInv, Fresh
  <2> QED  BY <2>1, BlankCovered DEF ShowsNewest, WInv
<1> QED  BY <1>1, <1>2, <1>3, WriteBackInvariant, PTL DEF Spec

\* The page cache with its thread, its pages and its mutexes is a write-back
\* store: no block of the device goes back, gets data of another or skips ahead.
THEOREM RefinesWriteBack ==
  ASSUME OneCareful, Apart PROVE Spec => ImplementsWriteBack
<1> DEFINE stored == [b \in Blocks |-> Version(b)]
<1>1. Init => WB!WriteBackInit
  BY DEF Init, WB!WriteBackInit, Version
<1>2. ASSUME WInv, [Next]_vars
      PROVE  [WB!WriteBackNext]_<<newest, stored>>
  <2>1. CASE UNCHANGED <<newest, disk>>
    BY <2>1 DEF Version
  <2>2. ASSUME NEW bs \in SUBSET Blocks, StoreStep(bs)
        PROVE  WB!WriteBackNext \/ UNCHANGED <<newest, stored>>
    <3>1. newest' = newest
      BY <2>2 DEF StoreStep
    <3>2. stored' = [b \in Blocks |-> IF b \in bs THEN newest[b] ELSE stored[b]]
      BY <2>2 DEF StoreStep, Version
    <3>3. CASE bs = {}
      BY <3>1, <3>2, <3>3
    <3>4. CASE bs # {}
      <4>1. WB!Persist(bs)
        BY <3>1, <3>2 DEF WB!Persist
      <4> QED  BY <3>4, <4>1 DEF WB!WriteBackNext
    <3> QED  BY <3>3, <3>4
  <2>3. ASSUME NEW bs \in (SUBSET Blocks) \ {{}}, NEW v \in 1 .. MaxWrites, ChangeStep(bs, v)
        PROVE  WB!WriteBackNext
    <3>1. WB!WriteBlocks(bs)
      BY <2>3 DEF ChangeStep, WB!WriteBlocks, Version
    <3> QED  BY <3>1 DEF WB!WriteBackNext
  <2> QED  BY <1>2, <2>1, <2>2, <2>3, OutsideSteps
<1>3. WInv /\ [Next]_vars => [WB!WriteBackNext]_<<newest, stored>>
  BY <1>2
<1> QED  BY <1>1, <1>3, WriteBackInvariant, PTL DEF Spec, ImplementsWriteBack, WB!WriteBackSpec

=============================================================================
