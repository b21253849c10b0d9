---------------------------- MODULE LibraryProofs ----------------------------
(* Proofs about the three libraries, which share nothing: what the functions *)
(* of BitMap return, for every width of a byte and size of a map; that an    *)
(* entry of Dict has memory and a string one owner; and that the ring of     *)
(* AllocList is what is allocated.                                           *)
EXTENDS BitMap, Dict, AllocList, MapProofs, SequenceTheorems, FiniteSetTheorems

-----------------------------------------------------------------------------
(* The bitmap: what its functions return.                                    *)

\* The map has room for its bits.
LEMMA BitsFit == AllBits \in Nat /\ total_bits \in Nat \ {0} /\ total_bits <= AllBits
<1> DEFINE B == BytesOf(total_bits)
           x == total_bits + Width - 1
<1>1. total_bits \in Nat \ {0} /\ Width \in Nat /\ Width > 1 /\ x \in Nat
  BY MapAssumption, WidthAssumption
<1>2. B \in Nat /\ x % Width \in 0 .. Width - 1 /\ x = B * Width + (x % Width)
  BY <1>1, DivMod DEF BytesOf
<1>3. B * Width \in Nat
  BY <1>1, <1>2
<1> DEFINE r == x % Width
           bw == B * Width
<1>4. r \in 0 .. Width - 1 /\ total_bits + Width - 1 = bw + r /\ bw \in Nat
  BY <1>2, <1>3
<1> HIDE DEF r, bw
<1>5. total_bits <= bw
  BY <1>1, <1>4
<1> QED  BY <1>1, <1>4, <1>5 DEF AllBits, bw

\* One call or the look at its result, from any state.
LEMMA CallShows ==
  ASSUME Next
  PROVE  OthersKept' /\ SuccessSets' /\ CountExact' /\ FindComplete' /\ GrowExact'
<1>0. total_bits \in Nat /\ Counts \subseteq Nat /\ \A a \in Args : a \in Nat
  BY MapAssumption DEF Args
<1>1. ASSUME NEW op \in {"get", "count", "find", "can_grow"}, NEW a, NEW n, NEW v, NEW r,
             Looks(op, a, n, v, r)
      PROVE  /\ OthersKept' /\ SuccessSets' /\ bm' = bm
             /\ last'.op = op /\ last'.a = a /\ last'.n = n /\ last'.v = v
             /\ last'.rc = r.rc /\ last'.out = r.out
  BY <1>1 DEF Looks, Answers, OthersKept, SuccessSets
<1>2. ASSUME NEW op \in {"set", "set_extent"}, NEW a \in Nat, NEW n \in Nat, NEW v \in {0, 1},
             NEW r, Changes(op, a, n, v, r), Confined(bm, a, n, r), Filled(a, n, v, r),
             a + n > total_bits => r.bm = bm
      PROVE  OthersKept' /\ SuccessSets' /\ CountExact' /\ FindComplete' /\ GrowExact'
  <2>1. /\ last'.op = op /\ last'.a = a /\ last'.n = n /\ last'.v = v /\ last'.old = bm
        /\ last'.rc = r.rc /\ bm' = r.bm
    BY <1>2 DEF Changes, Answers
  <2>2. OthersKept'
    BY <1>0, <1>2, <2>1 DEF OthersKept, Sets, Extent, Confined
  <2>3. SuccessSets'
    BY <1>2, <2>1 DEF SuccessSets, InRange, Extent, Filled
  <2>4. CountExact' /\ FindComplete' /\ GrowExact'
    BY <2>1 DEF CountExact, FindComplete, GrowExact, Called
  <2> QED  BY <2>2, <2>3, <2>4
<1>3. ASSUME NEW a \in Args, NEW v \in {0, 1}, Set(a, v)
      PROVE  OthersKept' /\ SuccessSets' /\ CountExact' /\ FindComplete' /\ GrowExact'
  <2>1. a \in Nat /\ (a + 1 > total_bits => a >= total_bits)
    BY <1>0 DEF Args
  <2> QED  BY <1>0, <1>2, <1>3, <2>1, SetBitDoes DEF Set
<1>4. ASSUME NEW a \in Args, NEW n \in Args, NEW v \in {0, 1}, SetExtent(a, n, v)
      PROVE  OthersKept' /\ SuccessSets' /\ CountExact' /\ FindComplete' /\ GrowExact'
  <2>1. a \in Nat /\ n \in Nat
    BY <1>0
  <2> QED  BY <1>0, <1>2, <1>4, <2>1, SetExtentDoes DEF SetExtent
<1>5. ASSUME NEW a \in Args, Get(a)
      PROVE  OthersKept' /\ SuccessSets' /\ CountExact' /\ FindComplete' /\ GrowExact'
  BY <1>1, <1>5 DEF Get, CountExact, FindComplete, GrowExact, Called
<1>6. ASSUME NEW a \in Args, NEW n \in Args, NEW v \in {0, 1}, Count(a, n, v)
      PROVE  OthersKept' /\ SuccessSets' /\ CountExact' /\ FindComplete' /\ GrowExact'
  <2> DEFINE r == bm_count(bm, total_bits, a, n, v)
  <2>1. /\ OthersKept' /\ SuccessSets' /\ bm' = bm
        /\ last'.op = "count" /\ last'.a = a /\ last'.n = n /\ last'.v = v
        /\ last'.rc = r.rc /\ last'.out = r.out
    BY <1>1, <1>6 DEF Count
  <2>2. n > 0 /\ a + n <= total_bits => r.rc = 0 /\ Run(bm, a, r.out, n, v)
    <3>1. a \in Nat /\ n \in Nat
      BY <1>0
    <3> QED  BY <1>0, <3>1, CountDoes
  <2> HIDE DEF r
  <2>3. CountExact'
    BY <2>1, <2>2 DEF CountExact, InRange, Run
  <2> QED  BY <2>1, <2>3 DEF FindComplete, GrowExact, Called
<1>7. ASSUME NEW a \in Args, NEW n \in Args, NEW count \in Counts, Find(a, count, n)
      PROVE  OthersKept' /\ SuccessSets' /\ CountExact' /\ FindComplete' /\ GrowExact'
  <2> DEFINE r == bm_find(bm, total_bits, a, count, n)
  <2>1. /\ OthersKept' /\ SuccessSets' /\ bm' = bm
        /\ last'.op = "find" /\ last'.a = a /\ last'.n = count /\ last'.v = n
        /\ last'.rc = r.rc /\ last'.out = r.out
    BY <1>1, <1>7 DEF Find
  <2>2. r.rc = -1 /\ n > 0 => ~\E g \in a .. Lower(a + count, total_bits) - n : Gap(bm, g, n)
    <3>1. a \in Nat /\ n \in Nat /\ count \in Nat
      BY <1>0
    <3> QED  BY <1>0, <3>1, FindDoes
  <2> HIDE DEF r
  <2>3. FindComplete'
    BY <2>1, <2>2 DEF FindComplete, GapAt, Gap
  <2> QED  BY <2>1, <2>3 DEF CountExact, GrowExact, Called
<1>8. ASSUME NEW a \in Args, NEW n \in Args, CanGrow(a, n)
      PROVE  OthersKept' /\ SuccessSets' /\ CountExact' /\ FindComplete' /\ GrowExact'
  <2> DEFINE r == bm_extent_can_grow(bm, total_bits, a, n)
  <2>1. /\ OthersKept' /\ SuccessSets' /\ bm' = bm
        /\ last'.op = "can_grow" /\ last'.a = a /\ last'.n = n
        /\ last'.rc = r.rc /\ last'.out = r.out
    BY <1>1, <1>8 DEF CanGrow
  <2>2. r.rc = 0 <=> n > 0 /\ a + n <= total_bits /\ OnesThenZeros(bm, a, n)
    <3>1. a \in Nat /\ n \in Nat
      BY <1>0
    <3> QED  BY <1>0, <3>1, GrowDoes
  <2> HIDE DEF r
  <2>3. GrowExact'
    BY <2>1, <2>2 DEF GrowExact, InRange, Extent, OnesThenZeros
  <2> QED  BY <2>1, <2>3 DEF CountExact, FindComplete, Called
<1>9. CASE Taken
  BY <1>9 DEF Taken, OthersKept, SuccessSets, CountExact, FindComplete, GrowExact, Called, NoCall
<1> QED  BY <1>3, <1>4, <1>5, <1>6, <1>7, <1>8, <1>9 DEF Next

\* No call changes a bit outside its extent, whatever the width of a byte and
\* the alignment of the extent: the neighbours in a shared byte are kept.
THEOREM NeighboursKept == Spec => []OthersKept
<1>1. Init => OthersKept
  BY DEF Init, OthersKept
<1>2. OthersKept /\ [Next]_vars => OthersKept'
  BY CallShows DEF vars, OthersKept, Sets, Extent
<1> QED  BY <1>1, <1>2, PTL DEF Spec

\* A set or clear that answers 0 has set or cleared the whole extent: its first
\* byte, its whole bytes and its last bits join without a gap.
THEOREM ExtentsSet == Spec => []SuccessSets
<1>1. Init => SuccessSets
  BY DEF Init, NoCall, SuccessSets
<1>2. SuccessSets /\ [Next]_vars => SuccessSets'
  BY CallShows DEF vars, SuccessSets, InRange, Extent, Is
<1> QED  BY <1>1, <1>2, PTL DEF Spec

\* bm_count() counts the run that starts at the address to its end, from bit to bit
\* in the first byte and from byte to byte behind it.
THEOREM CountIsExact == Spec => []CountExact
<1>1. Init => CountExact
  BY DEF Init, NoCall, CountExact, Called
<1>2. CountExact /\ [Next]_vars => CountExact'
  BY CallShows DEF vars, CountExact, Called, InRange, Is
<1> QED  BY <1>1, <1>2, PTL DEF Spec

\* bm_find() misses no gap of the range it is given, one that begins in the middle
\* of a byte and ends in a later one included.
THEOREM FindIsComplete == Spec => []FindComplete
<1>1. Init => FindComplete
  BY DEF Init, NoCall, FindComplete, Called
<1>2. FindComplete /\ [Next]_vars => FindComplete'
  BY CallShows DEF vars, FindComplete, Called, GapAt
<1> QED  BY <1>1, <1>2, PTL DEF Spec

\* bm_extent_can_grow() answers 0 for ones followed by at least one zero, and for
\* nothing else.
THEOREM GrowIsExact == Spec => []GrowExact
<1>1. Init => GrowExact
  BY DEF Init, NoCall, GrowExact, Called
<1>2. GrowExact /\ [Next]_vars => GrowExact'
  BY CallShows DEF vars, GrowExact, Called, InRange, Extent
<1> QED  BY <1>1, <1>2, PTL DEF Spec

\* What a call that changes nothing may answer.
Codes == {Overrun, -5, -3, -2, -1, 0, 1}

\* bm_count() answers no more than the bits there are, an empty extent included.
LEMMA CountAnswers ==
  ASSUME NEW m, NEW a \in Args, NEW n \in Args, NEW v \in {0, 1}
  PROVE  LET r == bm_count(m, total_bits, a, n, v)
         IN  r.rc \in Codes /\ r.out \in 0 .. AllBits
<1> DEFINE r == bm_count(m, total_bits, a, n, v)
           q == a \div Width
           p == a % Width
           x == byte_count_bits(m, q, p, 0, v)
           z == [k |-> q, c |-> 0]
<1>1. total_bits \in Nat \ {0} /\ AllBits \in Nat /\ total_bits <= AllBits /\ a \in Nat /\ n \in Nat
  BY BitsFit DEF Args
<1>2. CASE a >= total_bits \/ a + n > total_bits
  <2>1. r = Result(m, -1, 0)
    BY <1>2 DEF bm_count
  <2> HIDE DEF r
  <2> QED  BY <1>1, <2>1 DEF Codes, Result, r
<1>3. CASE ~(a >= total_bits \/ a + n > total_bits) /\ n > 0
  <2>1. r.rc = 0 /\ Run(m, a, r.out, n, v)
    BY <1>1, <1>3, CountDoes
  <2> HIDE DEF r
  <2>2. r.out \in 0 .. n
    BY <2>1 DEF Run
  <2> QED  BY <1>1, <1>3, <2>1, <2>2 DEF Codes, r
<1>4. CASE ~(a >= total_bits \/ a + n > total_bits) /\ n = 0
  <2>1. p \in 0 .. Width - 1 /\ q \in Nat /\ Width \in Nat
    BY <1>1, DivMod, WidthAssumption
  <2>2. FirstPart(a, n) = 0
    BY <1>4, <2>1 DEF FirstPart, Lower
  <2>3. r = IF p = 0 THEN CountBytes(m, 0, v)[z] ELSE Result(m, 0, x)
    BY <1>4, <2>2 DEF bm_count
  <2>4. CountBytes(m, 0, v)[z] = Result(m, -2, 0)
    <3> DEFINE f == CountBytes(m, 0, v)
    <3>1. z \in Counting(0)
      BY <2>1 DEF Counting
    <3>2. f = [s \in Counting(0) |-> CountBody(m, 0, v, f, s)]
      <4>1. 0 \in Nat
        OBVIOUS
      <4> QED  BY <4>1, CountIsBody
    <3> HIDE DEF f
    <3>3. f[z] = CountBody(m, 0, v, f, z)
      BY <3>1, <3>2
    <3> QED  BY <3>3 DEF CountBody, f
  <2>5. x \in 0 .. 1
    <3> DEFINE S == {b \in p .. p : ~Is(m, Bit(q, b), v)} \union {p + 1}
    <3>1. x = Least(S) - p
      BY DEF byte_count_bits, LastBit
    <3>2. S \subseteq Nat /\ S # {} /\ \A y \in S : y \in p .. p + 1
      BY <2>1
    <3> HIDE DEF S, p, x
    <3>3. Least(S) \in p .. p + 1
      BY <3>2, LeastIs
    <3> QED  BY <2>1, <3>1, <3>3
  <2> HIDE DEF r, x, p, z
  <2>6. \/ r = Result(m, -2, 0)
        \/ r = Result(m, 0, x)
    BY <2>3, <2>4
  <2> QED  BY <1>1, <2>5, <2>6 DEF Codes, Result, r
<1> QED  BY <1>1, <1>2, <1>3, <1>4

\* The bits stay in the bytes of the map, the padding included, and every answer is
\* one that map.h knows or an overrun of the search.
THEOREM MapTypes == Spec => []TypeOK
<1>0. total_bits \in Nat \ {0} /\ AllBits \in Nat /\ total_bits <= AllBits /\ Counts \subseteq Nat
      /\ \A a \in Args : a \in Nat
  BY BitsFit, MapAssumption DEF Args
<1>1. Init => TypeOK
  BY <1>0 DEF Init, NoCall, TypeOK
<1>2. ASSUME TypeOK, [Next]_vars PROVE TypeOK'
  <2>1. ASSUME NEW op, NEW a, NEW n, NEW v, NEW r, Looks(op, a, n, v, r),
               r.rc \in Codes, r.out \in 0 .. AllBits
        PROVE  TypeOK'
    BY <1>2, <2>1 DEF Looks, Answers, TypeOK, Codes
  <2>2. ASSUME NEW op, NEW a \in Nat, NEW n \in Nat, NEW v \in {0, 1},
               NEW r, Changes(op, a, n, v, r), Confined(bm, a, n, r),
               r.bm = bm \/ (a + n <= total_bits /\ a < total_bits),
               r.rc \in {-2, -1, 0}, r.out = 0
        PROVE  TypeOK'
    <3>1. last'.old = bm /\ last'.rc = r.rc /\ last'.out = r.out /\ bm' = r.bm
      BY <2>2 DEF Changes, Answers
    <3>2. r.bm \subseteq 0 .. AllBits - 1
      <4>1. CASE r.bm = bm
        BY <1>2, <4>1 DEF TypeOK
      <4>2. CASE a + n <= total_bits /\ a < total_bits
        <5>1. \A b \in a .. a + n - 1 : b \in 0 .. AllBits - 1
          BY <1>0, <4>2
        <5>2. a \in 0 .. AllBits - 1
          BY <1>0, <4>2
        <5> QED  BY <1>2, <2>2, <5>1, <5>2 DEF Confined, TypeOK
      <4> QED  BY <2>2, <4>1, <4>2
    <3> QED  BY <1>0, <1>2, <2>2, <3>1, <3>2 DEF TypeOK
  <2>3. ASSUME NEW a \in Args, NEW v \in {0, 1}, Set(a, v)
        PROVE  TypeOK'
    <3> DEFINE r == bm_set_bit(bm, total_bits, a, v)
    <3>1. a \in Nat /\ (a < total_bits => a + 1 <= total_bits)
      BY <1>0
    <3>2. Confined(bm, a, 1, r) /\ (a >= total_bits => r.bm = bm)
      BY <1>0, <3>1, SetBitDoes
    <3>3. r.rc \in {-2, -1, 0} /\ r.out = 0
      BY DEF bm_set_bit, Result
    <3>4. Changes("set", a, 1, v, r)
      BY <2>3 DEF Set
    <3> HIDE DEF r
    <3>5. r.bm = bm \/ (a + 1 <= total_bits /\ a < total_bits)
      BY <1>0, <3>1, <3>2
    <3> QED  BY <2>2, <3>1, <3>2, <3>3, <3>4, <3>5
  <2>4. ASSUME NEW a \in Args, NEW n \in Args, NEW v \in {0, 1}, SetExtent(a, n, v)
        PROVE  TypeOK'
    <3> DEFINE r == bm_set_extent(bm, total_bits, a, n, v)
    <3>1. a \in Nat /\ n \in Nat /\ (n > 0 \/ a < total_bits)
      BY <1>0, <2>4 DEF SetExtent
    <3>2. Confined(bm, a, n, r) /\ (a + n > total_bits => r.bm = bm)
      BY <1>0, <3>1, SetExtentDoes
    <3>3. r.rc \in {-2, -1, 0} /\ r.out = 0
      BY <1>0, <3>1 DEF bm_set_extent, bm_set_bit, Result
    <3>4. Changes("set_extent", a, n, v, r)
      BY <2>4 DEF SetExtent
    <3> HIDE DEF r
    <3>5. r.bm = bm \/ (a + n <= total_bits /\ a < total_bits)
      BY <1>0, <3>1, <3>2
    <3> QED  BY <2>2, <3>1, <3>2, <3>3, <3>4, <3>5
  <2>5. ASSUME NEW a \in Args, Get(a)
        PROVE  TypeOK'
    <3> DEFINE r == bm_get_bit(bm, total_bits, a)
    <3>1. r.rc \in Codes /\ r.out \in 0 .. AllBits
      BY <1>0 DEF bm_get_bit, Result, Codes
    <3>2. Looks("get", a, 1, 0, r)
      BY <2>5 DEF Get
    <3> HIDE DEF r
    <3> QED  BY <2>1, <3>1, <3>2
  <2>6. ASSUME NEW a \in Args, NEW n \in Args, NEW v \in {0, 1}, Count(a, n, v)
        PROVE  TypeOK'
    BY <2>1, <2>6, CountAnswers DEF Count
  <2>7. ASSUME NEW a \in Args, NEW n \in Args, NEW count \in Counts, Find(a, count, n)
        PROVE  TypeOK'
    <3> DEFINE r == bm_find(bm, total_bits, a, count, n)
    <3>1. a \in Nat /\ n \in Nat /\ count \in Nat /\ total_bits \in Nat
      BY <1>0
    <3>2. r.rc \in {Overrun, -1, 0} /\ r.out \in 0 .. BytesOf(total_bits) * Width
      BY <3>1, FindDoes
    <3>3. Looks("find", a, count, n, r)
      BY <2>7 DEF Find
    <3> HIDE DEF r
    <3> QED  BY <2>1, <3>2, <3>3 DEF Codes, AllBits
  <2>8. ASSUME NEW a \in Args, NEW n \in Args, CanGrow(a, n)
        PROVE  TypeOK'
    <3> DEFINE r == bm_extent_can_grow(bm, total_bits, a, n)
    <3>1. r.rc \in Codes /\ r.out \in 0 .. AllBits
      BY <1>0 DEF bm_extent_can_grow, ZerosLeft, Result, Codes
    <3>2. Looks("can_grow", a, n, 0, r)
      BY <2>8 DEF CanGrow
    <3> HIDE DEF r
    <3> QED  BY <2>1, <3>1, <3>2
  <2>9. CASE Taken
    BY <1>0, <1>2, <2>9 DEF Taken, NoCall, TypeOK
  <2>10. CASE UNCHANGED vars
    BY <1>2, <2>10 DEF vars, TypeOK
  <2> QED  BY <1>2, <2>3, <2>4, <2>5, <2>6, <2>7, <2>8, <2>9, <2>10 DEF Next
<1> QED  BY <1>1, <1>2, PTL DEF Spec

-----------------------------------------------------------------------------
(* The dictionary: who owns what.                                            *)

Value == [type : {"int", "string"}, s : Strings \union {NULL}]
Entry == [key : Keys, value : Value]

DictType ==
  /\ dict = [n_elems |-> dict.n_elems, entries |-> dict.entries]
  /\ dict.n_elems \in Nat /\ dict.entries \in Seq(Entry)
  /\ heap \subseteq Strings

\* What owns a string: the entry at place i.
Owns(entries, i) == HeldBy(entries[i].value)

\* DictOwns of any sequence of entries and any heap.
Owned(entries, h) ==
  \A i \in DOMAIN entries :
    /\ Owns(entries, i) \subseteq h
    /\ \A j \in DOMAIN entries : Owns(entries, i) \intersect Owns(entries, j) # {} => i = j

DictInv == DictType /\ DictFits /\ DictOwns

-----------------------------------------------------------------------------

\* dict_value_new() gives a value of the type asked for, whose string, if it has
\* one, was not allocated before.
LEMMA NewValue ==
  ASSUME heap \subseteq Strings, NEW type \in {"int", "string"}, HasMemory(type)
  PROVE  /\ dict_value_new(type) \in Value
         /\ HeldBy(dict_value_new(type)) \subseteq Strings \ heap
<1>1. CASE type = "int"
  BY <1>1 DEF dict_value_new, Number, Value, HeldBy, NULL
<1>2. CASE type # "int"
  <2> DEFINE Free == Strings \ heap
             P(p) == p \in Free /\ \A q \in Free : p <= q
  <2>1. Free # {} /\ Free \subseteq Nat
    BY <1>2, DictAssumption DEF HasMemory
  <2>2. PICK p \in Free : \A q \in Free : ~(<<q, p>> \in OpToRel(<, Nat))
    <3> HIDE DEF Free
    <3> QED  BY <2>1, NatLessThanWellFounded, WFMin
  <2>3. \A q \in Free : ~(q < p)
    BY <2>1, <2>2 DEF OpToRel
  <2>4. P(p)
    BY <2>1, <2>3
  <2>5. P(CHOOSE x \in Free : \A q \in Free : x <= q)
    BY <2>4
  <2>6. dict_value_new(type) = String(CHOOSE x \in Free : \A q \in Free : x <= q)
    BY <1>2 DEF dict_value_new
  <2> HIDE DEF Free
  <2>7. PICK x \in Free : dict_value_new(type) = String(x)
    BY <2>5, <2>6
  <2>8. x \in Strings \ heap
    BY DEF Free
  <2> QED  BY <2>7, <2>8 DEF String, Value, HeldBy
<1> QED  BY <1>1, <1>2

\* A key that is found is found at a place of the table, the first such.
LEMMA FirstFound ==
  ASSUME dict.entries \in Seq(Entry), NEW key, Found(key) # {}
  PROVE  First(key) \in 1 .. Len(dict.entries)
<1>1. Found(key) \subseteq Nat /\ Found(key) \subseteq 1 .. Len(dict.entries)
  BY LenProperties DEF Found
<1>2. PICK i \in Found(key) : \A j \in Found(key) : ~(<<j, i>> \in OpToRel(<, Nat))
  BY <1>1, NatLessThanWellFounded, WFMin
<1>3. \A j \in Found(key) : ~(j < i)
  BY <1>1, <1>2 DEF OpToRel
<1>4. \A j \in Found(key) : i <= j
  BY <1>1, <1>3
<1> QED  BY <1>1, <1>4 DEF First

\* What dict_remove_entry() leaves: the other entries, in their order.
LEMMA Shifted ==
  ASSUME NEW entries \in Seq(Entry), NEW i \in 1 .. Len(entries)
  PROVE  /\ Shift(entries, i) \in Seq(Entry)
         /\ Len(Shift(entries, i)) = Len(entries) - 1
         /\ \A j \in 1 .. Len(entries) - 1 :
              Shift(entries, i)[j] = IF j < i THEN entries[j] ELSE entries[j + 1]
<1> DEFINE n     == Len(entries)
           front == SubSeq(entries, 1, i - 1)
           back  == SubSeq(entries, i + 1, n)
<1>1. n \in Nat /\ \A j \in 1 .. n : entries[j] \in Entry
  BY LenProperties, ElementOfSeq
<1>2. /\ front \in Seq(Entry) /\ Len(front) = i - 1
      /\ \A j \in 1 .. i - 1 : front[j] = entries[j]
  <2>1. \A j \in 1 .. i - 1 : entries[j] \in Entry
    BY <1>1
  <2> QED  BY <1>1, <2>1, SubSeqProperties
<1>3. /\ back \in Seq(Entry) /\ Len(back) = n - i
      /\ \A j \in 1 .. n - i : back[j] = entries[i + j]
  <2>1. \A j \in i + 1 .. n : entries[j] \in Entry
    BY <1>1
  <2>2. /\ back \in Seq(Entry)
        /\ Len(back) = IF i + 1 <= n THEN n - (i + 1) + 1 ELSE 0
        /\ \A j \in 1 .. n - (i + 1) + 1 : back[j] = entries[(i + 1) + j - 1]
    BY <1>1, <2>1, SubSeqProperties
  <2> HIDE DEF n, back
  <2>3. Len(back) = n - i
    BY <1>1, <2>2 DEF n
  <2>4. ASSUME NEW j \in 1 .. n - i
        PROVE  back[j] = entries[i + j]
    <3>1. (i + 1) + j - 1 = i + j /\ j \in 1 .. n - (i + 1) + 1
      BY <1>1, <2>4 DEF n
    <3> QED  BY <2>2, <3>1
  <2> QED  BY <2>2, <2>3, <2>4
<1>4. Shift(entries, i) = front \o back
  BY DEF Shift, RemoveAt
<1> HIDE DEF n, front, back
<1>5. /\ front \o back \in Seq(Entry) /\ Len(front \o back) = n - 1
      /\ \A j \in 1 .. n - 1 :
           (front \o back)[j] = IF j <= i - 1 THEN front[j] ELSE back[j - (i - 1)]
  <2>1. Len(front) + Len(back) = n - 1
    BY <1>1, <1>2, <1>3 DEF n
  <2>2. /\ front \o back \in Seq(Entry) /\ Len(front \o back) = Len(front) + Len(back)
        /\ \A j \in 1 .. Len(front) + Len(back) :
             (front \o back)[j] = IF j <= Len(front) THEN front[j] ELSE back[j - Len(front)]
    BY <1>2, <1>3, ConcatProperties
  <2> QED  BY <1>2, <2>1, <2>2
<1>6. ASSUME NEW j \in 1 .. n - 1
      PROVE  (front \o back)[j] = IF j < i THEN entries[j] ELSE entries[j + 1]
  <2>1. CASE j < i
    BY <1>1, <1>2, <1>5, <2>1
  <2>2. CASE ~(j < i)
    <3>1. ~(j <= i - 1) /\ j - (i - 1) \in 1 .. n - i /\ i + (j - (i - 1)) = j + 1
      BY <1>1, <2>2 DEF n
    <3> QED  BY <1>3, <1>5, <2>2, <3>1
  <2> QED  BY <2>1, <2>2
<1> QED  BY <1>4, <1>5, <1>6 DEF n

\* A dictionary begins without entries.
LEMMA EmptyDict == DictInit => DictInv
<1> SUFFICES ASSUME DictInit PROVE DictInv
  OBVIOUS
<1>1. dict = [n_elems |-> 0, entries |-> <<>>] /\ heap = {}
  BY DEF DictInit, dict_init
<1>2. DOMAIN dict.entries = {}
  BY <1>1
<1> QED  BY <1>1, <1>2, EmptySeq DEF DictInv, DictType, DictFits, DictOwns

\* An entry is added behind the others, with a string nobody has.
LEMMA AddStep ==
  ASSUME DictInv, NEW key \in Keys, NEW type \in {"int", "string"}, dict_add_entry(key, type)
  PROVE  DictInv'
<1> DEFINE value == dict_value_new(type)
           entry == [key |-> key, value |-> value]
           n     == Len(dict.entries)
<1>1. DictType /\ DictFits /\ DictOwns
  BY DEF DictInv
<1>2. value \in Value /\ HeldBy(value) \subseteq Strings \ heap
  BY <1>1, NewValue DEF dict_add_entry, DictType
<1>3. /\ heap' = heap \union HeldBy(value)
      /\ dict'.entries = Append(dict.entries, entry)
      /\ dict' = [n_elems |-> dict'.n_elems, entries |-> dict'.entries]
      /\ dict'.n_elems = CASE dict.n_elems = 0 -> DICT_DEFAULT_NUM_ELEMS
                             [] dict.n_elems > 0 /\ Grows(dict) -> 2 * dict.n_elems
                             [] dict.n_elems > 0 /\ ~Grows(dict) -> dict.n_elems
  BY DEF dict_add_entry
<1>4. entry \in Entry /\ n \in Nat
  BY <1>1, <1>2, LenProperties DEF Entry, DictType
<1> HIDE DEF value, entry
<1>5. /\ dict'.entries \in Seq(Entry) /\ Len(dict'.entries) = n + 1
      /\ \A i \in 1 .. n : dict'.entries[i] = dict.entries[i]
      /\ dict'.entries[n + 1] = entry
      /\ DOMAIN dict.entries = 1 .. n /\ DOMAIN dict'.entries = 1 .. n + 1
  BY <1>1, <1>3, <1>4, AppendProperties, LenProperties DEF DictType
<1>6. dict'.n_elems \in Nat /\ n + 1 <= dict'.n_elems
  <2>1. dict.n_elems \in Nat /\ n <= dict.n_elems
    BY <1>1 DEF DictType, DictFits
  <2>2. CASE dict.n_elems = 0
    BY <1>3, <1>4, <2>1, <2>2 DEF DICT_DEFAULT_NUM_ELEMS
  <2>3. CASE dict.n_elems > 0 /\ Grows(dict)
    <3>1. dict'.n_elems = 2 * dict.n_elems
      BY <1>3, <2>1, <2>3
    <3> QED  BY <1>4, <2>1, <2>3, <3>1
  <2>4. CASE dict.n_elems > 0 /\ ~Grows(dict)
    <3>1. dict'.n_elems = dict.n_elems
      BY <1>3, <2>1, <2>4
    <3>2. ~(n + 1 >= dict.n_elems)
      BY <2>4 DEF Grows
    <3> QED  BY <1>4, <2>1, <2>4, <3>1, <3>2
  <2> QED  BY <2>1, <2>2, <2>3, <2>4
<1>7. DictType'
  BY <1>1, <1>2, <1>3, <1>5, <1>6 DEF DictType
<1>8. DictFits'
  BY <1>5, <1>6 DEF DictFits
<1>9. DictOwns'
  <2>1. \A i \in 1 .. n : Owns(dict'.entries, i) = Owns(dict.entries, i)
    BY <1>5 DEF Owns
  <2>2. Owns(dict'.entries, n + 1) = HeldBy(value)
    BY <1>5 DEF Owns, entry
  <2>3. \A i \in 1 .. n : /\ Owns(dict.entries, i) \subseteq heap
                          /\ \A j \in 1 .. n :
                               Owns(dict.entries, i) \intersect Owns(dict.entries, j) # {} => i = j
    BY <1>1, <1>5 DEF DictOwns, Owns
  <2>4. \A i \in 1 .. n + 1 : i \in 1 .. n \/ i = n + 1
    BY <1>4
  <2>5. \A i \in 1 .. n + 1 : Owns(dict'.entries, i) \subseteq heap'
    BY <1>3, <2>1, <2>2, <2>3, <2>4
  <2>6. ASSUME NEW i \in 1 .. n + 1, NEW j \in 1 .. n + 1,
               Owns(dict'.entries, i) \intersect Owns(dict'.entries, j) # {}
        PROVE  i = j
    <3>1. CASE i \in 1 .. n /\ j \in 1 .. n
      BY <2>1, <2>3, <2>6, <3>1
    <3>2. CASE i = n + 1 /\ j = n + 1
      BY <3>2
    <3>3. CASE i \in 1 .. n /\ j = n + 1
      BY <1>2, <2>1, <2>2, <2>3, <2>6, <3>3
    <3>4. CASE i = n + 1 /\ j \in 1 .. n
      BY <1>2, <2>1, <2>2, <2>3, <2>6, <3>4
    <3> QED  BY <2>4, <3>1, <3>2, <3>3, <3>4
  <2> QED  BY <1>5, <2>5, <2>6 DEF DictOwns, Owns
<1> QED  BY <1>7, <1>8, <1>9 DEF DictInv

\* An entry that is removed leaves its string allocated, with no owner.
LEMMA RemoveStep ==
  ASSUME DictInv, NEW key \in Keys, dict_remove_entry(key)
  PROVE  DictInv'
<1> DEFINE i == First(key)
           n == Len(dict.entries)
           F(j) == IF j < i THEN j ELSE j + 1
<1>1. DictType /\ DictFits /\ DictOwns
  BY DEF DictInv
<1>2. i \in 1 .. n /\ n \in Nat
  BY <1>1, FirstFound, LenProperties DEF dict_remove_entry, DictType
<1>3. /\ heap' = heap /\ dict'.entries = Shift(dict.entries, i)
      /\ dict' = [n_elems |-> dict.n_elems, entries |-> dict'.entries]
      /\ dict'.n_elems = dict.n_elems
  <2>1. "entries" \in DOMAIN dict /\ dict = [n_elems |-> dict.n_elems, entries |-> dict.entries]
    BY <1>1 DEF DictType
  <2>2. dict' = [dict EXCEPT !.entries = Shift(dict.entries, i)] /\ heap' = heap
    BY DEF dict_remove_entry
  <2> HIDE DEF i
  <2> QED  BY <2>1, <2>2
<1> HIDE DEF i
<1>4. /\ dict'.entries \in Seq(Entry) /\ Len(dict'.entries) = n - 1
      /\ \A j \in 1 .. n - 1 : F(j) \in 1 .. n /\ dict'.entries[j] = dict.entries[F(j)]
      /\ \A j, k \in 1 .. n - 1 : F(j) = F(k) => j = k
  <2>1. /\ dict'.entries \in Seq(Entry) /\ Len(dict'.entries) = n - 1
        /\ \A j \in 1 .. n - 1 :
             dict'.entries[j] = IF j < i THEN dict.entries[j] ELSE dict.entries[j + 1]
    BY <1>1, <1>2, <1>3, Shifted DEF DictType
  <2>2. \A j \in 1 .. n - 1 : F(j) \in 1 .. n
    BY <1>2
  <2>3. \A j, k \in 1 .. n - 1 : F(j) = F(k) => j = k
    BY <1>2
  <2> QED  BY <2>1, <2>2, <2>3
<1> HIDE DEF F
<1>5. DOMAIN dict'.entries = 1 .. n - 1 /\ DOMAIN dict.entries = 1 .. n
  BY <1>1, <1>4, LenProperties DEF DictType
<1>6. DictType' /\ DictFits'
  BY <1>1, <1>2, <1>3, <1>4 DEF DictType, DictFits
<1>7. \A j \in 1 .. n - 1 : F(j) \in 1 .. n /\ Owns(dict'.entries, j) = Owns(dict.entries, F(j))
  BY <1>4 DEF Owns
<1>8. Owned(dict.entries, heap)
  BY <1>1 DEF DictOwns, Owned, Owns
<1>9. Owned(dict'.entries, heap')
  BY <1>3, <1>4, <1>5, <1>7, <1>8 DEF Owned
<1> QED  BY <1>6, <1>9 DEF DictInv, DictOwns, Owned, Owns

\* An entry that is updated loses the string that is freed, and gets a new one.
LEMMA UpdateStep ==
  ASSUME DictInv, NEW key \in Keys, NEW type \in {"int", "string"},
         dict_update_entry(key, type)
  PROVE  DictInv'
<1> DEFINE value == dict_value_new(type)
           i     == First(key)
           n     == Len(dict.entries)
           made  == heap \union HeldBy(value)
<1>1. DictType /\ DictFits /\ DictOwns
  BY DEF DictInv
<1>2. value \in Value /\ HeldBy(value) \subseteq Strings \ heap
  BY <1>1, NewValue DEF dict_update_entry, DictType
<1>3. DOMAIN dict.entries = 1 .. n /\ n \in Nat
  BY <1>1, LenProperties DEF DictType
<1>4. CASE Found(key) = {}
  <2>1. heap' = made /\ dict' = dict
    BY <1>4 DEF dict_update_entry
  <2> HIDE DEF value
  <2> QED  BY <1>1, <1>2, <2>1 DEF DictInv, DictType, DictFits, DictOwns
<1>5. CASE Found(key) # {}
  <2>1. i \in 1 .. n
    BY <1>1, <1>5, FirstFound DEF DictType
  <2>2. /\ heap' = made \ HeldBy(dict.entries[i].value)
        /\ dict' = [dict EXCEPT !.entries[i].value = value]
    BY <1>5 DEF dict_update_entry
  <2> HIDE DEF i, value
  <2>3. dict.entries[i] \in Entry
    BY <1>1, <2>1, ElementOfSeq DEF DictType
  <2> DEFINE entry == [dict.entries[i] EXCEPT !.value = value]
  <2>4. entry \in Entry /\ entry.value = value
    BY <1>2, <2>3 DEF Entry
  <2>5. /\ dict'.entries = [dict.entries EXCEPT ![i] = entry]
        /\ dict' = [n_elems |-> dict.n_elems, entries |-> dict'.entries]
        /\ dict'.n_elems = dict.n_elems
    BY <1>1, <2>2 DEF DictType
  <2> HIDE DEF entry
  <2>6. /\ dict'.entries \in Seq(Entry) /\ Len(dict'.entries) = n
        /\ \A j \in 1 .. n : dict'.entries[j] = IF j = i THEN entry ELSE dict.entries[j]
    BY <1>1, <2>1, <2>4, <2>5, ExceptSeq DEF DictType
  <2>7. DictType' /\ DictFits'
    BY <1>1, <1>2, <2>2, <2>5, <2>6 DEF DictType, DictFits
  <2>8. DOMAIN dict'.entries = 1 .. n
    BY <2>6, LenProperties
  <2>9. \A j \in 1 .. n : Owns(dict'.entries, j) =
                            IF j = i THEN HeldBy(value) ELSE Owns(dict.entries, j)
    BY <2>4, <2>6 DEF Owns
  <2>10. Owned(dict.entries, heap)
    BY <1>1 DEF DictOwns, Owned, Owns
  <2>11. \A j \in 1 .. n : j # i => Owns(dict.entries, j) \intersect Owns(dict.entries, i) = {}
    BY <1>3, <2>1, <2>10 DEF Owned
  <2>12. HeldBy(value) \intersect Owns(dict.entries, i) = {}
    BY <1>2, <1>3, <2>1, <2>10 DEF Owned
  <2>13. heap' = made \ Owns(dict.entries, i)
    BY <2>2 DEF Owns
  <2>14. \A j \in 1 .. n : Owns(dict'.entries, j) \subseteq heap'
    BY <1>3, <2>9, <2>10, <2>11, <2>12, <2>13 DEF Owned
  <2>15. \A j, k \in 1 .. n :
           Owns(dict'.entries, j) \intersect Owns(dict'.entries, k) # {} => j = k
    BY <1>2, <1>3, <2>9, <2>10 DEF Owned
  <2>16. Owned(dict'.entries, heap')
    BY <2>8, <2>14, <2>15 DEF Owned
  <2> QED  BY <2>7, <2>16 DEF DictInv, DictOwns, Owned, Owns
<1> QED  BY <1>4, <1>5

\* dict_clean() leaves no entry.
LEMMA CleanStep ==
  ASSUME DictInv, dict_clean
  PROVE  DictInv'
<1>1. dict' = [n_elems |-> 0, entries |-> <<>>] /\ heap' \subseteq heap
  BY DEF dict_clean, dict_init
<1>2. DOMAIN dict'.entries = {}
  BY <1>1
<1> QED  BY <1>1, <1>2, EmptySeq DEF DictInv, DictType, DictFits, DictOwns

\* Whatever is added, updated, removed and cleaned, in any order.
THEOREM DictInvariant == DictSpec => []DictInv
<1>1. DictInit => DictInv
  BY EmptyDict
<1>2. DictInv /\ [DictNext]_dictVars => DictInv'
  <2> SUFFICES ASSUME DictInv, [DictNext]_dictVars PROVE DictInv'
    OBVIOUS
  <2>1. ASSUME NEW key \in Keys, NEW type \in {"int", "string"}, dict_add_entry(key, type)
        PROVE  DictInv'
    BY <2>1, AddStep
  <2>2. ASSUME NEW key \in Keys, NEW type \in {"int", "string"}, dict_update_entry(key, type)
        PROVE  DictInv'
    BY <2>2, UpdateStep
  <2>3. ASSUME NEW key \in Keys, dict_remove_entry(key)
        PROVE  DictInv'
    BY <2>3, RemoveStep
  <2>4. CASE dict_clean
    BY <2>4, CleanStep
  <2>5. CASE UNCHANGED dictVars
    BY <2>5 DEF dictVars, DictInv, DictType, DictFits, DictOwns
  <2> QED  BY <2>1, <2>2, <2>3, <2>4, <2>5 DEF DictNext
<1> QED  BY <1>1, <1>2, PTL DEF DictSpec

\* dict_clean() and an update free the string of an entry once: it is allocated and
\* belongs to no other entry.
THEOREM StringsOwned == DictSpec => []DictOwns
<1>1. DictInv => DictOwns
  BY DEF DictInv
<1> QED  BY <1>1, DictInvariant, PTL

\* No entry is written behind the memory of the table.
THEOREM EntriesFit == DictSpec => []DictFits
<1>1. DictInv => DictFits
  BY DEF DictInv
<1> QED  BY <1>1, DictInvariant, PTL

-----------------------------------------------------------------------------
(* The list of allocations: its ring.                                        *)

\* The links lead from every cell of R to one of R, and from the head to all of R:
\* no set but R holds the head and where its cells lead.
Leads(links, R) == \A c \in R : links[c] \in R
Joined(links, R) ==
  \A S \in SUBSET R : List \in S /\ Leads(links, S) => S = R

\* One step of a walk, and all of it.
Steps(links, X) == X \union ({links[c] : c \in X} \ {List})
WalkBody(links, reach, k) ==
  IF k = 0 THEN {links[List]} \ {List} ELSE Steps(links, reach[k - 1])

\* Walk is defined: it is the last of the steps from the head on.
LEMMA WalkIsBody ==
  ASSUME NEW links \in [Cells -> Cells]
  PROVE  \E reach : /\ reach = [k \in 0 .. Cardinality(Nodes) |-> WalkBody(links, reach, k)]
                    /\ Walk(links) = reach[Cardinality(Nodes)]
<1> DEFINE N == Cardinality(Nodes)
           S == 0 .. N
           R == SUBSET Cells
           F == [g \in [S -> R] |-> [k \in S |-> WalkBody(links, g, k)]]
           mu == [k \in S |-> k]
<1>1. N \in Nat
  BY AllocAssumption, FS_CardinalityType
<1> HIDE DEF N
<1>2. ASSUME NEW g \in [S -> R], NEW k \in S PROVE WalkBody(links, g, k) \in R
  <2>1. CASE k = 0
    BY <2>1 DEF WalkBody, Cells
  <2>2. CASE k # 0
    <3>1. k - 1 \in S
      BY <1>1, <2>2
    <3>2. g[k - 1] \in SUBSET Cells
      BY <3>1
    <3>3. WalkBody(links, g, k) = Steps(links, g[k - 1])
      BY <2>2 DEF WalkBody
    <3> QED  BY <3>2, <3>3 DEF Steps
  <2> QED  BY <2>1, <2>2
<1>3. F \in [[S -> R] -> [S -> R]]
  BY <1>2
<1>4. mu \in [S -> Nat] /\ \A k \in S : mu[k] < N + 1
  BY <1>1
<1>5. ASSUME NEW g \in [S -> R], NEW h \in [S -> R], NEW k \in S,
             \A t \in S : mu[t] < mu[k] => g[t] = h[t]
      PROVE  F[g][k] = F[h][k]
  <2>1. k # 0 => g[k - 1] = h[k - 1]
    <3>1. k # 0 => k - 1 \in S /\ mu[k - 1] < mu[k]
      BY <1>1
    <3> QED  BY <1>5, <3>1
  <2>2. F[g][k] = WalkBody(links, g, k) /\ F[h][k] = WalkBody(links, h, k)
    OBVIOUS
  <2> HIDE DEF F, mu
  <2> QED  BY <2>1, <2>2 DEF WalkBody
<1> HIDE DEF mu, R, S
<1>6. \E g \in [S -> R] : g = F[g]
  <2> HIDE DEF F
  <2>1. LooksBelow(F, S, R, mu)
    BY <1>3, <1>5 DEF LooksBelow
  <2>2. Measures(mu, S, N + 1)
    BY <1>1, <1>4 DEF Measures
  <2>3. R # {}
    BY DEF R
  <2> QED  BY <2>1, <2>2, <2>3, FixedPoint
<1>7. \E g : g = [k \in S |-> WalkBody(links, g, k)]
  BY <1>6
<1> DEFINE reach == CHOOSE g : g = [k \in S |-> WalkBody(links, g, k)]
<1>8. Walk(links) = reach[N]
  BY DEF Walk, WalkBody, Steps, S, N
<1>9. reach = [k \in S |-> WalkBody(links, reach, k)]
  BY <1>7
<1> QED  BY <1>8, <1>9 DEF N, S

\* Where the links lead all over the ring, the walk meets every node of it: before
\* the walk has come to an end every step meets a new one.
LEMMA WalkMeetsAll ==
  ASSUME NEW links \in [Cells -> Cells], NEW M \in SUBSET Nodes,
         Leads(links, M \union {List}), Joined(links, M \union {List})
  PROVE  Walk(links) = M
<1> DEFINE N == Cardinality(Nodes)
<1>1. PICK reach : /\ reach = [k \in 0 .. N |-> WalkBody(links, reach, k)]
                   /\ Walk(links) = reach[N]
  BY WalkIsBody
<1>2. /\ N \in Nat /\ IsFiniteSet(Nodes) /\ List \notin M
      /\ \A X \in SUBSET M : IsFiniteSet(X) /\ Cardinality(X) \in Nat /\ Cardinality(X) <= N
  <2>1. \A X \in SUBSET M : X \subseteq Nodes
    OBVIOUS
  <2> QED  BY <2>1, AllocAssumption, FS_CardinalityType, FS_Subset
<1> HIDE DEF N
<1>3. reach[0] = {links[List]} \ {List}
  BY <1>1, <1>2 DEF WalkBody
<1>4. \A k \in Nat : k + 1 <= N => reach[k + 1] = Steps(links, reach[k])
  <2> SUFFICES ASSUME NEW k \in Nat, k + 1 <= N PROVE reach[k + 1] = Steps(links, reach[k])
    OBVIOUS
  <2>1. k + 1 \in 0 .. N /\ k + 1 # 0 /\ (k + 1) - 1 = k
    BY <1>2
  <2>2. reach[k + 1] = WalkBody(links, reach, k + 1)
    BY <1>1, <2>1
  <2> QED  BY <2>1, <2>2 DEF WalkBody
<1> DEFINE Ends(X) == \A c \in X : links[c] \in X \union {List}
           D == {k \in Nat : k <= N =>
                   /\ reach[k] \subseteq M /\ links[List] \in reach[k] \union {List}
                   /\ Ends(reach[k]) \/ Cardinality(reach[k]) > k}
<1>5. 0 \in D
  <2>1. reach[0] \subseteq M /\ links[List] \in reach[0] \union {List}
    BY <1>3 DEF Leads
  <2>2. ASSUME reach[0] # {} PROVE Cardinality(reach[0]) > 0
    <3>1. Cardinality(reach[0]) # 0
      BY <1>2, <2>1, <2>2, FS_EmptySet
    <3> QED  BY <1>2, <2>1, <3>1
  <2> QED  BY <2>1, <2>2
<1>6. ASSUME NEW k \in Nat, k \in D PROVE k + 1 \in D
  <2> SUFFICES ASSUME k + 1 <= N
               PROVE  /\ reach[k + 1] \subseteq M /\ links[List] \in reach[k + 1] \union {List}
                      /\ Ends(reach[k + 1]) \/ Cardinality(reach[k + 1]) > k + 1
    OBVIOUS
  <2> DEFINE X == reach[k]
             Y == reach[k + 1]
  <2>1. k <= N
    BY <1>2
  <2>2. X \subseteq M /\ links[List] \in X \union {List} /\ (Ends(X) \/ Cardinality(X) > k)
    BY <1>6, <2>1
  <2>3. Y = X \union ({links[c] : c \in X} \ {List})
    BY <1>4 DEF Steps
  <2> HIDE DEF X, Y
  <2>4. Y \subseteq M /\ links[List] \in Y \union {List} /\ X \subseteq Y
    BY <2>2, <2>3 DEF Leads
  <2>5. CASE Ends(X)
    <3>1. Y = X
      BY <2>3, <2>5
    <3> QED  BY <2>4, <2>5, <3>1 DEF Y
  <2>6. CASE ~Ends(X)
    <3>1. PICK y \in Y : y \notin X
      BY <2>3, <2>6
    <3>2. X \union {y} \subseteq Y /\ IsFiniteSet(X) /\ IsFiniteSet(Y)
      BY <1>2, <2>2, <2>4, <3>1
    <3>3. Cardinality(X \union {y}) = Cardinality(X) + 1
      BY <3>1, <3>2, FS_AddElement
    <3>4. Cardinality(X \union {y}) <= Cardinality(Y)
      BY <3>2, FS_Subset
    <3>5. Cardinality(X) \in Nat /\ Cardinality(Y) \in Nat /\ Cardinality(X) > k
      BY <1>2, <2>2, <2>4, <2>6
    <3>6. Cardinality(Y) > k + 1
      BY <3>3, <3>4, <3>5
    <3> QED  BY <2>4, <3>6 DEF Y
  <2> QED  BY <2>5, <2>6
<1>7. N \in D
  <2> HIDE DEF D
  <2> QED  BY <1>2, <1>5, <1>6, Induction
<1> DEFINE W == reach[N]
<1>8. W \subseteq M /\ links[List] \in W \union {List} /\ (Ends(W) \/ Cardinality(W) > N)
  BY <1>2, <1>7
<1> HIDE DEF W, D
<1>9. Ends(W)
  BY <1>2, <1>8
<1>10. /\ List \in W \union {List} /\ Leads(links, W \union {List})
       /\ W \union {List} \in SUBSET (M \union {List})
  BY <1>8, <1>9 DEF Leads
<1>11. W \union {List} = M \union {List}
  BY <1>10 DEF Joined
<1>12. W = M
  BY <1>2, <1>8, <1>11
<1> QED  BY <1>1, <1>12 DEF W

\* The ring of what is allocated: both ways its links lead all over it and are each
\* other's inverse.
Mutual(r, R) == \A c \in R : r.prev[r.next[c]] = c /\ r.next[r.prev[c]] = c
Ring(r, R) ==
  /\ Leads(r.next, R) /\ Leads(r.prev, R) /\ Mutual(r, R)
  /\ Joined(r.next, R) /\ Joined(r.prev, R)

RingWhole ==
  /\ nodes \subseteq Nodes /\ ring = [next |-> ring.next, prev |-> ring.prev]
  /\ ring.next \in [Cells -> Cells] /\ ring.prev \in [Cells -> Cells]
  /\ Ring(ring, nodes \union {List})

RingInv == ~spoilt => RingWhole

\* list_add() puts the node behind the head.
LEMMA AddKeepsRing ==
  ASSUME NEW r, r.next \in [Cells -> Cells], r.prev \in [Cells -> Cells],
         NEW R \in SUBSET Cells, List \in R, NEW n \in Cells \ R, Ring(r, R)
  PROVE  LET s == list_add(r, n, List)
         IN  /\ s.next \in [Cells -> Cells] /\ s.prev \in [Cells -> Cells]
             /\ s = [next |-> s.next, prev |-> s.prev]
             /\ Ring(s, R \union {n})
<1> DEFINE s == list_add(r, n, List)
           f == r.next[List]
<1>1. /\ f \in R /\ f # n /\ List # n
      /\ \A c \in R : r.next[c] \in R /\ r.next[c] # n /\ r.prev[c] \in R /\ r.prev[c] # n
      /\ \A c \in R : r.prev[r.next[c]] = c /\ r.next[r.prev[c]] = c
  BY DEF Ring, Leads, Mutual
<1>2. /\ s.next = [r.next EXCEPT ![n] = f, ![List] = n]
      /\ s.prev = [r.prev EXCEPT ![n] = List, ![f] = n]
      /\ s = [next |-> s.next, prev |-> s.prev]
  BY DEF list_add
<1>3. /\ s.next \in [Cells -> Cells] /\ s.prev \in [Cells -> Cells]
      /\ \A c \in Cells : s.next[c] = IF c = List THEN n ELSE IF c = n THEN f ELSE r.next[c]
      /\ \A c \in Cells : s.prev[c] = IF c = f THEN n ELSE IF c = n THEN List ELSE r.prev[c]
  BY <1>1, <1>2
<1> HIDE DEF s, f
<1>4. Leads(s.next, R \union {n}) /\ Leads(s.prev, R \union {n})
  BY <1>1, <1>3 DEF Leads
<1>5. Mutual(s, R \union {n})
  <2>1. r.next[List] = f
    BY DEF f
  <2>2. ASSUME NEW c \in R PROVE s.prev[s.next[c]] = c /\ s.next[s.prev[c]] = c
    <3>1. CASE c = List
      BY <1>1, <1>3, <2>1, <3>1
    <3>2. CASE c # List
      BY <1>1, <1>3, <2>1, <3>2
    <3> QED  BY <3>1, <3>2
  <2>3. s.prev[s.next[n]] = n /\ s.next[s.prev[n]] = n
    BY <1>1, <1>3
  <2> QED  BY <2>2, <2>3 DEF Mutual
<1>6. Joined(s.next, R \union {n})
  <2> SUFFICES ASSUME NEW S \in SUBSET (R \union {n}), List \in S, Leads(s.next, S)
               PROVE  S = R \union {n}
    BY DEF Joined
  <2>1. n \in S /\ f \in S
    BY <1>1, <1>3 DEF Leads
  <2>2. S \ {n} \in SUBSET R /\ List \in S \ {n}
    BY <1>1
  <2>3. Leads(r.next, S \ {n})
    BY <1>1, <1>3, <2>1, <2>2 DEF Leads, f
  <2>4. S \ {n} = R
    BY <2>2, <2>3 DEF Ring, Joined
  <2> QED  BY <2>1, <2>4
<1>7. Joined(s.prev, R \union {n})
  <2> SUFFICES ASSUME NEW S \in SUBSET (R \union {n}), List \in S, Leads(s.prev, S)
               PROVE  S = R \union {n}
    BY DEF Joined
  <2>1. S \ {n} \in SUBSET R /\ List \in S \ {n}
    BY <1>1
  <2>2. Leads(r.prev, S \ {n})
    BY <1>1, <1>3, <2>1 DEF Leads, f
  <2>3. S \ {n} = R
    BY <2>1, <2>2 DEF Ring, Joined
  <2>4. n \in S
    BY <1>1, <1>3, <2>3 DEF Leads
  <2> QED  BY <2>3, <2>4
<1> QED  BY <1>2, <1>3, <1>4, <1>5, <1>6, <1>7 DEF Ring, s

\* list_del() takes a node out.
LEMMA DelKeepsRing ==
  ASSUME NEW r, r.next \in [Cells -> Cells], r.prev \in [Cells -> Cells],
         r = [next |-> r.next, prev |-> r.prev],
         NEW R \in SUBSET Cells, List \in R, NEW n \in R \ {List}, Ring(r, R)
  PROVE  LET s == list_del(r, n)
         IN  /\ s.next \in [Cells -> Cells] /\ s.prev \in [Cells -> Cells]
             /\ s = [next |-> s.next, prev |-> s.prev]
             /\ Ring(s, R \ {n})
<1> DEFINE s == list_del(r, n)
           a == r.prev[n]
           b == r.next[n]
<1>1. /\ a \in R /\ b \in R
      /\ \A c \in R : r.next[c] \in R /\ r.prev[c] \in R
      /\ \A c \in R : r.prev[r.next[c]] = c /\ r.next[r.prev[c]] = c
  BY DEF Ring, Leads, Mutual
<1>2. s = [next |-> [r.next EXCEPT ![a] = b], prev |-> [r.prev EXCEPT ![b] = a]]
  <2>1. s = [r EXCEPT !.prev[b] = a, !.next[a] = b]
    BY DEF list_del
  <2> DEFINE x == r.next
             y == r.prev
  <2>2. r = [next |-> x, prev |-> y]
    OBVIOUS
  <2> HIDE DEF s, a, b, x, y
  <2>3. s = [next |-> [x EXCEPT ![a] = b], prev |-> [y EXCEPT ![b] = a]]
    BY <2>1, <2>2
  <2> QED  BY <2>3 DEF x, y
<1>3. /\ s.next \in [Cells -> Cells] /\ s.prev \in [Cells -> Cells]
      /\ s = [next |-> s.next, prev |-> s.prev]
      /\ \A c \in Cells : s.next[c] = IF c = a THEN b ELSE r.next[c]
      /\ \A c \in Cells : s.prev[c] = IF c = b THEN a ELSE r.prev[c]
  BY <1>1, <1>2
<1> HIDE DEF s
<1>4. /\ r.next[a] = n /\ r.prev[b] = n
      /\ \A c \in R : r.next[c] = n => c = a
      /\ \A c \in R : r.prev[c] = n => c = b
  BY <1>1
<1>5. a # n /\ b # n
  <2>1. ASSUME r.next[n] = n PROVE FALSE
    <3>1. Leads(r.next, R \ {n})
      BY <1>1, <2>1 DEF Leads
    <3> QED  BY <3>1 DEF Ring, Joined
  <2> QED  BY <1>4, <2>1
<1> HIDE DEF a, b
<1>6. Leads(s.next, R \ {n}) /\ Leads(s.prev, R \ {n})
  BY <1>1, <1>3, <1>4, <1>5 DEF Leads
<1>7. Mutual(s, R \ {n})
  BY <1>1, <1>3, <1>4, <1>5 DEF Mutual
<1>8. Joined(s.next, R \ {n})
  <2> SUFFICES ASSUME NEW S \in SUBSET (R \ {n}), List \in S, Leads(s.next, S)
               PROVE  S = R \ {n}
    BY DEF Joined
  <2>1. CASE a \in S
    <3>1. b \in S
      BY <1>1, <1>3, <2>1 DEF Leads
    <3>2. Leads(r.next, S \union {n})
      BY <1>1, <1>3, <1>4, <3>1 DEF Leads, b
    <3>3. S \union {n} \in SUBSET R
      OBVIOUS
    <3>4. S \union {n} = R
      BY <3>2, <3>3 DEF Ring, Joined
    <3> QED  BY <3>4
  <2>2. CASE a \notin S
    <3>1. Leads(r.next, S)
      BY <1>1, <1>3, <2>2 DEF Leads
    <3>2. S = R
      BY <3>1 DEF Ring, Joined
    <3> QED  BY <3>2
  <2> QED  BY <2>1, <2>2
<1>9. Joined(s.prev, R \ {n})
  <2> SUFFICES ASSUME NEW S \in SUBSET (R \ {n}), List \in S, Leads(s.prev, S)
               PROVE  S = R \ {n}
    BY DEF Joined
  <2>1. CASE b \in S
    <3>1. a \in S
      BY <1>1, <1>3, <2>1 DEF Leads
    <3>2. Leads(r.prev, S \union {n})
      BY <1>1, <1>3, <1>4, <3>1 DEF Leads, a
    <3>3. S \union {n} \in SUBSET R
      OBVIOUS
    <3>4. S \union {n} = R
      BY <3>2, <3>3 DEF Ring, Joined
    <3> QED  BY <3>4
  <2>2. CASE b \notin S
    <3>1. Leads(r.prev, S)
      BY <1>1, <1>3, <2>2 DEF Leads
    <3>2. S = R
      BY <3>1 DEF Ring, Joined
    <3> QED  BY <3>2
  <2> QED  BY <2>1, <2>2
<1> QED  BY <1>3, <1>6, <1>7, <1>8, <1>9 DEF Ring, s

\* The ring of a list that is empty.
LEMMA EmptyRing ==
  ASSUME NEW r, r.next[List] = List, r.prev[List] = List
  PROVE  Ring(r, {List})
BY DEF Ring, Leads, Mutual, Joined

\* Whatever is allocated, freed and reallocated in place, in any order.
THEOREM RingInvariant == AllocSpec => []RingInv
<1>1. AllocInit => RingInv
  <2> SUFFICES ASSUME AllocInit PROVE RingWhole
    BY DEF RingInv
  <2>1. nodes = {} /\ ring = [next |-> [c \in Cells |-> List], prev |-> [c \in Cells |-> List]]
        /\ List \in Cells
    BY DEF AllocInit, Cells
  <2>2. ring.next[List] = List /\ ring.prev[List] = List
    BY <2>1
  <2> QED  BY <2>1, <2>2, EmptyRing DEF RingWhole
<1>2. ASSUME RingInv, [AllocNext]_allocVars PROVE RingInv'
  <2> SUFFICES ASSUME ~spoilt' PROVE RingWhole'
    BY DEF RingInv
  <2>0. RingWhole
    BY <1>2 DEF RingInv, AllocNext, allocVars
  <2> DEFINE R == nodes \union {List}
  <2>1. /\ nodes \subseteq Nodes /\ R \in SUBSET Cells /\ List \in R /\ List \notin Nodes
        /\ ring.next \in [Cells -> Cells] /\ ring.prev \in [Cells -> Cells]
        /\ ring = [next |-> ring.next, prev |-> ring.prev]
        /\ Ring(ring, R)
    BY <2>0, AllocAssumption DEF RingWhole, Cells
  <2>2. CASE gc_malloc
    <3>1. PICK n \in Nodes \ nodes : nodes' = nodes \union {n} /\ ring' = list_add(ring, n, List)
      BY <2>2 DEF gc_malloc
    <3>2. n \in Cells \ R /\ nodes' \union {List} = R \union {n} /\ nodes' \subseteq Nodes
      BY <2>1, <3>1 DEF Cells
    <3> DEFINE s == list_add(ring, n, List)
    <3> HIDE DEF R
    <3>3. /\ s.next \in [Cells -> Cells] /\ s.prev \in [Cells -> Cells]
          /\ s = [next |-> s.next, prev |-> s.prev] /\ Ring(s, R \union {n})
      BY ONLY <2>1, <3>2, AddKeepsRing
    <3>4. ring' = s
      BY <3>1
    <3> HIDE DEF s
    <3> QED  BY <3>2, <3>3, <3>4 DEF RingWhole
  <2>3. ASSUME NEW n \in Nodes, gc_free(n) PROVE RingWhole'
    <3>1. n \in nodes /\ nodes' = nodes \ {n} /\ ring' = list_del(ring, n)
      BY <2>3 DEF gc_free
    <3>2. n \in R \ {List} /\ nodes' \union {List} = R \ {n} /\ nodes' \subseteq Nodes
      BY <2>1, <3>1
    <3> DEFINE s == list_del(ring, n)
    <3>3. /\ s.next \in [Cells -> Cells] /\ s.prev \in [Cells -> Cells]
          /\ s = [next |-> s.next, prev |-> s.prev] /\ Ring(s, R \ {n})
      <4> HIDE DEF R
      <4> QED  BY <2>1, <3>2, DelKeepsRing
    <3> HIDE DEF R, s
    <3>4. ring' = s
      BY <3>1 DEF s
    <3> QED  BY <3>2, <3>3, <3>4 DEF RingWhole
  <2>4. ASSUME NEW n \in Nodes, gc_realloc(n) PROVE RingWhole'
    <3>1. UNCHANGED <<ring, nodes>>
      BY <2>4 DEF gc_realloc, Spoils, allocVars
    <3> QED  BY <2>0, <3>1 DEF RingWhole
  <2>5. CASE gc_list_destroy
    <3>1. Walk(ring.next) = nodes
      BY <2>1, WalkMeetsAll DEF Ring
    <3>2. nodes' = {} /\ ring' = [next |-> [ring.next EXCEPT ![List] = List],
                                  prev |-> [ring.prev EXCEPT ![List] = List]]
      BY <2>5, <3>1 DEF gc_list_destroy
    <3>3. ring'.next[List] = List /\ ring'.prev[List] = List
      BY <2>1, <3>2
    <3>4. nodes' \union {List} = {List} /\ ring'.next \in [Cells -> Cells]
          /\ ring'.prev \in [Cells -> Cells] /\ ring' = [next |-> ring'.next, prev |-> ring'.prev]
      BY <2>1, <3>2
    <3>5. Ring(ring', nodes' \union {List})
      BY <3>3, <3>4, EmptyRing
    <3> QED  BY <3>2, <3>4, <3>5 DEF RingWhole
  <2>6. CASE UNCHANGED allocVars
    BY <2>0, <2>6 DEF RingWhole, allocVars
  <2> QED
    BY <1>2, <2>2, <2>3, <2>4, <2>5, <2>6
    DEF AllocNext, gc_sweep, gc_strncat, UseHead, Spoils
<1> QED  BY <1>1, <1>2, PTL DEF AllocSpec

\* The ring is what is allocated, forwards and backwards, until the memory is spoilt.
THEOREM RingIsExact == AllocSpec => []RingExact
<1>1. RingInv => RingExact
  <2> SUFFICES ASSUME RingInv, ~spoilt PROVE RingExact
    BY DEF RingExact
  <2>1. Walk(ring.next) = nodes /\ Walk(ring.prev) = nodes
    BY WalkMeetsAll DEF RingInv, RingWhole, Ring
  <2> QED  BY <2>1 DEF RingInv, RingWhole, Ring, Mutual, RingExact
<1> QED  BY <1>1, RingInvariant, PTL

==============================================================================
