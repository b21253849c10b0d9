------------------------------- MODULE MapProofs -------------------------------
(* Lemmas about the functions of MapFunctions, for every width of a byte, size *)
(* of a map, extent and contents: what bm_set_extent() does to the bits of a *)
(* map, and what bm_count() and bm_find() find out about them.               *)
EXTENDS MapFunctions, WellFoundedInduction, TLAPS

\* The arithmetic of bytes: the only fact about \div and % that is used.
LEMMA DivMod ==
  ASSUME NEW a \in Nat
  PROVE  /\ a \div Width \in Nat /\ a % Width \in 0 .. Width - 1
         /\ a = (a \div Width) * Width + (a % Width)
BY WidthAssumption, SMT

\* The smaller of two numbers.
LEMMA LowerIs ==
  ASSUME NEW x \in Int, NEW y \in Int
  PROVE  Lower(x, y) \in Int /\ Lower(x, y) = (IF x < y THEN x ELSE y)
BY DEF Lower

\* The only fact about products that SMT does not find.
LEMMA Distributes ==
  ASSUME NEW x \in Nat, NEW y \in Nat
  PROVE  (x + y) * Width = x * Width + y * Width
BY WidthAssumption, SMT

\* M is m with the bits of S given the value v.
Puts(M, m, S, v) ==
  /\ \A b \in (M \ m) \union (m \ M) : b \in S
  /\ \A b \in S : Is(M, b, v)
  /\ \A b : b \notin S => (b \in M <=> b \in m)

\* Put gives the bits their value and leaves the others.
LEMMA PutIs ==
  ASSUME NEW m, NEW S, NEW v \in {0, 1}, NEW M, M = Put(m, S, v)
  PROVE  Puts(M, m, S, v)
BY DEF Put, Is, Puts

\* The bits of one byte, when at least one is asked for and they fit.
LEMMA ByteBits ==
  ASSUME NEW m, NEW k \in Nat, NEW s \in 0 .. Width - 1, NEW n \in Nat \ {0},
         s + n <= Width, NEW v
  PROVE  byte_set_bits(m, k, s, n, v) =
           Put(m, k * Width + s .. k * Width + s + n - 1, v)
<1>1. LastBit(s, n) = s + n - 1
  BY WidthAssumption DEF LastBit, Lower
<1>2. k * Width \in Nat
  BY WidthAssumption
<1>3. {Bit(k, b) : b \in s .. s + n - 1} = k * Width + s .. k * Width + s + n - 1
  <2> DEFINE kw == k * Width
  <2> HIDE DEF kw
  <2>1. kw \in Nat /\ Width \in Nat
    BY <1>2, WidthAssumption DEF kw
  <2>2. {kw + b : b \in s .. s + n - 1} = kw + s .. kw + s + n - 1
    <3>1. ASSUME NEW x \in kw + s .. kw + s + n - 1
          PROVE  x - kw \in s .. s + n - 1 /\ x = kw + (x - kw)
      BY <2>1
    <3>2. \A b \in s .. s + n - 1 : kw + b \in kw + s .. kw + s + n - 1
      BY <2>1
    <3> QED  BY <3>1, <3>2
  <2> QED  BY <2>2 DEF Bit, kw
<1> QED  BY <1>1, <1>3 DEF byte_set_bits

\* How bm_set_extent() cuts an extent: the part in a shared first byte, then
\* whole bytes from the next byte boundary on, then fewer bits than a byte.
Pending(a, n) == n - FirstPart(a, n)
Extra(a, n)   == Pending(a, n) % Width
NextByte(a, n) == FirstWhole(a) + Pending(a, n) \div Width

\* The parts are adjacent and add up to the extent.
LEMMA Cut ==
  ASSUME NEW a \in Nat, NEW n \in Nat
  PROVE  /\ FirstPart(a, n) \in Nat /\ Pending(a, n) \in Nat
         /\ FirstWhole(a) \in Nat /\ NextByte(a, n) \in Nat
         /\ Extra(a, n) \in 0 .. Width - 1 /\ Extra(a, n) <= Pending(a, n)
         /\ a % Width = 0 => FirstPart(a, n) = 0
         /\ a % Width # 0 /\ n > 0 => FirstPart(a, n) > 0
         /\ a % Width # 0 => (a % Width) + FirstPart(a, n) <= Width
         /\ Pending(a, n) > 0 \/ a % Width = 0
              => FirstWhole(a) * Width = a + FirstPart(a, n)
         /\ NextByte(a, n) * Width = FirstWhole(a) * Width + (Pending(a, n) - Extra(a, n))
<1> DEFINE q == a \div Width
           r == a % Width
           f == FirstPart(a, n)
           p == Pending(a, n)
           w == p \div Width
           e == p % Width
<1>1. Width \in Nat /\ Width > 1
  BY WidthAssumption
<1>2. q \in Nat /\ r \in 0 .. Width - 1 /\ a = q * Width + r
  BY DivMod
<1>3. f = IF r = 0 THEN 0 ELSE IF n < Width - r THEN n ELSE Width - r
  BY DEF FirstPart, Lower
<1>4. f \in Nat /\ f <= n /\ p \in Nat /\ p = n - f
  BY <1>1, <1>2, <1>3 DEF Pending
<1>5. w \in Nat /\ e \in 0 .. Width - 1 /\ p = w * Width + e
  BY <1>4, DivMod
<1>6. FirstWhole(a) = (IF r = 0 THEN q ELSE q + 1) /\ NextByte(a, n) = FirstWhole(a) + w
  BY <1>2 DEF FirstWhole, NextByte
<1>7. w * Width \in Nat /\ q * Width \in Nat /\ (q + 1) * Width = q * Width + Width
  BY <1>1, <1>2, <1>5
<1>8. FirstWhole(a) \in Nat /\ FirstWhole(a) * Width \in Nat
  BY <1>1, <1>2, <1>6
<1>9. (FirstWhole(a) + w) * Width = FirstWhole(a) * Width + w * Width
  BY <1>5, <1>8, Distributes
<1> HIDE DEF q, r, f, p, w, e
<1>10. f \in Nat /\ p \in Nat /\ FirstWhole(a) \in Nat /\ NextByte(a, n) \in Nat
  BY <1>2, <1>4, <1>5, <1>6, <1>9
<1>11. e <= p
  BY <1>4, <1>5, <1>7
<1>12. /\ r = 0 => f = 0
       /\ r # 0 /\ n > 0 => f > 0
       /\ r # 0 => r + f <= Width
  BY <1>1, <1>2, <1>3
<1>13. p > 0 \/ r = 0 => FirstWhole(a) * Width = a + f
  BY <1>1, <1>2, <1>3, <1>4, <1>6, <1>7
<1>14. NextByte(a, n) * Width = FirstWhole(a) * Width + (p - e)
  BY <1>4, <1>5, <1>6, <1>7, <1>8, <1>9
<1> QED  BY <1>5, <1>10, <1>11, <1>12, <1>13, <1>14 DEF Extra, q, r, f, p, w, e

\* What both functions promise: nothing outside the extent changes - but for the
\* one bit of an empty extent - and the extent has the value if they answer 0.
Confined(m, a, n, r) ==
  \A b \in (r.bm \ m) \union (m \ r.bm) : b \in a .. a + n - 1 \/ b = a
Filled(a, n, v, r) == r.rc = 0 /\ n > 0 => \A b \in a .. a + n - 1 : Is(r.bm, b, v)

\* Whatever bm_set_extent() answers, at most the last bit of the extent is left.
AllButLast(a, n, v, r) == \A b \in a .. a + n - 2 : Is(r.bm, b, v)

\* bm_set_bit() sets or clears the one bit, or nothing past the map.
LEMMA SetBitDoes ==
  ASSUME NEW m, NEW total_bits \in Nat, NEW a \in Nat, NEW v \in {0, 1}
  PROVE  /\ Confined(m, a, 1, bm_set_bit(m, total_bits, a, v))
         /\ Filled(a, 1, v, bm_set_bit(m, total_bits, a, v))
         /\ a >= total_bits => bm_set_bit(m, total_bits, a, v).bm = m
<1>1. CASE a >= total_bits
  BY <1>1 DEF bm_set_bit, Result, Confined, Filled
<1>2. CASE ~(a >= total_bits)
  <2>1. bm_set_bit(m, total_bits, a, v).bm = byte_set_bits(m, a \div Width, a % Width, 1, v)
    BY <1>2 DEF bm_set_bit, Result
  <2>2. (a \div Width) * Width + (a % Width) = a
    BY DivMod
  <2>3. byte_set_bits(m, a \div Width, a % Width, 1, v) = Put(m, a .. a + 1 - 1, v)
    <3>1. a \div Width \in Nat /\ a % Width \in 0 .. Width - 1 /\ (a % Width) + 1 <= Width
      BY DivMod, WidthAssumption
    <3>2. byte_set_bits(m, a \div Width, a % Width, 1, v) =
            Put(m, (a \div Width) * Width + (a % Width)
                   .. (a \div Width) * Width + (a % Width) + 1 - 1, v)
      BY <3>1, ByteBits
    <3> QED  BY ONLY <2>2, <3>2
  <2> DEFINE S == a .. a + 1 - 1
  <2> DEFINE M == Put(m, S, v)
  <2> HIDE DEF S
  <2>4. (\A b \in (M \ m) \union (m \ M) : b \in S) /\ \A b \in S : Is(M, b, v)
    BY PutIs DEF Puts
  <2> HIDE DEF M
  <2>5. bm_set_bit(m, total_bits, a, v).bm = M
    BY <2>1, <2>3 DEF M, S
  <2> QED  BY <1>2, <2>4, <2>5 DEF Confined, Filled, S
<1> QED  BY <1>1, <1>2

\* bm_set_extent(), part by part: the shared byte, the whole bytes, the last bits.
LEMMA SetExtentDoes ==
  ASSUME NEW m, NEW total_bits \in Nat, NEW a \in Nat, NEW n \in Nat, NEW v \in {0, 1}
  PROVE  /\ Confined(m, a, n, bm_set_extent(m, total_bits, a, n, v))
         /\ Filled(a, n, v, bm_set_extent(m, total_bits, a, n, v))
         /\ a + n <= total_bits => AllButLast(a, n, v, bm_set_extent(m, total_bits, a, n, v))
         /\ a + n > total_bits => bm_set_extent(m, total_bits, a, n, v).bm = m
<1> DEFINE res == bm_set_extent(m, total_bits, a, n, v)
           part == FirstPart(a, n)
           pending == Pending(a, n)
           first == FirstWhole(a)
           extra == Extra(a, n)
           next == NextByte(a, n)
           shared == a % Width # 0
           m1 == IF shared THEN byte_set_bits(m, a \div Width, a % Width, part, v) ELSE m
           m2 == Put(m1, Bit(first, 0) .. Bit(next, 0) - 1, v)
           m3 == byte_set_bits(m2, next, 0, extra, v)
<1>0. total_bits \in Nat /\ Width \in Nat
  BY WidthAssumption
<1>1. res = IF a + n > total_bits THEN Result(m, -1, 0) ELSE
            IF n = 1 THEN bm_set_bit(m, total_bits, a, v) ELSE
            IF pending = 0 /\ shared THEN Result(m1, 0, 0) ELSE
            IF extra = 0 /\ next > first THEN Result(m2, 0, 0) ELSE
            IF extra > 1 THEN Result(m3, 0, 0) ELSE Result(m2, -2, 0)
  BY <1>0 DEF bm_set_extent, Pending, Extra, NextByte
<1>2. CASE a + n > total_bits
  BY <1>0, <1>1, <1>2 DEF Result, Confined, Filled
<1>3. CASE a + n <= total_bits /\ n = 1
  <2>1. res = bm_set_bit(m, total_bits, a, v)
    BY <1>0, <1>1, <1>3
  <2> QED  BY <1>0, <1>3, <2>1, SetBitDoes DEF AllButLast
<1>4. CASE a + n <= total_bits /\ n # 1
  <2> HIDE DEF res, part, pending, first, extra, next, shared, m1, m2, m3
  <2>1. res \in {Result(m1, 0, 0), Result(m2, 0, 0), Result(m3, 0, 0), Result(m2, -2, 0)}
        /\ res = IF pending = 0 /\ shared THEN Result(m1, 0, 0) ELSE
                 IF extra = 0 /\ next > first THEN Result(m2, 0, 0) ELSE
                 IF extra > 1 THEN Result(m3, 0, 0) ELSE Result(m2, -2, 0)
    BY <1>0, <1>1, <1>4
  <2>2. /\ part \in Nat /\ pending \in Nat /\ pending = n - part
        /\ first \in Nat /\ next \in Nat /\ extra \in 0 .. Width - 1 /\ extra <= pending
        /\ ~shared => part = 0
        /\ shared /\ n > 0 => part > 0
        /\ shared => (a % Width) + part <= Width
        /\ pending > 0 \/ ~shared => first * Width = a + part
        /\ next * Width = first * Width + (pending - extra)
    BY Cut DEF part, pending, first, extra, next, shared, Pending
  <2>3. first * Width \in Nat /\ next * Width \in Nat
    BY <1>0, <2>2
  \* The shared byte.
  <2>4. /\ \A b \in (m1 \ m) \union (m \ m1) : b \in a .. a + part - 1 \/ b = a
        /\ part > 0 => \A b \in a .. a + part - 1 : Is(m1, b, v)
    <3>1. CASE shared /\ part > 0
      <4>1. a \div Width \in Nat /\ a % Width \in 0 .. Width - 1
            /\ (a \div Width) * Width + (a % Width) = a
        BY DivMod
      <4>2. m1 = Put(m, a .. a + part - 1, v)
        BY <2>2, <3>1, <4>1, ByteBits DEF m1
      <4>3. Puts(m1, m, a .. a + part - 1, v)
        BY <4>2, PutIs
      <4> QED  BY <4>3 DEF Puts
    <3>2. CASE shared /\ part = 0
      <4>1. a % Width \in 0 .. Width - 1 /\ a \div Width \in Nat
            /\ Bit(a \div Width, a % Width) = a
        BY DivMod DEF Bit
      <4>2. LastBit(a % Width, part) = a % Width
        BY <3>2 DEF LastBit
      <4>3. \A b \in (a % Width) .. (a % Width) : b = a % Width
        BY <4>1
      <4>4. m1 = Put(m, {Bit(a \div Width, b) : b \in (a % Width) .. (a % Width)}, v)
        BY <3>2, <4>2 DEF m1, byte_set_bits
      <4>5. \A x \in {Bit(a \div Width, b) : b \in (a % Width) .. (a % Width)} : x = a
        BY <4>1, <4>3
      <4>6. Puts(m1, m, {Bit(a \div Width, b) : b \in (a % Width) .. (a % Width)}, v)
        BY <4>4, PutIs
      <4> QED  BY <3>2, <4>5, <4>6 DEF Puts
    <3>3. CASE ~shared
      BY <2>2, <3>3 DEF m1
    <3> QED  BY <2>2, <3>1, <3>2, <3>3
  \* The whole bytes.
  <2>5. m2 = Put(m1, first * Width .. next * Width - 1, v)
    BY <2>2, <2>3 DEF m2, Bit
  <2>6. Puts(m2, m1, first * Width .. next * Width - 1, v)
    BY <2>5, PutIs
  \* The last bits.
  <2>7. extra > 0 => Puts(m3, m2, next * Width .. next * Width + extra - 1, v)
    <3> SUFFICES ASSUME extra > 0 PROVE
          m3 = Put(m2, next * Width .. next * Width + extra - 1, v)
      BY PutIs
    <3>1. m3 = Put(m2, next * Width + 0 .. next * Width + 0 + extra - 1, v)
      BY <1>0, <2>2, ByteBits DEF m3
    <3> QED  BY <2>2, <2>3, <3>1
  <2> DEFINE fw == first * Width
             nw == next * Width
  <2> HIDE DEF fw, nw
  <2>8. /\ fw \in Nat /\ nw \in Nat /\ nw = fw + (pending - extra)
        /\ pending > 0 \/ ~shared => fw = a + part
    BY <2>2, <2>3 DEF fw, nw
  <2>9. CASE pending = 0 /\ shared
    <3>1. res.bm = m1 /\ part = n
      BY <2>1, <2>2, <2>9 DEF Result
    <3> QED  BY <1>0, <1>4, <2>4, <3>1 DEF Confined, Filled, AllButLast, res
  <2>10. CASE ~(pending = 0 /\ shared)
    <3>1. fw = a + part /\ nw = a + n - extra
      BY <2>2, <2>8, <2>10
    <3>2. \A b \in (m2 \ m) \union (m \ m2) : b \in a .. a + n - 1 \/ b = a
      <4>1. \A b \in fw .. nw - 1 : b \in a .. a + n - 1
        BY <2>2, <3>1
      <4>2. \A b \in a .. a + part - 1 : b \in a .. a + n - 1
        BY <2>2
      <4> QED  BY <2>4, <2>6, <4>1, <4>2 DEF fw, nw, Puts
    <3>3. \A b \in a .. a + n - extra - 1 : Is(m2, b, v)
      <4>1. \A b \in a .. a + n - extra - 1 : b \in a .. a + part - 1 \/ b \in fw .. nw - 1
        BY <2>2, <3>1
      <4>2. \A b \in a .. a + part - 1 : part > 0 /\ b \notin fw .. nw - 1
        BY <2>2, <3>1
      <4> QED  BY <2>4, <2>6, <4>1, <4>2 DEF fw, nw, Is, Puts
    <3>4. CASE extra = 0 /\ next > first
      <4>1. res.bm = m2
        BY <2>1, <2>10, <3>4 DEF Result
      <4> QED  BY <1>0, <1>4, <2>2, <3>2, <3>3, <3>4, <4>1 DEF Confined, Filled, AllButLast, res
    <3>5. CASE extra > 1
      <4>1. res.bm = m3
        BY <2>1, <2>2, <2>10, <3>5 DEF Result
      <4>2. \A b \in nw .. nw + extra - 1 : b \in a .. a + n - 1
        BY <2>2, <3>1
      <4>3. \A b \in (m3 \ m) \union (m \ m3) : b \in a .. a + n - 1 \/ b = a
        BY <2>2, <2>7, <3>2, <3>5, <4>2 DEF nw, Puts
      <4>4. \A b \in a .. a + n - 1 : Is(m3, b, v)
        <5>1. \A b \in a .. a + n - 1 : b \in nw .. nw + extra - 1 \/ b \in a .. a + n - extra - 1
          BY <2>2, <3>1
        <5>2. \A b \in a .. a + n - extra - 1 : b \notin nw .. nw + extra - 1
          BY <2>2, <3>1
        <5> QED  BY <2>2, <2>7, <3>3, <3>5, <5>1, <5>2 DEF nw, Is, Puts
      <4> QED  BY <1>0, <1>4, <4>1, <4>3, <4>4 DEF Confined, Filled, AllButLast, res
    <3>6. CASE ~(extra = 0 /\ next > first) /\ ~(extra > 1)
      <4>1. res.bm = m2 /\ res.rc = -2
        BY <2>1, <2>10, <3>6 DEF Result
      <4>2. \A b \in a .. a + n - 2 : b \in a .. a + n - extra - 1
        BY <2>2, <3>6
      <4> QED  BY <1>0, <1>4, <3>2, <3>3, <4>1, <4>2 DEF Confined, Filled, AllButLast, res
    <3> QED  BY <3>4, <3>5, <3>6
  <2> QED  BY <2>9, <2>10
<1> QED  BY <1>0, <1>2, <1>3, <1>4

-----------------------------------------------------------------------------
(* Induction.                                                                *)

\* A set of numbers has a least one.
LEMMA LeastIs ==
  ASSUME NEW S, S \subseteq Nat, S # {}
  PROVE  Least(S) \in S /\ \A y \in S : Least(S) <= y
<1> DEFINE R == OpToRel(<, Nat)
<1>1. IsWellFoundedOn(R, Nat)
  BY NatLessThanWellFounded
<1>2. \A x, y \in Nat : <<x, y>> \in R <=> x < y
  BY DEF OpToRel
<1> HIDE DEF R
<1>3. PICK x \in S : \A y \in S : ~(<<y, x>> \in R)
  BY <1>1, WFMin
<1>4. ASSUME NEW y \in S PROVE x <= y
  <2>1. x \in Nat /\ y \in Nat /\ ~(<<y, x>> \in R)
    BY <1>3
  <2>2. ~(y < x)
    BY <1>2, <2>1
  <2> QED  BY <2>1, <2>2
<1> QED  BY <1>3, <1>4 DEF Least

\* A set that has 0, and n + 1 with every n, has every number.
LEMMA Induction ==
  ASSUME NEW S, 0 \in S, \A n \in Nat : n \in S => n + 1 \in S
  PROVE  Nat \subseteq S
<1> SUFFICES ASSUME Nat \ S # {} PROVE FALSE
  OBVIOUS
<1> DEFINE x == Least(Nat \ S)
<1>1. x \in Nat \ S /\ \A y \in Nat \ S : x <= y
  BY LeastIs
<1> HIDE DEF x
<1>2. x # 0 /\ x - 1 \in Nat /\ x - 1 \in S
  BY <1>1
<1> QED  BY <1>1, <1>2

\* A functional that looks at a function only where a measure is smaller has a
\* fixed point: the functions that a recursive definition defines exist.
Measures(mu, S, N) == N \in Nat /\ mu \in [S -> Nat] /\ \A s \in S : mu[s] < N
LooksBelow(F, S, R, mu) ==
  /\ F \in [[S -> R] -> [S -> R]]
  /\ \A g, h \in [S -> R] : \A s \in S :
       (\A t \in S : mu[t] < mu[s] => g[t] = h[t]) => F[g][s] = F[h][s]

\* By induction on the measure below which the values are settled.
LEMMA FixedPoint ==
  ASSUME NEW S, NEW R, R # {}, NEW F, NEW mu, NEW N, Measures(mu, S, N), LooksBelow(F, S, R, mu)
  PROVE  \E g \in [S -> R] : g = F[g]
<1> USE DEF Measures, LooksBelow
<1> DEFINE Solves(g, d) == \A s \in S : mu[s] < d => F[g][s] = g[s]
           D == {d \in Nat : \E g \in [S -> R] : Solves(g, d)}
<1>1. 0 \in D
  <2>1. PICK r \in R : TRUE
    OBVIOUS
  <2>2. [s \in S |-> r] \in [S -> R] /\ \A s \in S : ~(mu[s] < 0)
    OBVIOUS
  <2>3. Solves([s \in S |-> r], 0)
    BY <2>2
  <2> HIDE DEF Solves
  <2> QED  BY <2>2, <2>3
<1>2. ASSUME NEW d \in Nat, d \in D
      PROVE  d + 1 \in D
  <2>1. PICK g \in [S -> R] : Solves(g, d)
    BY <1>2
  <2>2. F[g] \in [S -> R]
    OBVIOUS
  <2>3. ASSUME NEW s \in S, mu[s] < d + 1
        PROVE  F[F[g]][s] = F[g][s]
    <3>1. \A t \in S : mu[t] < mu[s] => F[g][t] = g[t]
      <4>1. \A t \in S : mu[t] \in Nat
        OBVIOUS
      <4> QED  BY <2>1, <2>3, <4>1
    <3> QED  BY <2>2, <3>1
  <2>4. Solves(F[g], d + 1)
    BY <2>3
  <2> HIDE DEF Solves
  <2> QED  BY <2>2, <2>4
<1>3. N \in D
  <2> HIDE DEF D
  <2> QED  BY <1>1, <1>2, Induction
<1>4. PICK g \in [S -> R] : Solves(g, N)
  BY <1>3
<1>5. F[g] \in [S -> R] /\ \A s \in S : F[g][s] = g[s]
  BY <1>4
<1> QED  BY <1>5

-----------------------------------------------------------------------------
(* Counting.                                                                 *)

\* From bit a of m on c bits have the value v, and of n bits no more.
Run(m, a, c, n, v) ==
  /\ c \in 0 .. n
  /\ \A b \in a .. a + c - 1 : Is(m, b, v)
  /\ c < n => ~Is(m, a + c, v)

\* byte_count_bits() counts the run of bits from start on in the byte.
LEMMA ByteCount ==
  ASSUME NEW m, NEW k \in Nat, NEW start \in 0 .. Width - 1, NEW n \in Nat \ {0}, NEW v
  PROVE  Run(m, Bit(k, start), byte_count_bits(m, k, start, n, v), Lower(n, Width - start), v)
<1> DEFINE last == LastBit(start, n)
           S == {b \in start .. last : ~Is(m, Bit(k, b), v)} \union {last + 1}
           x == Least(S)
           kw == k * Width
<1>1. Width \in Nat /\ start \in Nat /\ start < Width /\ kw \in Nat
  BY WidthAssumption
<1>2. last = start + Lower(n, Width - start) - 1 /\ Lower(n, Width - start) \in Nat \ {0}
  BY <1>1 DEF LastBit, Lower
<1>3. last \in Nat /\ start <= last
  BY <1>1, <1>2
<1>4. S \subseteq Nat /\ S # {}
  BY <1>1, <1>3
<1>5. x \in S /\ \A y \in S : x <= y
  <2> HIDE DEF S
  <2> QED  BY <1>4, LeastIs
<1>6. byte_count_bits(m, k, start, n, v) = x - start
  BY DEF byte_count_bits
<1> DEFINE size == Lower(n, Width - start)
<1> HIDE DEF x, last, size
<1>7. x \in start .. last + 1
  BY <1>3, <1>5
<1>8. \A b \in start .. x - 1 : Is(m, Bit(k, b), v)
  BY <1>3, <1>5, <1>7
<1>9. x <= last => ~Is(m, Bit(k, x), v)
  BY <1>3, <1>5, <1>7
<1>10. last = start + size - 1 /\ size \in Nat \ {0}
  BY <1>2 DEF size
<1>11. \A b : Bit(k, b) = kw + b
  BY DEF Bit
<1> HIDE DEF kw, S
<1>12. x - start \in 0 .. size /\ (x - start < size => x <= last)
  BY <1>1, <1>3, <1>7, <1>10
<1>13. ASSUME NEW b \in kw + start .. kw + start + (x - start) - 1
       PROVE  Is(m, b, v)
  <2>1. b - kw \in start .. x - 1 /\ kw + (b - kw) = b
    BY <1>1, <1>3, <1>7
  <2> QED  BY <1>8, <1>11, <2>1
<1>14. kw + start + (x - start) = kw + x
  BY <1>1, <1>3, <1>7
<1> QED  BY <1>6, <1>9, <1>11, <1>12, <1>13, <1>14 DEF Run, size

\* The values of the bits of byte k.
Values(m, k) == {x \in {0, 1} : \E b \in 0 .. Width - 1 : Is(m, Bit(k, b), x)}

\* What CountBytes computes at s from what it computes elsewhere, f.
CountBody(m, n, v, f, s) ==
  IF s.c = n THEN Result(m, -2, 0) ELSE
  IF Values(m, s.k) = {0, 1}
    THEN Result(m, 0, s.c + byte_count_bits(m, s.k, 0, n - s.c, v)) ELSE
  IF Values(m, s.k) = {1 - v} THEN Result(m, 0, s.c) ELSE
  IF n - s.c <= Width THEN Result(m, 0, n)
    ELSE f[[k |-> s.k + 1, c |-> s.c + Width]]

\* A byte has only ones, only zeros, or both.
LEMMA ValuesAre ==
  ASSUME NEW m, NEW k \in Nat, NEW v \in {0, 1}
  PROVE  /\ Values(m, k) = {0, 1} \/ Values(m, k) = {1 - v} \/ Values(m, k) = {v}
         /\ {0, 1} # {v} /\ {0, 1} # {1 - v} /\ {1 - v} # {v}
         /\ Values(m, k) = {v} => \A b \in 0 .. Width - 1 : Is(m, Bit(k, b), v)
         /\ Values(m, k) = {1 - v} => ~Is(m, Bit(k, 0), v)
         /\ Values(m, k) = {0, 1} => \E b \in 0 .. Width - 1 : ~Is(m, Bit(k, b), v)
<1>1. 0 \in 0 .. Width - 1
  BY WidthAssumption
<1>2. \A b : Is(m, b, 0) \/ Is(m, b, 1)
  BY DEF Is
<1>3. \A b : Is(m, b, 0) <=> ~Is(m, b, 1)
  BY DEF Is
<1>4. Values(m, k) # {} /\ Values(m, k) \subseteq {0, 1}
  BY <1>1, <1>2 DEF Values
<1>5. v = 0 \/ v = 1
  OBVIOUS
<1>6. 1 - v \in {0, 1} /\ 1 - v # v
  OBVIOUS
<1>7. Values(m, k) = {0, 1} \/ Values(m, k) = {1 - v} \/ Values(m, k) = {v}
  BY <1>4, <1>5
<1>8. \A b : Is(m, b, 1 - v) <=> ~Is(m, b, v)
  BY <1>3, <1>5
<1>9. ASSUME Values(m, k) = {v}, NEW b \in 0 .. Width - 1 PROVE Is(m, Bit(k, b), v)
  <2>1. 1 - v \notin Values(m, k)
    BY <1>6, <1>9
  <2> QED  BY <1>6, <1>8, <2>1 DEF Values
<1>10. Values(m, k) = {1 - v} => ~Is(m, Bit(k, 0), v)
  BY <1>1, <1>6 DEF Values
<1>11. Values(m, k) = {0, 1} => \E b \in 0 .. Width - 1 : ~Is(m, Bit(k, b), v)
  BY <1>6, <1>8 DEF Values
<1>12. {0, 1} # {v} /\ {0, 1} # {1 - v} /\ {1 - v} # {v}
  BY <1>5
<1> QED  BY <1>7, <1>9, <1>10, <1>11, <1>12

\* CountBytes is defined: it computes what its body says.
LEMMA CountIsBody ==
  ASSUME NEW m, NEW n \in Nat, NEW v \in {0, 1}
  PROVE  LET f == CountBytes(m, n, v)
         IN  f = [s \in Counting(n) |-> CountBody(m, n, v, f, s)]
<1> DEFINE S == Counting(n)
           R == [bm : {m}, rc : {0, -2}, out : 0 .. n]
           F == [g \in [S -> R] |-> [s \in S |-> CountBody(m, n, v, g, s)]]
           mu == [s \in S |-> n - s.c]
<1>1. \A s \in S : s.k \in Nat /\ s.c \in 0 .. n
  BY DEF Counting
<1>2. \A rc \in {0, -2}, out \in 0 .. n : Result(m, rc, out) \in R
  BY DEF Result
<1>3. \A s \in S : s.c < n => s.c + byte_count_bits(m, s.k, 0, n - s.c, v) \in 0 .. n
  <2> SUFFICES ASSUME NEW s \in S, s.c < n
               PROVE  s.c + byte_count_bits(m, s.k, 0, n - s.c, v) \in 0 .. n
    OBVIOUS
  <2>1. n - s.c \in Nat \ {0} /\ 0 \in 0 .. Width - 1
    BY <1>1, WidthAssumption
  <2>2. byte_count_bits(m, s.k, 0, n - s.c, v) \in 0 .. Lower(n - s.c, Width - 0)
    BY <1>1, <2>1, ByteCount DEF Run
  <2>3. Lower(n - s.c, Width - 0) <= n - s.c /\ Lower(n - s.c, Width - 0) \in Int
    BY <2>1, WidthAssumption DEF Lower
  <2> QED  BY <1>1, <2>2, <2>3
<1>4. \A s \in S : s.c < n /\ ~(n - s.c <= Width) => 
        [k |-> s.k + 1, c |-> s.c + Width] \in S /\ n - (s.c + Width) < n - s.c
  BY <1>1, WidthAssumption DEF Counting
<1> HIDE DEF S, R
<1>5. \A s \in S : s.c = n \/ s.c < n
  BY <1>1
<1>6. ASSUME NEW g \in [S -> R], NEW s \in S PROVE CountBody(m, n, v, g, s) \in R
  <2>1. CASE s.c = n
    BY <1>2, <2>1 DEF CountBody
  <2>2. CASE s.c < n
    <3>1. s.c # n /\ s.k \in Nat /\ s.c \in 0 .. n /\ n \in 0 .. n
      BY <1>1, <2>2
    <3>2. CASE Values(m, s.k) = {0, 1}
      <4>1. CountBody(m, n, v, g, s) = Result(m, 0, s.c + byte_count_bits(m, s.k, 0, n - s.c, v))
        BY <2>2, <3>1, <3>2, ValuesAre DEF CountBody
      <4> QED  BY <1>2, <1>3, <2>2, <4>1
    <3>3. CASE Values(m, s.k) = {1 - v}
      <4>1. CountBody(m, n, v, g, s) = Result(m, 0, s.c)
        BY <2>2, <3>1, <3>3, ValuesAre DEF CountBody
      <4> QED  BY <1>2, <3>1, <4>1
    <3>4. CASE Values(m, s.k) = {v}
      <4>1. CountBody(m, n, v, g, s) =
              IF n - s.c <= Width THEN Result(m, 0, n)
              ELSE g[[k |-> s.k + 1, c |-> s.c + Width]]
        BY <2>2, <3>1, <3>4, ValuesAre DEF CountBody
      <4> QED  BY <1>2, <1>4, <2>2, <3>1, <4>1
    <3> QED  BY <3>1, <3>2, <3>3, <3>4, ValuesAre
  <2> QED  BY <1>5, <2>1, <2>2
<1>7. F \in [[S -> R] -> [S -> R]]
  BY <1>6
<1>8. R # {}
  BY <1>2
<1>9. mu \in [S -> Nat] /\ \A s \in S : mu[s] < n + 1
  BY <1>1
<1>10. ASSUME NEW g \in [S -> R], NEW h \in [S -> R], NEW s \in S,
              \A t \in S : mu[t] < mu[s] => g[t] = h[t]
       PROVE  F[g][s] = F[h][s]
  <2>1. F[g][s] = CountBody(m, n, v, g, s) /\ F[h][s] = CountBody(m, n, v, h, s)
    OBVIOUS
  <2> DEFINE t == [k |-> s.k + 1, c |-> s.c + Width]
  <2>2. s.c < n /\ ~(n - s.c <= Width) => g[t] = h[t]
    <3>1. t \in S => mu[t] = n - (s.c + Width)
      OBVIOUS
    <3> QED  BY <1>4, <1>10, <3>1
  <2> HIDE DEF F, mu, t
  <2>3. CountBody(m, n, v, g, s) = CountBody(m, n, v, h, s)
    BY <1>5, <2>2 DEF CountBody, t
  <2> QED  BY <2>1, <2>3
<1> HIDE DEF mu
<1>11. \E g \in [S -> R] : g = F[g]
  <2> HIDE DEF F
  <2>1. LooksBelow(F, S, R, mu)
    BY <1>7, <1>10 DEF LooksBelow
  <2>2. Measures(mu, S, n + 1)
    BY <1>9 DEF Measures
  <2> QED  BY <1>8, <2>1, <2>2, FixedPoint
<1>12. \E g : g = [s \in S |-> CountBody(m, n, v, g, s)]
  BY <1>11
<1>13. CountBytes(m, n, v) = CHOOSE g : g = [s \in S |-> CountBody(m, n, v, g, s)]
  BY DEF CountBytes, CountBody, Values, S
<1> QED  BY <1>12, <1>13 DEF S

\* A run of w bits that goes on.
LEMMA RunJoins ==
  ASSUME NEW m, NEW a \in Nat, NEW w \in Nat, NEW n \in Nat, NEW c, NEW v,
         \A b \in a .. a + w - 1 : Is(m, b, v), Run(m, a + w, c, n, v)
  PROVE  Run(m, a, w + c, w + n, v)
<1>1. c \in 0 .. n /\ c \in Nat
  BY DEF Run
<1>2. w + c \in 0 .. w + n /\ (w + c < w + n => c < n) /\ a + w + c = a + (w + c)
  BY <1>1
<1>3. ASSUME NEW b \in a .. a + (w + c) - 1 PROVE Is(m, b, v)
  <2>1. b \in a .. a + w - 1 \/ b \in a + w .. a + w + c - 1
    BY <1>1
  <2> QED  BY <2>1 DEF Run
<1> QED  BY <1>2, <1>3 DEF Run

\* From byte s.k on, with s.c bits counted already, the count goes on to the end of
\* the run.
Counted(m, n, v, s, r) ==
  /\ r.rc = 0 /\ r.out \in s.c .. n
  /\ Run(m, Bit(s.k, 0), r.out - s.c, n - s.c, v)

\* By induction on the bits that are left.
LEMMA BytesCounted ==
  ASSUME NEW m, NEW n \in Nat, NEW v \in {0, 1}, NEW s \in Counting(n), s.c < n
  PROVE  Counted(m, n, v, s, CountBytes(m, n, v)[s])
<1> DEFINE f == CountBytes(m, n, v)
           D == {d \in Nat : \A t \in Counting(n) :
                   t.c < n /\ n - t.c <= d => Counted(m, n, v, t, f[t])}
<1>1. 0 \in D
  BY DEF Counting
<1>2. ASSUME NEW d \in Nat, d \in D
      PROVE  d + 1 \in D
  <2> SUFFICES ASSUME NEW t \in Counting(n), t.c < n, n - t.c <= d + 1
               PROVE  Counted(m, n, v, t, f[t])
    OBVIOUS
  <2> DEFINE k == t.k
             c == t.c
             left == n - c
             x == byte_count_bits(m, k, 0, left, v)
             next == [k |-> k + 1, c |-> c + Width]
  <2>1. f[t] = CountBody(m, n, v, f, t)
    <3> HIDE DEF f
    <3>1. f = [u \in Counting(n) |-> CountBody(m, n, v, f, u)]
      BY CountIsBody DEF f
    <3> QED  BY <3>1
  <2>2. k \in Nat /\ c \in 0 .. n /\ c < n /\ left \in Nat \ {0} /\ Width \in Nat /\ Width > 1
    BY WidthAssumption DEF Counting
  <2>3. /\ Bit(k, 0) \in Nat /\ Bit(k + 1, 0) = Bit(k, 0) + Width
        /\ \A b \in 0 .. Width - 1 : Bit(k, b) = Bit(k, 0) + b
    <3> DEFINE kw == k * Width
    <3>1. kw \in Nat /\ (k + 1) * Width = kw + Width
      BY <2>2
    <3> HIDE DEF kw
    <3>2. Bit(k, 0) = kw + 0 /\ Bit(k + 1, 0) = kw + Width + 0
          /\ \A b \in 0 .. Width - 1 : Bit(k, b) = kw + b
      BY <3>1 DEF Bit, kw
    <3> QED  BY <2>2, <3>1, <3>2
  <2>4. CASE Values(m, k) = {0, 1}
    <3>1. f[t] = Result(m, 0, c + x)
      BY <2>1, <2>2, <2>4 DEF CountBody
    <3>2. Run(m, Bit(k, 0), x, Lower(left, Width - 0), v)
      BY <2>2, ByteCount
    <3>3. Lower(left, Width - 0) = IF left < Width THEN left ELSE Width
      BY <2>2 DEF Lower
    <3>4. PICK b \in 0 .. Width - 1 : ~Is(m, Bit(k, b), v)
      BY <2>2, <2>4, ValuesAre
    <3> HIDE DEF left, x, c, k
    <3> DEFINE a == Bit(k, 0)
    <3>5. a + b = Bit(k, b) /\ a \in Nat
      BY <2>3
    <3> HIDE DEF a
    <3>6. x \in 0 .. Lower(left, Width - 0) /\ \A i \in a .. a + x - 1 : Is(m, i, v)
      BY <3>2 DEF Run, a
    <3>7. ~(x > b)
      BY <2>2, <3>3, <3>4, <3>5, <3>6
    <3>8. Run(m, a, x, left, v)
      BY <2>2, <3>2, <3>3, <3>7 DEF Run, a
    <3>9. x \in 0 .. left
      BY <3>8 DEF Run
    <3>10. n - c = left /\ n \in Nat
      BY DEF left
    <3>11. c + x \in c .. n /\ (c + x) - c = x
      BY <2>2, <3>9, <3>10
    <3> QED  BY <3>1, <3>8, <3>10, <3>11 DEF Counted, Result, a, c, k
  <2>5. CASE Values(m, k) = {1 - v}
    <3>1. f[t] = Result(m, 0, c)
      BY <2>1, <2>2, <2>5, ValuesAre DEF CountBody
    <3>2. ~Is(m, Bit(k, 0), v)
      BY <2>2, <2>5, ValuesAre
    <3>3. c \in c .. n /\ c - c = 0 /\ 0 \in 0 .. n - c
      BY <2>2
    <3>4. Run(m, Bit(k, 0), 0, n - c, v)
      BY <2>2, <2>3, <3>2, <3>3 DEF Run
    <3> QED  BY <3>1, <3>3, <3>4 DEF Counted, Result
  <2>6. CASE Values(m, k) = {v}
    <3>1. f[t] = IF left <= Width THEN Result(m, 0, n) ELSE f[next]
      <4>1. c # n /\ Values(m, k) # {0, 1} /\ Values(m, k) # {1 - v}
        BY <2>2, <2>6, ValuesAre
      <4> HIDE DEF f
      <4> QED  BY <2>1, <4>1 DEF CountBody
    <3>2. \A b \in 0 .. Width - 1 : Is(m, Bit(k, b), v)
      BY <2>2, <2>6, ValuesAre
    <3> DEFINE a == Bit(k, 0)
    <3>3. a \in Nat /\ \A i \in a .. a + Width - 1 : Is(m, i, v)
      <4>1. ASSUME NEW i \in a .. a + Width - 1
            PROVE  i - a \in 0 .. Width - 1 /\ Bit(k, i - a) = i
        <5>1. i - a \in 0 .. Width - 1
          BY <2>2, <2>3
        <5> QED  BY <2>3, <5>1
      <4> QED  BY <2>3, <3>2, <4>1
    <3>4. CASE left <= Width
      <4>1. f[t].rc = 0 /\ f[t].out = n
        BY <3>1, <3>4 DEF Result
      <4> HIDE DEF a
      <4>2. Run(m, a, n - c, n - c, v)
        BY <2>2, <3>3, <3>4 DEF Run
      <4> QED  BY <2>2, <4>1, <4>2 DEF Counted, a
    <3>5. CASE ~(left <= Width)
      <4>1. next \in Counting(n) /\ next.c < n /\ n - next.c <= d
        BY <2>2, <3>5 DEF Counting
      <4>2. Counted(m, n, v, next, f[next])
        BY <1>2, <4>1
      <4> DEFINE o == f[next].out
      <4>3. f[t].rc = 0 /\ o = f[t].out /\ o \in c + Width .. n
            /\ Run(m, a + Width, o - (c + Width), n - (c + Width), v)
        BY <2>3, <3>1, <3>5, <4>2 DEF Counted
      <4> HIDE DEF a, o, c, left
      <4>4. Run(m, a, Width + (o - (c + Width)), Width + (n - (c + Width)), v)
        BY <2>2, <3>3, <4>1, <4>3, RunJoins DEF left
      <4>5. Width + (o - (c + Width)) = o - c /\ Width + (n - (c + Width)) = n - c
            /\ o \in c .. n
        BY <2>2, <4>3
      <4> QED  BY <4>3, <4>4, <4>5 DEF Counted, a, c
    <3> QED  BY <3>4, <3>5
  <2> QED  BY <2>2, <2>4, <2>5, <2>6, ValuesAre
<1>3. n - s.c \in Nat
  BY DEF Counting
<1>4. n - s.c \in D
  <2> HIDE DEF D
  <2> QED  BY <1>1, <1>2, <1>3, Induction
<1> QED  BY <1>3, <1>4

\* bm_count() counts the run of bits that starts at a, across the bytes.
LEMMA CountDoes ==
  ASSUME NEW m, NEW total_bits \in Nat, NEW a \in Nat, NEW n \in Nat \ {0}, a + n <= total_bits,
         NEW v \in {0, 1}
  PROVE  LET r == bm_count(m, total_bits, a, n, v)
         IN  r.rc = 0 /\ Run(m, a, r.out, n, v)
<1> DEFINE q == a \div Width
           p == a % Width
           e == FirstPart(a, n)
           x == byte_count_bits(m, q, p, e, v)
           r == bm_count(m, total_bits, a, n, v)
           t == [k |-> FirstWhole(a), c |-> x]
           z == [k |-> q, c |-> 0]
<1>1. r = IF p = 0 THEN CountBytes(m, n, v)[z] ELSE
          IF n = e \/ x < e THEN Result(m, 0, x) ELSE CountBytes(m, n, v)[t]
  BY DEF bm_count
<1>2. q \in Nat /\ p \in 0 .. Width - 1 /\ a = q * Width + p
  BY DivMod
<1>3. CASE p = 0
  <2>1. r = CountBytes(m, n, v)[z] /\ z \in Counting(n) /\ z.c < n /\ z.k = q /\ z.c = 0
    BY <1>1, <1>2, <1>3 DEF Counting
  <2>2. Counted(m, n, v, z, r)
    BY <2>1, BytesCounted
  <2>3. Bit(q, 0) = a
    BY <1>2, <1>3 DEF Bit
  <2> HIDE DEF q, z, r
  <2>4. r.rc = 0 /\ r.out \in 0 .. n /\ Run(m, a, r.out - 0, n - 0, v)
    BY <2>1, <2>2, <2>3 DEF Counted
  <2>5. r.out - 0 = r.out /\ n - 0 = n
    BY <2>4
  <2> QED  BY <2>4, <2>5 DEF r
<1>4. CASE p # 0
  <2>1. e = (IF n < Width - p THEN n ELSE Width - p) /\ e \in Nat \ {0} /\ e <= n
    BY <1>2, <1>4, WidthAssumption DEF FirstPart, Lower
  <2>2. Bit(q, p) = a
    BY <1>2 DEF Bit
  <2>3. Lower(e, Width - p) = e
    <3> HIDE DEF e
    <3> QED  BY <1>2, <2>1, WidthAssumption DEF Lower
  <2>4. Run(m, a, x, e, v)
    BY <1>2, <2>1, <2>2, <2>3, ByteCount
  <2>5. Pending(a, n) = n - e /\ FirstWhole(a) \in Nat
        /\ (Pending(a, n) > 0 => FirstWhole(a) * Width = a + e)
    BY Cut DEF Pending
  <2> HIDE DEF q, p, e, x
  <2>6. x \in 0 .. e
    BY <2>4 DEF Run
  <2>7. CASE n = e \/ x < e
    <3>1. r = Result(m, 0, x)
      BY <1>1, <1>4, <2>7
    <3>2. Run(m, a, x, n, v)
      BY <2>1, <2>4, <2>6, <2>7 DEF Run
    <3> QED  BY <3>1, <3>2 DEF Result
  <2>8. CASE ~(n = e \/ x < e)
    <3>1. x = e /\ e < n
      BY <2>1, <2>6, <2>8
    <3>2. r = CountBytes(m, n, v)[t] /\ t \in Counting(n) /\ t.c < n /\ t.c = e
          /\ Bit(t.k, 0) = a + e
      BY <1>1, <1>4, <2>1, <2>5, <2>8, <3>1 DEF Counting, Bit
    <3>3. Counted(m, n, v, t, r)
      BY <3>2, BytesCounted
    <3> HIDE DEF r, t
    <3> DEFINE o == r.out
    <3>4. r.rc = 0 /\ o \in e .. n /\ Run(m, a + e, o - e, n - e, v)
      BY <3>2, <3>3 DEF Counted
    <3> HIDE DEF o
    <3>5. \A b \in a .. a + e - 1 : Is(m, b, v)
      BY <2>4, <3>1 DEF Run
    <3>6. Run(m, a, e + (o - e), e + (n - e), v)
      BY <2>1, <3>1, <3>4, <3>5, RunJoins
    <3>7. e + (o - e) = o /\ e + (n - e) = n
      BY <2>1, <3>4
    <3> QED  BY <3>4, <3>6, <3>7 DEF r, o
  <2> QED  BY <2>7, <2>8
<1> QED  BY <1>3, <1>4

\* bm_extent_can_grow() answers 0 for ones, perhaps none, and then zeros, at least
\* one, to the end of the extent.
OnesThenZeros(m, a, n) ==
  \E k \in 0 .. n - 1 : \A b \in a .. a + n - 1 : b \in m <=> b < a + k

\* Its counts of ones and of zeros add up to the extent exactly then.
LEMMA GrowDoes ==
  ASSUME NEW m, NEW total_bits \in Nat, NEW a \in Nat, NEW n \in Nat
  PROVE  bm_extent_can_grow(m, total_bits, a, n).rc = 0
           <=> n > 0 /\ a + n <= total_bits /\ OnesThenZeros(m, a, n)
<1> DEFINE r == bm_extent_can_grow(m, total_bits, a, n)
           zeros == bm_count(m, total_bits, a, n, 0).out
           ones  == bm_count(m, total_bits, a, n, 1).out
           later == bm_count(m, total_bits, a + ones, n - ones, 0).out
<1>1. r = IF a >= total_bits \/ a + n > total_bits \/ n = 0 THEN Result(m, -1, 0) ELSE
          IF zeros > 0 THEN Result(m, IF zeros = n THEN 0 ELSE -2, 0)
          ELSE Result(m, IF ones = n THEN -3 ELSE IF ones + later = n THEN 0 ELSE -5, 0)
  BY DEF bm_extent_can_grow, ZerosLeft
<1>2. CASE ~(n > 0 /\ a + n <= total_bits)
  <2>1. r = Result(m, -1, 0)
    BY <1>1, <1>2
  <2> QED  BY <1>2, <2>1 DEF Result
<1>3. CASE n > 0 /\ a + n <= total_bits
  <2>1. n \in Nat \ {0} /\ ~(a >= total_bits) /\ ~(a + n > total_bits) /\ n # 0
    BY <1>3
  <2>2. Run(m, a, zeros, n, 0) /\ Run(m, a, ones, n, 1)
    BY <1>3, <2>1, CountDoes
  <2> HIDE DEF zeros, ones
  <2>3. zeros \in 0 .. n /\ ones \in 0 .. n
    BY <2>2 DEF Run
  <2>4. /\ \A b \in a .. a + zeros - 1 : b \notin m
        /\ zeros < n => a + zeros \in m
        /\ \A b \in a .. a + ones - 1 : b \in m
        /\ ones < n => a + ones \notin m
    BY <2>2 DEF Run, Is
  <2>5. CASE zeros = n
    <3>1. r.rc = 0
      BY <1>1, <2>1, <2>5 DEF Result
    <3>2. 0 \in 0 .. n - 1 /\ \A b \in a .. a + n - 1 : b \in m <=> b < a + 0
      BY <2>1, <2>4, <2>5
    <3>3. OnesThenZeros(m, a, n)
      BY <3>2 DEF OnesThenZeros
    <3> QED  BY <1>3, <3>1, <3>3
  <2>6. CASE zeros > 0 /\ zeros # n
    <3>1. r.rc = -2
      BY <1>1, <2>1, <2>6 DEF Result
    <3>2. ASSUME NEW k \in 0 .. n - 1, \A b \in a .. a + n - 1 : b \in m <=> b < a + k
          PROVE  FALSE
      <4>1. a \in a .. a + n - 1 /\ a + zeros \in a .. a + n - 1 /\ a \in a .. a + zeros - 1
        BY <2>1, <2>3, <2>6
      <4>2. ~(a < a + k) /\ a + zeros < a + k
        BY <2>3, <2>4, <2>6, <3>2, <4>1
      <4> QED  BY <2>3, <4>2
    <3> QED  BY <3>1, <3>2 DEF OnesThenZeros
  <2>7. CASE zeros = 0
    <3>1. a \in m /\ ones # 0
      BY <2>1, <2>4, <2>7
    <3>2. CASE ones = n
      <4>1. r.rc = -3
        BY <1>1, <2>1, <2>5, <2>7, <3>2 DEF Result
      <4>2. ASSUME NEW k \in 0 .. n - 1, \A b \in a .. a + n - 1 : b \in m <=> b < a + k
            PROVE  FALSE
        <5>1. a + n - 1 \in a .. a + n - 1 /\ a + n - 1 \in a .. a + ones - 1
          BY <2>1, <3>2
        <5>2. a + n - 1 < a + k
          BY <2>4, <4>2, <5>1
        <5> QED  BY <5>2
      <4> QED  BY <4>1, <4>2 DEF OnesThenZeros
    <3>3. CASE ones # n
      <4>1. n - ones \in Nat \ {0} /\ a + ones \in Nat /\ (a + ones) + (n - ones) <= total_bits
        BY <1>3, <2>3, <3>3
      <4>2. Run(m, a + ones, later, n - ones, 0)
        BY <4>1, CountDoes
      <4> HIDE DEF later
      <4>3. later \in 0 .. n - ones
        BY <4>2 DEF Run
      <4>4. /\ \A b \in a + ones .. a + ones + later - 1 : b \notin m
            /\ later < n - ones => a + ones + later \in m
        BY <4>2 DEF Run, Is
      <4>5. CASE ones + later = n
        <5>1. r.rc = 0
          BY <1>1, <2>1, <2>7, <3>3, <4>5 DEF Result
        <5>2. ASSUME NEW b \in a .. a + n - 1 PROVE b \in m <=> b < a + ones
          <6>1. \/ b \in a .. a + ones - 1 /\ b < a + ones
                \/ b \in a + ones .. a + ones + later - 1 /\ ~(b < a + ones)
            BY <2>3, <4>3, <4>5
          <6> QED  BY <2>4, <4>4, <6>1
        <5>3. ones \in 0 .. n - 1
          BY <2>3, <3>3
        <5> QED  BY <1>3, <5>1, <5>2, <5>3 DEF OnesThenZeros
      <4>6. CASE ones + later # n
        <5>1. r.rc = -5
          BY <1>1, <2>1, <2>7, <3>3, <4>6 DEF Result
        <5>2. ASSUME NEW k \in 0 .. n - 1, \A b \in a .. a + n - 1 : b \in m <=> b < a + k
              PROVE  FALSE
          <6>1. /\ a + ones \in a .. a + n - 1 /\ a + ones \notin m
                /\ a + ones + later \in a .. a + n - 1 /\ a + ones + later \in m
            BY <2>3, <2>4, <3>3, <4>3, <4>4, <4>6
          <6>2. ~(a + ones < a + k) /\ a + ones + later < a + k
            BY <5>2, <6>1
          <6> QED  BY <2>3, <4>3, <6>2
        <5> QED  BY <5>1, <5>2 DEF OnesThenZeros
      <4> QED  BY <4>5, <4>6
    <3> QED  BY <3>2, <3>3
  <2> QED  BY <2>3, <2>5, <2>6, <2>7
<1> QED  BY <1>2, <1>3

-----------------------------------------------------------------------------
(* Searching.                                                                *)

\* From bit g of m on there are n zeros.
Gap(m, g, n) == \A b \in g .. g + n - 1 : b \notin m

\* The bits of a byte, and of the next one.
LEMMA Bits ==
  ASSUME NEW k \in Nat
  PROVE  /\ Bit(k, 0) \in Nat /\ Bit(k + 1, 0) = Bit(k, 0) + Width
         /\ \A b \in Int : Bit(k, b) = Bit(k, 0) + b
<1> DEFINE kw == k * Width
<1>1. kw \in Nat /\ (k + 1) * Width = kw + Width
  BY WidthAssumption
<1> HIDE DEF kw
<1>2. Bit(k, 0) = kw + 0 /\ Bit(k + 1, 0) = kw + Width + 0 /\ \A b : Bit(k, b) = kw + b
  BY <1>1 DEF Bit, kw
<1> QED  BY <1>1, <1>2, WidthAssumption

\* What byte_find_gap() finds in a byte from bit off on: a gap, or the zeros at its
\* end, or that it ends with a one.
FindsInByte(m, k, off, need, r) ==
  LET o    == Bit(k, 0)
      next == Bit(k + 1, 0)
  IN  /\ r.rc \in -2 .. Width
      /\ r.rc >= 0 => r.rc \in off .. Width - need
      /\ r.rc < 0 => \A g \in Nat : o + off <= g /\ g + need <= next => ~Gap(m, g, need)
      /\ r.rc = -1 => next - 1 \in m
      /\ r.rc = -2 =>
           /\ r.count \in 1 .. Width - off /\ r.count < need
           /\ \A g \in Nat : o + off <= g /\ g < next /\ Gap(m, g, next - g) => g >= next - r.count

\* The least gap of the byte, or the longest row of zeros at its end.
LEMMA ByteFinds ==
  ASSUME NEW m, NEW k \in Nat, NEW off \in 0 .. Width - 1, NEW need \in Nat
  PROVE  FindsInByte(m, k, off, need, byte_find_gap(m, k, off, need))
<1> DEFINE o == Bit(k, 0)
           next == Bit(k + 1, 0)
           r == byte_find_gap(m, k, off, need)
           Gaps  == {g \in off .. Width - need : Zeros(m, k, g, g + need - 1)}
           Tails == {g \in off .. Width - 1 : Zeros(m, k, g, Width - 1)}
<1>1. Width \in Nat /\ o \in Nat /\ next = o + Width /\ \A b \in Int : Bit(k, b) = o + b
  BY Bits, WidthAssumption
<1>2. r = IF Gaps # {}  THEN [rc |-> Least(Gaps), count |-> need] ELSE
          IF Tails # {} THEN [rc |-> -2, count |-> Width - Least(Tails)]
                        ELSE [rc |-> -1, count |-> 0]
  BY DEF byte_find_gap
<1> HIDE DEF r, o, next
<1>3. ASSUME NEW g \in Nat, NEW n \in Nat
      PROVE  Zeros(m, k, g, g + n - 1) <=> Gap(m, o + g, n)
  <2>1. ASSUME NEW b \in o + g .. o + g + n - 1
        PROVE  b - o \in g .. g + n - 1 /\ Bit(k, b - o) = b
    BY <1>1
  <2>2. ASSUME NEW b \in g .. g + n - 1
        PROVE  o + b \in o + g .. o + g + n - 1 /\ Bit(k, b) = o + b
    BY <1>1
  <2> QED  BY <2>1, <2>2 DEF Zeros, Gap
<1>4. Gaps # {} => r.rc = Least(Gaps) /\ Least(Gaps) \in Gaps
  <2>1. Gaps \subseteq Nat
    OBVIOUS
  <2> HIDE DEF Gaps, Tails
  <2> QED  BY <1>2, <2>1, LeastIs
<1>5. ASSUME Gaps = {}, NEW g \in Nat, o + off <= g, g + need <= next PROVE ~Gap(m, g, need)
  <2>1. g - o \in off .. Width - need /\ g - o \in Nat /\ o + (g - o) = g
    BY <1>1, <1>5
  <2>2. ~Zeros(m, k, g - o, (g - o) + need - 1)
    BY <1>5, <2>1
  <2> QED  BY <1>3, <2>1, <2>2
<1>6. ASSUME NEW g \in off .. Width - 1
      PROVE  g \in Tails <=> Gap(m, o + g, Width - g)
  <2>1. g \in Nat /\ Width - g \in Nat /\ g + (Width - g) - 1 = Width - 1
    BY <1>1
  <2> QED  BY <1>3, <2>1
<1>7. ASSUME Tails = {} PROVE next - 1 \in m
  <2>1. Width - 1 \in off .. Width - 1
    BY <1>1
  <2>2. ~Gap(m, o + (Width - 1), Width - (Width - 1))
    BY <1>6, <1>7, <2>1
  <2>3. \A b \in o + (Width - 1) .. o + (Width - 1) + (Width - (Width - 1)) - 1 : b = next - 1
    BY <1>1
  <2> QED  BY <2>2, <2>3 DEF Gap
<1> DEFINE t == Least(Tails)
<1>8. ASSUME Gaps = {}, Tails # {}
      PROVE  /\ t \in off .. Width - 1 /\ Width - t < need
             /\ \A g \in Nat : o + off <= g /\ g < next /\ Gap(m, g, next - g) => g >= o + t
  <2>1. Tails \subseteq Nat
    OBVIOUS
  <2>2. t \in Tails /\ \A g \in Tails : t <= g
    <3> HIDE DEF Tails
    <3> QED  BY <1>8, <2>1, LeastIs
  <2>3. t \in off .. Width - 1 /\ Gap(m, o + t, Width - t)
    BY <1>6, <2>2
  <2> HIDE DEF t
  <2>4. ASSUME ~(Width - t < need) PROVE FALSE
    <3>1. o + t \in Nat /\ o + off <= o + t /\ (o + t) + need <= next
      BY <1>1, <2>3, <2>4
    <3>2. ~Gap(m, o + t, need)
      BY <1>5, <1>8, <3>1
    <3>3. \A b \in o + t .. o + t + need - 1 : b \in o + t .. o + t + (Width - t) - 1
      BY <1>1, <2>3, <2>4
    <3> QED  BY <2>3, <3>2, <3>3 DEF Gap
  <2>5. ASSUME NEW g \in Nat, o + off <= g, g < next, Gap(m, g, next - g) PROVE g >= o + t
    <3>1. g - o \in off .. Width - 1 /\ o + (g - o) = g /\ Width - (g - o) = next - g
      BY <1>1, <2>5
    <3>2. g - o \in Tails
      BY <1>6, <2>5, <3>1
    <3>3. t <= g - o
      BY <2>2, <3>2
    <3> QED  BY <1>1, <2>3, <3>1, <3>3
  <2> QED  BY <2>3, <2>4, <2>5
<1>9. CASE Gaps # {}
  <2>1. r.rc \in off .. Width - need
    BY <1>4, <1>9
  <2> HIDE DEF Gaps, Tails
  <2> QED  BY <1>1, <2>1 DEF FindsInByte, r
<1>10. CASE Gaps = {} /\ Tails # {}
  <2>1. r = [rc |-> -2, count |-> Width - t]
    BY <1>2, <1>10
  <2>2. t \in off .. Width - 1 /\ Width - t < need
        /\ \A g \in Nat : o + off <= g /\ g < next /\ Gap(m, g, next - g) => g >= o + t
    BY <1>8, <1>10
  <2> HIDE DEF t, Gaps, Tails
  <2>3. r.rc = -2 /\ r.count = Width - t /\ r.count \in 1 .. Width - off /\ next - r.count = o + t
    BY <1>1, <2>1, <2>2
  <2>4. \A g \in Nat : o + off <= g /\ g + need <= next => ~Gap(m, g, need)
    BY <1>5, <1>10
  <2> QED  BY <1>1, <2>2, <2>3, <2>4 DEF FindsInByte, r, o, next
<1>11. CASE Gaps = {} /\ Tails = {}
  <2>1. r.rc = -1
    BY <1>2, <1>11
  <2>2. \A g \in Nat : o + off <= g /\ g + need <= next => ~Gap(m, g, need)
    BY <1>5, <1>11
  <2>3. next - 1 \in m
    BY <1>7, <1>11
  <2> HIDE DEF Gaps, Tails
  <2> QED  BY <1>1, <2>1, <2>2, <2>3 DEF FindsInByte, r, o, next
<1> QED  BY <1>9, <1>10, <1>11

\* What FindFrom computes at s from what it computes elsewhere, f.
FoundIn(m, s) == byte_find_gap(m, s.k, s.off, s.need)
RestOf(s) == Rest(s.off, s.left)
After(m, s) ==
  SearchAt(s.k + 1, 0, RestOf(s), s.need - FoundIn(m, s).count,
           IF s.found = NoGap THEN TailOf(s.k, FoundIn(m, s).count) ELSE s.found)
Anew(s, size) == SearchAt(s.k + 1, 0, RestOf(s), size, NoGap)

FindBody(m, total_bits, size, f, s) ==
  IF s.k >= BytesOf(total_bits) THEN Result(m, Overrun, 0) ELSE
  IF FoundIn(m, s).rc >= 0
    THEN Result(m, 0, IF s.found = NoGap THEN Bit(s.k, FoundIn(m, s).rc) ELSE s.found) ELSE
  IF FoundIn(m, s).rc = -2 THEN f[After(m, s)] ELSE
  IF size > RestOf(s) THEN Result(m, -1, 0) ELSE f[Anew(s, size)]

\* What a search is, and where it goes on in the next byte.
LEMMA SearchGoesOn ==
  ASSUME NEW m, NEW size \in Nat, NEW s \in Searching
  PROVE  /\ s.k \in Nat /\ s.off \in 0 .. Width - 1 /\ s.left \in Nat /\ s.need \in Nat
         /\ s.found \in Int
         /\ FindsInByte(m, s.k, s.off, s.need, FoundIn(m, s))
         /\ FoundIn(m, s).rc \in Int
         /\ RestOf(s) \in Nat
         /\ Bit(s.k, s.off) + s.left <= Bit(s.k + 1, 0) + RestOf(s)
         /\ FoundIn(m, s).rc = -2 => After(m, s) \in Searching
         /\ Anew(s, size) \in Searching
         /\ After(m, s).k = s.k + 1 /\ Anew(s, size).k = s.k + 1
<1>1. /\ s.k \in Nat /\ s.off \in 0 .. Width - 1 /\ s.left \in Nat /\ s.need \in Nat
      /\ s.found \in Int /\ Width \in Nat /\ Width > 1
  BY WidthAssumption DEF Searching
<1>2. FindsInByte(m, s.k, s.off, s.need, FoundIn(m, s))
  BY <1>1, ByteFinds DEF FoundIn
<1>3. RestOf(s) = (IF Width - s.off > s.left THEN 0 ELSE s.left - (Width - s.off))
  BY DEF RestOf, Rest
<1>4. RestOf(s) \in Nat
  BY <1>1, <1>3
<1>5. Bit(s.k, s.off) = Bit(s.k, 0) + s.off /\ Bit(s.k + 1, 0) = Bit(s.k, 0) + Width
      /\ Bit(s.k, 0) \in Nat
  <2>1. s.off \in Int
    BY <1>1
  <2> QED  BY <1>1, <2>1, Bits
<1>6. Bit(s.k, s.off) + s.left <= Bit(s.k + 1, 0) + RestOf(s)
  BY <1>1, <1>3, <1>5
<1>7. FoundIn(m, s).rc = -2 =>
        s.need - FoundIn(m, s).count \in Nat /\ TailOf(s.k, FoundIn(m, s).count) \in Int
  <2> HIDE DEF FoundIn
  <2>1. FoundIn(m, s).rc = -2 =>
          FoundIn(m, s).count \in 1 .. Width - s.off /\ FoundIn(m, s).count < s.need
    BY <1>2 DEF FindsInByte
  <2> QED  BY <1>1, <1>5, <2>1 DEF TailOf
<1>8. s.k + 1 \in Nat /\ 0 \in 0 .. Width - 1 /\ NoGap \in Int
  BY <1>1 DEF NoGap
<1>9. FoundIn(m, s).rc \in Int
  BY <1>1, <1>2 DEF FindsInByte
<1> QED
  BY <1>1, <1>2, <1>4, <1>6, <1>7, <1>8, <1>9 DEF After, Anew, SearchAt, Searching

\* FindFrom is defined: it computes what its body says.
LEMMA FindIsBody ==
  ASSUME NEW m, NEW total_bits \in Nat, NEW size \in Nat
  PROVE  LET f == FindFrom(m, total_bits, size)
         IN  f = [s \in Searching |-> FindBody(m, total_bits, size, f, s)]
<1> DEFINE S == Searching
           R == [bm : {m}, rc : {Overrun, -1, 0}, out : Int]
           F == [g \in [S -> R] |-> [s \in S |-> FindBody(m, total_bits, size, g, s)]]
           B == BytesOf(total_bits)
           mu == [s \in S |-> IF s.k < B THEN B - s.k ELSE 0]
<1>1. B \in Nat
  <2>1. total_bits + Width - 1 \in Nat
    BY WidthAssumption
  <2> QED  BY <2>1, DivMod DEF BytesOf
<1>2. \A rc \in {Overrun, -1, 0}, out \in Int : Result(m, rc, out) \in R
  BY DEF Result
<1>3. ASSUME NEW s \in S
      PROVE  /\ s.k \in Nat /\ FoundIn(m, s).rc \in Int /\ s.found \in Int
             /\ FoundIn(m, s).rc = -2 => After(m, s) \in S
             /\ Anew(s, size) \in S
             /\ After(m, s).k = s.k + 1 /\ Anew(s, size).k = s.k + 1
             /\ Bit(s.k, FoundIn(m, s).rc) \in Int
  <2>1. s.k * Width \in Nat
    BY <1>3, SearchGoesOn, WidthAssumption
  <2> QED  BY <2>1, SearchGoesOn DEF Bit
<1> HIDE DEF S, R, B
<1>4. ASSUME NEW g \in [S -> R], NEW s \in S PROVE FindBody(m, total_bits, size, g, s) \in R
  <2>1. /\ Result(m, Overrun, 0) \in R
        /\ Result(m, -1, 0) \in R
        /\ Result(m, 0, IF s.found = NoGap THEN Bit(s.k, FoundIn(m, s).rc) ELSE s.found) \in R
    BY <1>2, <1>3
  <2>2. (FoundIn(m, s).rc = -2 => g[After(m, s)] \in R) /\ g[Anew(s, size)] \in R
    BY <1>3
  <2> QED  BY <2>1, <2>2 DEF FindBody
<1>5. F \in [[S -> R] -> [S -> R]]
  BY <1>4
<1>6. R # {}
  BY <1>2
<1>7. mu \in [S -> Nat] /\ \A s \in S : mu[s] < B + 1
  BY <1>1, <1>3
<1>8. ASSUME NEW g \in [S -> R], NEW h \in [S -> R], NEW s \in S,
             \A t \in S : mu[t] < mu[s] => g[t] = h[t]
      PROVE  F[g][s] = F[h][s]
  <2>1. F[g][s] = FindBody(m, total_bits, size, g, s)
        /\ F[h][s] = FindBody(m, total_bits, size, h, s)
    OBVIOUS
  <2>2. ASSUME NEW t \in S, t.k = s.k + 1, ~(s.k >= B) PROVE g[t] = h[t]
    <3>1. s.k \in Nat /\ mu[t] < mu[s]
      BY <1>1, <1>3, <2>2
    <3> QED  BY <1>8, <3>1
  <2> HIDE DEF F, mu
  <2>3. FindBody(m, total_bits, size, g, s) = FindBody(m, total_bits, size, h, s)
    BY <1>3, <2>2 DEF FindBody, B
  <2> QED  BY <2>1, <2>3
<1> HIDE DEF mu
<1>9. \E g \in [S -> R] : g = F[g]
  <2> HIDE DEF F
  <2>1. LooksBelow(F, S, R, mu)
    BY <1>5, <1>8 DEF LooksBelow
  <2>2. Measures(mu, S, B + 1)
    BY <1>1, <1>7 DEF Measures
  <2> QED  BY <1>6, <2>1, <2>2, FixedPoint
<1>10. \E g : g = [s \in S |-> FindBody(m, total_bits, size, g, s)]
  BY <1>9
<1>11. FindFrom(m, total_bits, size) =
         CHOOSE g : g = [s \in S |-> FindBody(m, total_bits, size, g, s)]
  BY DEF FindFrom, FindBody, FoundIn, RestOf, After, Anew, S
<1> QED  BY <1>10, <1>11 DEF S

\* A search that answers -1 has missed no gap: neither one that begins and ends in
\* what it was to search, nor the rest of one that began before the byte.
Missed(m, s, size) ==
  \/ \E g \in Nat : /\ Bit(s.k, s.off) <= g /\ g + size <= Bit(s.k, s.off) + s.left
                    /\ Gap(m, g, size)
  \/ s.off = 0 /\ Gap(m, Bit(s.k, 0), s.need)

\* A gap, or the rest of one, that the byte does not hold whole is one that the
\* search of the next byte would miss.
LEMMA MissedLater ==
  ASSUME NEW m, NEW size \in Nat \ {0}, NEW s \in Searching,
         s.need > 0, s.need <= size, Missed(m, s, size), ~(FoundIn(m, s).rc >= 0)
  PROVE  /\ FoundIn(m, s).rc = -2 => Missed(m, After(m, s), size)
         /\ FoundIn(m, s).rc # -2 =>
              /\ ~(size > RestOf(s))
              /\ Missed(m, Anew(s, size), size)
<1> DEFINE o == Bit(s.k, 0)
           next == Bit(s.k + 1, 0)
           rest == RestOf(s)
           off == s.off
           left == s.left
           need == s.need
           rc == FoundIn(m, s).rc
           c == FoundIn(m, s).count
<1>1. /\ s.k \in Nat /\ off \in 0 .. Width - 1 /\ left \in Nat /\ need \in Nat /\ need > 0
      /\ need <= size /\ rest \in Nat /\ rc \in Int /\ Width \in Nat /\ Width > 1
      /\ Bit(s.k, off) + left <= next + rest
  BY SearchGoesOn, WidthAssumption
<1>2. o \in Nat /\ next = o + Width /\ Bit(s.k, off) = o + off
  <2>1. off \in Int
    BY <1>1
  <2> QED  BY <1>1, <2>1, Bits
<1>3. /\ rc \in -2 .. Width
      /\ \A g \in Nat : o + off <= g /\ g + need <= next => ~Gap(m, g, need)
      /\ rc = -1 => next - 1 \in m
      /\ rc = -2 =>
           /\ c \in 1 .. Width - off /\ c < need
           /\ \A g \in Nat : o + off <= g /\ g < next /\ Gap(m, g, next - g) => g >= next - c
  <2>1. FindsInByte(m, s.k, off, need, FoundIn(m, s))
    BY SearchGoesOn
  <2>2. rc < 0
    BY <1>1
  <2> QED  BY <2>1, <2>2 DEF FindsInByte
<1>4. /\ Bit(After(m, s).k, After(m, s).off) = next /\ After(m, s).off = 0
      /\ Bit(After(m, s).k, 0) = next /\ After(m, s).left = rest /\ After(m, s).need = need - c
      /\ Bit(Anew(s, size).k, Anew(s, size).off) = next /\ Anew(s, size).off = 0
      /\ Bit(Anew(s, size).k, 0) = next /\ Anew(s, size).left = rest /\ Anew(s, size).need = size
  BY DEF After, Anew, SearchAt
<1>5. Bit(s.k, s.off) = o + off
  BY <1>2
<1>6. Missed(m, s, size) <=>
        \/ \E g \in Nat : o + off <= g /\ g + size <= o + off + left /\ Gap(m, g, size)
        \/ off = 0 /\ Gap(m, o, need)
  BY <1>5 DEF Missed
<1>7. rc = -2 =>
        (Missed(m, After(m, s), size) <=>
           \/ \E g \in Nat : next <= g /\ g + size <= next + rest /\ Gap(m, g, size)
           \/ Gap(m, next, need - c))
  BY <1>4 DEF Missed
<1>8. Missed(m, Anew(s, size), size) <=>
           \/ \E g \in Nat : next <= g /\ g + size <= next + rest /\ Gap(m, g, size)
           \/ Gap(m, next, size)
  BY <1>4 DEF Missed
<1> HIDE DEF o, next, rest, off, left, need, rc, c
<1>9. rc = -2 \/ rc = -1
  BY <1>1, <1>3 DEF rc
<1>10. ASSUME NEW g \in Nat, o + off <= g, g + size <= o + off + left, Gap(m, g, size)
       PROVE  /\ rc = -2 => Missed(m, After(m, s), size)
              /\ rc = -1 => ~(size > rest) /\ Missed(m, Anew(s, size), size)
  <2>1. g + size <= next + rest
    BY <1>1, <1>2, <1>10, <1>5
  <2>2. CASE next <= g
    <3>1. ~(size > rest)
      BY <1>1, <1>2, <2>1, <2>2
    <3> QED  BY <1>7, <1>8, <1>10, <2>1, <2>2, <3>1
  <2>3. CASE g < next
    <3>1. ~(g + size <= next)
      <4>1. ASSUME g + size <= next PROVE FALSE
        <5>1. g + need <= next /\ \A b \in g .. g + need - 1 : b \in g .. g + size - 1
          BY <1>1, <1>2, <4>1
        <5>2. Gap(m, g, need)
          BY <1>10, <5>1 DEF Gap
        <5> QED  BY <1>3, <1>10, <5>1, <5>2
      <4> QED  BY <4>1
    <3>2. next - 1 \notin m /\ Gap(m, g, next - g)
      BY <1>1, <1>2, <1>10, <2>3, <3>1 DEF Gap
    <3>3. rc = -2
      BY <1>3, <1>9, <3>2
    <3>4. g >= next - c /\ c \in Nat /\ c < need
      BY <1>1, <1>3, <1>10, <2>3, <3>2, <3>3
    <3>5. Gap(m, next, need - c)
      <4>1. ASSUME NEW b \in next .. next + (need - c) - 1 PROVE b \in g .. g + size - 1
        BY <1>1, <1>2, <1>10, <2>3, <3>4
      <4> QED  BY <1>10, <4>1 DEF Gap
    <3> QED  BY <1>7, <3>3, <3>5
  <2> QED  BY <1>1, <1>2, <2>2, <2>3
<1>11. ASSUME off = 0, Gap(m, o, need)
       PROVE  rc = -2 /\ Missed(m, After(m, s), size)
  <2>1. o + off = o /\ ~(o + need <= next)
    BY <1>1, <1>2, <1>3, <1>11
  <2>2. next - 1 \notin m /\ Gap(m, o, next - o)
    BY <1>1, <1>2, <1>11, <2>1 DEF Gap
  <2>3. rc = -2
    BY <1>3, <1>9, <2>2
  <2>4. o >= next - c /\ c \in 1 .. Width - 0 /\ c < need
    BY <1>1, <1>2, <1>3, <1>11, <2>1, <2>2, <2>3
  <2>5. Gap(m, next, need - c)
    BY <1>1, <1>2, <1>11, <2>4 DEF Gap
  <2> QED  BY <1>7, <2>3, <2>5
<1>12. Missed(m, s, size)
  OBVIOUS
<1>13. /\ rc = -2 => Missed(m, After(m, s), size)
       /\ rc = -1 => ~(size > rest) /\ Missed(m, Anew(s, size), size)
  BY <1>6, <1>10, <1>11, <1>12
<1> QED  BY <1>9, <1>13 DEF rc, rest

\* The search from s misses nothing, whatever it answers is one of its answers, and
\* what it found lies in the map.
Searched(m, total_bits, size, s, r) ==
  /\ r.rc \in {Overrun, -1, 0} /\ r.out \in 0 .. BytesOf(total_bits) * Width
  /\ r.rc = -1 => ~Missed(m, s, size)

Asked(total_bits, size, s) ==
  /\ s.need > 0 /\ s.need <= size
  /\ s.found = NoGap \/ s.found \in 0 .. BytesOf(total_bits) * Width

\* By induction on the bytes that are left of the map.
LEMMA SearchMissesNone ==
  ASSUME NEW m, NEW total_bits \in Nat, NEW size \in Nat \ {0}, NEW s \in Searching,
         Asked(total_bits, size, s)
  PROVE  Searched(m, total_bits, size, s, FindFrom(m, total_bits, size)[s])
<1> DEFINE f == FindFrom(m, total_bits, size)
           B == BytesOf(total_bits)
           D == {d \in Nat : \A t \in Searching :
                   Asked(total_bits, size, t) /\ B - t.k <= d
                     => Searched(m, total_bits, size, t, f[t])}
<1>1. B \in Nat /\ B * Width \in Nat
  <2>1. total_bits + Width - 1 \in Nat
    BY WidthAssumption
  <2>2. B \in Nat
    BY <2>1, DivMod DEF BytesOf
  <2> QED  BY <2>2, WidthAssumption
<1>2. ASSUME NEW t \in Searching PROVE f[t] = FindBody(m, total_bits, size, f, t)
  <2> HIDE DEF f
  <2>1. f = [u \in Searching |-> FindBody(m, total_bits, size, f, u)]
    BY FindIsBody DEF f
  <2> QED  BY <2>1
<1>3. ASSUME NEW t \in Searching, t.k >= B
      PROVE  Searched(m, total_bits, size, t, f[t])
  <2>1. f[t] = Result(m, Overrun, 0)
    BY <1>2, <1>3 DEF FindBody
  <2> HIDE DEF f
  <2> QED  BY <1>1, <2>1 DEF Searched, Result, Overrun
<1>4. 0 \in D
  <2>1. \A t \in Searching : t.k \in Nat
    BY SearchGoesOn, <1>1
  <2>2. \A t \in Searching : B - t.k <= 0 => t.k >= B
    BY <1>1, <2>1
  <2> HIDE DEF f, B
  <2> QED  BY <1>3, <2>2
<1>5. ASSUME NEW d \in Nat, d \in D
      PROVE  d + 1 \in D
  <2> SUFFICES ASSUME NEW t \in Searching, Asked(total_bits, size, t), B - t.k <= d + 1, ~(t.k >= B)
               PROVE  Searched(m, total_bits, size, t, f[t])
    BY <1>3
  <2>1. f[t] = FindBody(m, total_bits, size, f, t)
    BY <1>2
  <2>2. \A u \in Searching : Asked(total_bits, size, u) /\ B - u.k <= d
                     => Searched(m, total_bits, size, u, f[u])
    BY <1>5
  <2> HIDE DEF f, D
  <2>3. /\ t.k \in Nat /\ t.off \in 0 .. Width - 1 /\ t.need \in Nat /\ t.need > 0 /\ t.need <= size
        /\ t.found = NoGap \/ t.found \in 0 .. B * Width
        /\ FindsInByte(m, t.k, t.off, t.need, FoundIn(m, t))
        /\ FoundIn(m, t).rc = -2 => After(m, t) \in Searching
        /\ Anew(t, size) \in Searching
        /\ After(m, t).k = t.k + 1 /\ Anew(t, size).k = t.k + 1
        /\ FoundIn(m, t).rc \in Int
    BY SearchGoesOn DEF Asked
  <2>4. /\ Bit(t.k, 0) \in Nat /\ Bit(t.k + 1, 0) = Bit(t.k, 0) + Width
        /\ \A b \in Int : Bit(t.k, b) = Bit(t.k, 0) + b
        /\ Bit(t.k, 0) + Width <= B * Width
    <3>1. B - (t.k + 1) \in Nat /\ t.k + 1 \in Nat
      BY <1>1, <2>3
    <3>2. ((t.k + 1) + (B - (t.k + 1))) * Width = (t.k + 1) * Width + (B - (t.k + 1)) * Width
          /\ (B - (t.k + 1)) * Width \in Nat /\ (t.k + 1) * Width \in Nat
      BY <3>1, Distributes, WidthAssumption
    <3>3. (t.k + 1) + (B - (t.k + 1)) = B
      BY <1>1, <2>3
    <3>4. Bit(t.k + 1, 0) = (t.k + 1) * Width
      BY <3>2 DEF Bit
    <3>5. Bit(t.k + 1, 0) <= B * Width
      BY <3>2, <3>3, <3>4
    <3> QED  BY <2>3, <3>5, Bits
  <2>5. CASE FoundIn(m, t).rc >= 0
    <3> DEFINE out == IF t.found = NoGap THEN Bit(t.k, FoundIn(m, t).rc) ELSE t.found
    <3>1. f[t] = Result(m, 0, out)
      BY <2>1, <2>5 DEF FindBody, B
    <3>2. FoundIn(m, t).rc \in t.off .. Width - t.need
      BY <2>3, <2>5 DEF FindsInByte
    <3>3. Bit(t.k, FoundIn(m, t).rc) \in 0 .. B * Width
      <4>1. Bit(t.k, FoundIn(m, t).rc) = Bit(t.k, 0) + FoundIn(m, t).rc
        BY <2>3, <2>4
      <4> QED  BY <1>1, <2>3, <2>4, <3>2, <4>1, WidthAssumption
    <3>4. out \in 0 .. B * Width
      BY <2>3, <3>3
    <3> HIDE DEF out
    <3> QED  BY <3>1, <3>4 DEF Searched, Result, B
  <2>6. CASE ~(FoundIn(m, t).rc >= 0) /\ FoundIn(m, t).rc = -2
    <3>1. f[t] = f[After(m, t)]
      BY <2>1, <2>6 DEF FindBody, B
    <3>2. FoundIn(m, t).count \in 1 .. Width - t.off /\ FoundIn(m, t).count < t.need
      BY <2>3, <2>6 DEF FindsInByte
    <3>3. After(m, t).need = t.need - FoundIn(m, t).count
          /\ After(m, t).found = IF t.found = NoGap THEN Bit(t.k + 1, 0) - FoundIn(m, t).count
                                                    ELSE t.found
      BY DEF After, SearchAt, TailOf
    <3>4. After(m, t).need > 0 /\ After(m, t).need <= size
      BY <2>3, <3>2, <3>3
    <3>5. Bit(t.k + 1, 0) - FoundIn(m, t).count \in 0 .. B * Width
      BY <1>1, <2>3, <2>4, <3>2, WidthAssumption
    <3>6. Asked(total_bits, size, After(m, t))
      BY <2>3, <3>3, <3>4, <3>5 DEF Asked, B
    <3>7. B - After(m, t).k <= d
      BY <1>1, <2>3
    <3>8. Searched(m, total_bits, size, After(m, t), f[t])
      BY <2>2, <2>3, <2>6, <3>1, <3>6, <3>7
    <3>9. Missed(m, t, size) => Missed(m, After(m, t), size)
      BY <2>3, <2>6, MissedLater
    <3> QED  BY <3>8, <3>9 DEF Searched
  <2>7. CASE ~(FoundIn(m, t).rc >= 0) /\ FoundIn(m, t).rc # -2
    <3>1. Missed(m, t, size) => ~(size > RestOf(t)) /\ Missed(m, Anew(t, size), size)
      BY <2>3, <2>7, MissedLater
    <3>2. CASE size > RestOf(t)
      <4>1. f[t] = Result(m, -1, 0)
        BY <2>1, <2>7, <3>2 DEF FindBody, B
      <4> QED  BY <1>1, <3>1, <3>2, <4>1 DEF Searched, Result, B
    <3>3. CASE ~(size > RestOf(t))
      <4>1. f[t] = f[Anew(t, size)]
        BY <2>1, <2>7, <3>3 DEF FindBody, B
      <4>2. Anew(t, size).need = size /\ Anew(t, size).found = NoGap
        BY DEF Anew, SearchAt
      <4>3. Asked(total_bits, size, Anew(t, size))
        BY <4>2 DEF Asked
      <4>4. B - Anew(t, size).k <= d
        BY <1>1, <2>3
      <4>5. Searched(m, total_bits, size, Anew(t, size), f[t])
        BY <2>2, <2>3, <4>1, <4>3, <4>4
      <4> QED  BY <3>1, <4>5 DEF Searched
    <3> QED  BY <3>2, <3>3
  <2> QED  BY <2>5, <2>6, <2>7
<1>6. s.k \in Nat
  BY SearchGoesOn
<1>7. B \in D
  <2> HIDE DEF D
  <2> QED  BY <1>1, <1>4, <1>5, Induction
<1>8. B - s.k <= B
  BY <1>1, <1>6
<1> HIDE DEF f, B
<1> QED  BY <1>7, <1>8 DEF f

\* bm_find() answers -1 only if the range holds no gap of that size, and answers a
\* bit of the map.
LEMMA FindDoes ==
  ASSUME NEW m, NEW total_bits \in Nat, NEW a \in Nat, NEW count \in Nat, NEW size \in Nat
  PROVE  LET r == bm_find(m, total_bits, a, count, size)
         IN  /\ r.rc \in {Overrun, -1, 0} /\ r.out \in 0 .. BytesOf(total_bits) * Width
             /\ r.rc = -1 /\ size > 0 =>
                  ~\E g \in a .. Lower(a + count, total_bits) - size : Gap(m, g, size)
<1> DEFINE r == bm_find(m, total_bits, a, count, size)
           left == Lower(count, total_bits - a)
           s == SearchAt(a \div Width, a % Width, left, size, NoGap)
           end == Lower(a + count, total_bits)
<1>1. end = (IF a + count < total_bits THEN a + count ELSE total_bits)
      /\ left = (IF count < total_bits - a THEN count ELSE total_bits - a)
  BY DEF Lower
<1>2. BytesOf(total_bits) * Width \in Nat
  <2>1. total_bits + Width - 1 \in Nat
    BY WidthAssumption
  <2>2. BytesOf(total_bits) \in Nat
    BY <2>1, DivMod DEF BytesOf
  <2> QED  BY <2>2, WidthAssumption
<1>3. CASE a >= total_bits \/ size = 0 \/ count = 0 \/ size > count
  <2>1. r = Result(m, -1, 0)
    BY <1>3 DEF bm_find
  <2> HIDE DEF end, r
  <2>2. size > 0 => \A g \in a .. end - size : FALSE
    BY <1>1, <1>3
  <2> QED  BY <1>2, <2>1, <2>2 DEF Result, end, r
<1>4. CASE ~(a >= total_bits \/ size = 0 \/ count = 0 \/ size > count)
  <2>1. r = FindFrom(m, total_bits, size)[s]
    BY <1>4 DEF bm_find
  <2>2. a \div Width \in Nat /\ a % Width \in 0 .. Width - 1
        /\ a = (a \div Width) * Width + (a % Width)
    BY DivMod
  <2>3. left \in Nat /\ end = a + left
    BY <1>1, <1>4
  <2>4. s \in Searching
    BY <2>2, <2>3 DEF SearchAt, Searching, NoGap
  <2>5. s.need = size /\ s.found = NoGap /\ s.left = left /\ Bit(s.k, s.off) = a
    BY <2>2 DEF SearchAt, Bit
  <2> HIDE DEF s, r, left, end
  <2>6. Asked(total_bits, size, s)
    BY <1>4, <2>5 DEF Asked
  <2>7. Searched(m, total_bits, size, s, r)
    BY <1>4, <2>1, <2>4, <2>6, SearchMissesNone
  <2>8. ASSUME r.rc = -1, NEW g \in a .. end - size, Gap(m, g, size) PROVE FALSE
    <3>1. g \in Nat /\ a <= g /\ g + size <= a + left
      BY <2>3, <2>8
    <3>2. Missed(m, s, size)
      BY <2>5, <2>8, <3>1 DEF Missed
    <3> QED  BY <2>7, <2>8, <3>2 DEF Searched
  <2> QED  BY <2>7, <2>8 DEF Searched, r, end
<1> QED  BY <1>3, <1>4

=============================================================================
