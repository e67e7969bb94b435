----------------------------- MODULE BlocksProofs -----------------------------
(***************************************************************************)
(* For any index type and any range that fits in it, BS::blocks partitions   *)
(* the range.                                                                *)
(***************************************************************************)
EXTENDS Blocks, TLAPS

(* Integer division and remainder.                                           *)
LEMMA DivMod ==
  ASSUME NEW x \in Int, NEW m \in Nat \ {0}
  PROVE  /\ x \div m \in Int /\ x % m \in 0..(m - 1)
         /\ x = ((x \div m) * m) + (x % m)
         /\ x >= 0 => x \div m >= 0
         /\ x >= m => x \div m >= 1
BY Z3

(* Whole multiples of the modulus do not count.                              *)
LEMMA ModOfSmall ==
  ASSUME NEW m \in Nat \ {0}, NEW x \in 0..(m - 1), NEW k \in Int
  PROVE  (x + k * m) % m = x
BY Z3

(* A product is monotone in a factor.                                        *)
LEMMA TimesMonotone ==
  ASSUME NEW x \in Nat, NEW y \in Nat, NEW m \in Nat, x <= y
  PROVE  x * m <= y * m /\ x * m \in Nat /\ y * m \in Nat
BY Z3

(* Conversion to the index type: modulo its size, exact where it can be.     *)
LEMMA ConvFacts ==
  ASSUME NEW d, Legal(d)
  PROVE  /\ \A x \in Int : \E k \in Int : Conv(d, x) = x + k * (d.hi - d.lo + 1)
         /\ \A x \in d.lo..d.hi, k \in Int : Conv(d, x + k * (d.hi - d.lo + 1)) = x
<1> DEFINE m == d.hi - d.lo + 1
<1>1. m \in Nat \ {0} /\ d.lo \in Int /\ d.hi \in Int
  BY DEF Legal
<1>2. ASSUME NEW x \in Int PROVE \E k \in Int : Conv(d, x) = x + k * m
  <2> DEFINE z == x - d.lo  q == z \div m  e == z % m
  <2>1. z \in Int /\ x = d.lo + z
    BY <1>1
  <2>2. Conv(d, x) = d.lo + e
    BY DEF Conv
  <2> HIDE DEF z, m
  <2>3. q \in Int /\ z = (q * m) + e /\ e \in Int
    BY <2>1, <1>1, DivMod
  <2> HIDE DEF q, e
  <2>4. q * m \in Int /\ (-q) * m = -(q * m) /\ -q \in Int
    BY <2>3, <1>1
  <2>5. Conv(d, x) = x + (-q) * m
    BY <2>1, <2>2, <2>3, <2>4, <1>1
  <2> QED BY <2>4, <2>5
<1>3. ASSUME NEW x \in d.lo..d.hi, NEW k \in Int PROVE Conv(d, x + k * m) = x
  <2>1. x - d.lo \in 0..(m - 1)
    BY <1>1
  <2>2. ((x - d.lo) + k * m) % m = x - d.lo
    BY <2>1, <1>1, ModOfSmall
  <2> DEFINE km == k * m
  <2>3. km \in Int
    BY <1>1
  <2> HIDE DEF km
  <2>4. (x + km) - d.lo = (x - d.lo) + km
    BY <2>3, <1>1
  <2>5. Conv(d, x + km) = d.lo + (x - d.lo)
    BY <2>2, <2>4 DEF Conv, km
  <2> QED BY <2>5, <1>1 DEF km
<1> QED BY <1>2, <1>3

(* The three numbers the constructor computes for a range that is not empty. *)
LEMMA DivisionFacts ==
  ASSUME NEW d, Legal(d), d.after > d.first
  PROVE  /\ TotalSize(d) = d.after - d.first /\ TotalSize(d) \in Nat \ {0}
         /\ NumBlocks(d) \in 1..TotalSize(d) /\ NumBlocks(d) <= d.wanted
         /\ BlockSize(d) \in Nat \ {0}
         /\ Remainder(d) \in 0..(NumBlocks(d) - 1)
         /\ TotalSize(d) = NumBlocks(d) * BlockSize(d) + Remainder(d)
<1>1. TotalSize(d) = d.after - d.first /\ TotalSize(d) \in Nat \ {0}
  BY DEF TotalSize, Legal
<1>2. NumBlocks(d) \in 1..TotalSize(d) /\ NumBlocks(d) <= d.wanted
  BY <1>1 DEF NumBlocks, Smaller, Legal
<1> DEFINE t == TotalSize(d)  n == NumBlocks(d)
<1>3. t \in Int /\ n \in Nat \ {0} /\ t >= n
  BY <1>1, <1>2
<1>4. /\ t \div n \in Int /\ t % n \in 0..(n - 1)
      /\ t = ((t \div n) * n) + (t % n) /\ t \div n >= 1
  BY <1>3, DivMod
<1>5. (t \div n) * n = n * (t \div n)
  BY <1>3, <1>4
<1> QED BY <1>1, <1>2, <1>4, <1>5 DEF BlockSize, Remainder

(* The correction the constructor makes for blocks of size 0 is never made.  *)
THEOREM BlockSizePositive ==
  ASSUME NEW d, Legal(d), d.after > d.first
  PROVE  BlockSize(d) # 0
BY DivisionFacts

(* Where a block starts, with no conversion in the way.                      *)
Plain(d, b) == d.first + b * BlockSize(d) + Smaller(b, Remainder(d))

(* Computed without overflow, the blocks start at the first index, end       *)
(* after the last, and do not go back.                                       *)
LEMMA PlainFacts ==
  ASSUME NEW d, Legal(d), d.after > d.first
  PROVE  /\ \A b \in 0..NumBlocks(d) : Plain(d, b) \in d.first..d.after
         /\ Plain(d, 0) = d.first /\ Plain(d, NumBlocks(d)) = d.after
         /\ \A b \in 0..(NumBlocks(d) - 1) :
              Plain(d, b + 1) - Plain(d, b) = IF b < Remainder(d) THEN BlockSize(d) + 1 ELSE BlockSize(d)
         /\ \A b, c \in 0..NumBlocks(d) : b <= c => Plain(d, b) <= Plain(d, c)
<1> DEFINE n == NumBlocks(d)  s == BlockSize(d)  r == Remainder(d)
<1>1. /\ n \in Nat \ {0} /\ s \in Nat \ {0} /\ r \in 0..(n - 1)
      /\ d.after = d.first + n * s + r /\ d.first \in Int /\ d.after \in Int
  <2>1. d.first \in Int /\ d.after \in Int
    BY DEF Legal
  <2>2. n * s \in Nat
    BY DivisionFacts, TimesMonotone
  <2> QED BY <2>1, <2>2, DivisionFacts
<1> HIDE DEF n, s, r
<1>2. \A b \in 0..n : b * s \in Nat
  BY <1>1, TimesMonotone
<1>3. \A b, c \in 0..n : b <= c => b * s <= c * s
  BY <1>1, TimesMonotone
<1>4. \A b, c \in 0..n : b <= c => d.first + b * s + Smaller(b, r) <= d.first + c * s + Smaller(c, r)
  <2> SUFFICES ASSUME NEW b \in 0..n, NEW c \in 0..n, b <= c
               PROVE  d.first + b * s + Smaller(b, r) <= d.first + c * s + Smaller(c, r)
    OBVIOUS
  <2>1. Smaller(b, r) <= Smaller(c, r) /\ Smaller(b, r) \in Int /\ Smaller(c, r) \in Int
    BY <1>1 DEF Smaller
  <2>2. b * s <= c * s /\ b * s \in Int /\ c * s \in Int
    BY <1>2, <1>3
  <2> QED BY <2>1, <2>2, <1>1
<1>5. Plain(d, 0) = d.first /\ Plain(d, n) = d.after
  <2>1. 0 * s = 0 /\ Smaller(0, r) = 0 /\ Smaller(n, r) = r
    BY <1>1 DEF Smaller
  <2> QED BY <2>1, <1>1, <1>2 DEF Plain, n, s, r
<1>6. ASSUME NEW b \in 0..(n - 1)
      PROVE  Plain(d, b + 1) - Plain(d, b) = IF b < r THEN s + 1 ELSE s
  <2>1. (b + 1) * s = b * s + s
    BY <1>1
  <2>2. Smaller(b + 1, r) - Smaller(b, r) = IF b < r THEN 1 ELSE 0
    BY <1>1 DEF Smaller
  <2>3. b * s \in Nat /\ Smaller(b + 1, r) \in Int /\ Smaller(b, r) \in Int
    BY <1>1, <1>2 DEF Smaller
  <2>4. /\ Plain(d, b) = d.first + b * s + Smaller(b, r)
        /\ Plain(d, b + 1) = d.first + (b + 1) * s + Smaller(b + 1, r)
    BY DEF Plain, s, r
  <2>5. Plain(d, b + 1) = d.first + (b * s + s) + Smaller(b + 1, r)
    BY <2>1, <2>4
  <2> QED BY <2>2, <2>3, <2>4, <2>5, <1>1
<1>7. \A b, c \in 0..n : b <= c => Plain(d, b) <= Plain(d, c)
  BY <1>4 DEF Plain, s, r
<1>8. ASSUME NEW b \in 0..n PROVE Plain(d, b) \in d.first..d.after
  <2>1. Plain(d, b) \in Int
    <3>1. Smaller(b, r) \in Int
      BY <1>1 DEF Smaller
    <3> QED BY <3>1, <1>1, <1>2 DEF Plain, s, r
  <2>2. 0 \in 0..n /\ n \in 0..n /\ 0 <= b /\ b <= n
    BY <1>1
  <2> QED BY <2>1, <2>2, <1>1, <1>5, <1>7
<1> QED BY <1>5, <1>6, <1>7, <1>8 DEF n, s, r

(* No index type is too narrow: the conversions in start() lose nothing.     *)
LEMMA StartIsPlain ==
  ASSUME NEW d, Legal(d), d.after > d.first, NEW b \in 0..NumBlocks(d)
  PROVE  Start(d, b) = Plain(d, b)
<1> DEFINE m == d.hi - d.lo + 1  x == b * BlockSize(d)  y == Smaller(b, Remainder(d))
<1>1. /\ m \in Int /\ x \in Int /\ y \in Int /\ d.first \in Int
      /\ Plain(d, b) \in d.lo..d.hi /\ d.lo \in Int /\ d.hi \in Int
  <2>1. d.first \in d.lo..d.hi /\ d.after \in d.lo..d.hi /\ d.lo \in Int /\ d.hi \in Int
    BY DEF Legal
  <2>2. Plain(d, b) \in d.first..d.after
    BY PlainFacts
  <2>3. b \in Nat /\ BlockSize(d) \in Nat /\ Remainder(d) \in Int
    BY DivisionFacts
  <2>4. x \in Int /\ y \in Int
    BY <2>3, TimesMonotone DEF Smaller
  <2> QED BY <2>1, <2>2, <2>4
<1>2. PICK j \in Int : Conv(d, x) = x + j * m
  BY <1>1, ConvFacts
<1>3. PICK k \in Int : Conv(d, y) = y + k * m
  BY <1>1, ConvFacts
<1>4. Plain(d, b) = d.first + x + y
  BY DEF Plain
<1>5. Start(d, b) = Conv(d, d.first + (x + j * m) + (y + k * m))
  BY <1>2, <1>3 DEF Start
<1> HIDE DEF x, y, m
<1>6. d.first + (x + j * m) + (y + k * m) = (d.first + x + y) + (j + k) * m
  <2>1. (j + k) * m = j * m + k * m /\ j * m \in Int /\ k * m \in Int
    BY <1>1
  <2> QED BY <2>1, <1>1
<1>7. Conv(d, Plain(d, b) + (j + k) * m) = Plain(d, b)
  BY <1>1, ConvFacts, j + k \in Int DEF m
<1> QED BY <1>4, <1>5, <1>6, <1>7

(* The block of an index: the first Remainder blocks have one index more.    *)
LEMMA InSomeBlock ==
  ASSUME NEW d, Legal(d), d.after > d.first, NEW i \in d.first..(d.after - 1)
  PROVE  \E b \in 0..(NumBlocks(d) - 1) : Plain(d, b) <= i /\ i < Plain(d, b + 1)
<1> DEFINE n == NumBlocks(d)  s == BlockSize(d)  r == Remainder(d)  j == i - d.first
<1>1. /\ n \in Nat \ {0} /\ s \in Nat \ {0} /\ r \in 0..(n - 1)
      /\ d.first \in Int /\ j \in Nat /\ n * s \in Nat /\ j < n * s + r
      /\ i = d.first + j
  <2>1. d.first \in Int /\ d.after \in Int
    BY DEF Legal
  <2>2. n * s \in Nat
    BY DivisionFacts, TimesMonotone
  <2> QED BY <2>1, <2>2, DivisionFacts
<1>2. \A b : Plain(d, b) = d.first + b * s + Smaller(b, r)
  BY DEF Plain
<1> HIDE DEF n, s, r, j
<1>3. CASE j < r * (s + 1)
  <2> DEFINE b == j \div (s + 1)  e == j % (s + 1)
  <2>1. b \in Nat /\ e \in 0..s /\ j = (b * (s + 1)) + e
    <3>1. j \in Int /\ j >= 0 /\ s + 1 \in Nat \ {0} /\ (s + 1) - 1 = s
      BY <1>1
    <3>2. /\ b \in Int /\ e \in 0..((s + 1) - 1) /\ b >= 0
          /\ j = (b * (s + 1)) + e
      BY <3>1, DivMod
    <3> HIDE DEF b, e
    <3> QED BY <3>1, <3>2
  <2> HIDE DEF b, e
  <2>2. b < r
    <3> SUFFICES ASSUME r <= b PROVE FALSE
      BY <2>1, <1>1
    <3>1. r * (s + 1) <= b * (s + 1) /\ b * (s + 1) \in Nat /\ r * (s + 1) \in Nat
      BY <2>1, <1>1, TimesMonotone
    <3> QED BY <3>1, <2>1, <1>1, <1>3
  <2>3. b * (s + 1) = b * s + b /\ b * s \in Nat /\ (b + 1) * s = b * s + s
    BY <2>1, <1>1
  <2>4. Smaller(b, r) = b /\ Smaller(b + 1, r) = b + 1
    BY <2>1, <2>2, <1>1 DEF Smaller
  <2>5. Plain(d, b) = d.first + b * s + b /\ Plain(d, b + 1) = d.first + (b * s + s) + (b + 1)
    BY <1>2, <2>3, <2>4
  <2>6. b \in 0..(n - 1) /\ Plain(d, b) <= i /\ i < Plain(d, b + 1)
    BY <1>1, <2>1, <2>2, <2>3, <2>5
  <2> QED BY <2>6 DEF n
<1>4. CASE ~(j < r * (s + 1))
  <2>1. r * (s + 1) = r * s + r /\ r * s \in Nat
    BY <1>1
  <2> DEFINE z == j - r * (s + 1)  b == z \div s  e == z % s
  <2>2. z \in Nat /\ j = z + (r * s + r)
    BY <1>1, <1>4, <2>1
  <2> HIDE DEF z
  <2>3. b \in Nat /\ e \in 0..(s - 1) /\ z = (b * s) + e
    <3>1. z \in Int /\ z >= 0 /\ s \in Nat \ {0}
      BY <2>2, <1>1
    <3>2. b \in Int /\ e \in 0..(s - 1) /\ b >= 0 /\ z = (b * s) + e
      BY <3>1, DivMod
    <3> HIDE DEF b, e
    <3> QED BY <3>2
  <2> HIDE DEF b, e
  <2>4. (r + b) * s = r * s + b * s /\ (r + b + 1) * s = r * s + b * s + s /\ b * s \in Nat
    BY <2>3, <1>1
  <2>5. r + b < n
    <3> SUFFICES ASSUME n <= r + b PROVE FALSE
      BY <2>3, <1>1
    <3>1. n * s <= (r + b) * s
      BY <2>3, <1>1, TimesMonotone, r + b \in Nat
    <3> QED BY <3>1, <2>1, <2>2, <2>3, <2>4, <1>1
  <2>6. Smaller(r + b, r) = r /\ Smaller(r + b + 1, r) = r
    BY <2>3, <1>1 DEF Smaller
  <2>7. /\ Plain(d, r + b) = d.first + (r * s + b * s) + r
        /\ Plain(d, r + b + 1) = d.first + (r * s + b * s + s) + r
    BY <1>2, <2>4, <2>6
  <2>8. /\ r + b \in 0..(n - 1)
        /\ Plain(d, r + b) <= i /\ i < Plain(d, r + b + 1)
    BY <1>1, <2>1, <2>2, <2>3, <2>4, <2>5, <2>7
  <2> QED BY <2>8 DEF n
<1> QED BY <1>3, <1>4

(* BS::blocks partitions every range that fits in its index type, of any     *)
(* width and sign, into any number of blocks asked for.                      *)
THEOREM BlocksPartition ==
  ASSUME NEW d, Legal(d)
  PROVE  Partition(d)
<1>1. CASE ~(d.after > d.first)
  <2>1. TotalSize(d) = 0 /\ d.first \in Int /\ d.after \in Int /\ d.wanted \in Nat
    BY <1>1 DEF TotalSize, Legal
  <2>2. NumBlocks(d) = 0
    BY <2>1 DEF NumBlocks, Smaller, Legal
  <2>3. 0..(NumBlocks(d) - 1) = {} /\ d.first..(d.after - 1) = {}
    BY <2>1, <2>2, <1>1
  <2> QED BY <2>3 DEF Partition
<1>2. CASE d.after > d.first
  <2> DEFINE n == NumBlocks(d)  B == 0..(n - 1)
  <2>1. n \in Nat \ {0} /\ BlockSize(d) \in Nat \ {0} /\ d.first \in Int /\ d.after \in Int
    BY <1>2, DivisionFacts DEF Legal
  <2>2. ASSUME NEW b \in B
        PROVE  /\ Start(d, b) = Plain(d, b) /\ End(d, b) = Plain(d, b + 1)
               /\ Plain(d, b) \in d.first..d.after /\ Plain(d, b + 1) \in d.first..d.after
    <3>1. b \in 0..n /\ b + 1 \in 0..n /\ (b = n - 1 => b + 1 = n)
      BY <2>1
    <3>2. Start(d, b) = Plain(d, b) /\ Start(d, b + 1) = Plain(d, b + 1)
      BY <3>1, <1>2, StartIsPlain
    <3>3. Plain(d, n) = d.after
      BY <1>2, PlainFacts
    <3> HIDE DEF n
    <3>4. End(d, b) = Plain(d, b + 1)
      BY <3>1, <3>2, <3>3 DEF End, n
    <3> QED BY <3>1, <3>2, <3>4, <1>2, PlainFacts DEF n
  <2>3. \A b \in B : Plain(d, b + 1) - Plain(d, b) \in {BlockSize(d), BlockSize(d) + 1}
    BY <1>2, PlainFacts
  <2>4. ASSUME NEW i \in d.first..(d.after - 1)
        PROVE  \E b \in B : i \in BlockIndices(d, b)
    <3>1. PICK b \in B : Plain(d, b) <= i /\ i < Plain(d, b + 1)
      BY <1>2, InSomeBlock
    <3> HIDE DEF B, n
    <3>2. i \in Start(d, b)..(End(d, b) - 1)
      BY <3>1, <2>1, <2>2
    <3> QED BY <3>2 DEF BlockIndices
  <2>5. ASSUME NEW b \in B, NEW c \in B, b < c
        PROVE  Plain(d, b + 1) <= Plain(d, c)
    <3>1. b + 1 \in 0..n /\ c \in 0..n /\ b + 1 <= c
      BY <2>1, <2>5
    <3> QED BY <3>1, <1>2, PlainFacts
  <2> HIDE DEF B, n
  <2>6. ASSUME NEW b \in B
        PROVE  /\ End(d, b) - Start(d, b) \in {BlockSize(d), BlockSize(d) + 1}
               /\ Start(d, b) < End(d, b)
               /\ d.first <= Start(d, b) /\ End(d, b) <= d.after
    BY <2>1, <2>2, <2>3
  <2>7. \A b, c \in B : b < c => End(d, b) <= Start(d, c)
    BY <2>2, <2>5
  <2> QED BY <2>4, <2>6, <2>7 DEF Partition, B, n
<1> QED BY <1>1, <1>2

=============================================================================
