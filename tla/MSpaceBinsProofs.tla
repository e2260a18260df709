-------------------------- MODULE MSpaceBinsProofs ---------------------------
(***************************************************************************)
(* Chunks, bins and the limit of a pool, for every size of pool and every  *)
(* number of bins.                                                         *)
(*                                                                         *)
(* me_memory_pool_new limits a pool to its own size, and                   *)
(* mspace_set_footprint_limit rounds that up to the granularity, so that   *)
(* there is room below the limit, and the sums wrap around.  Nothing is    *)
(* mapped all the same (NothingIsMapped).                                  *)
(*                                                                         *)
(* Chunks and top tile the pool up to its end, whatever calls do between   *)
(* two words; a call replaces the chunks between two addresses by others   *)
(* (Retiled).  Bins hold the free chunks but for those that a call has in  *)
(* its hands (Heap).  Tries are ordered: a leftmost way down from a node   *)
(* passes the least size below it (LeftmostIsLeast).                       *)
(***************************************************************************)
EXTENDS MSpaceBins, NatRecursion, FiniteSetTheorems, SequenceTheorems

------------------------------------------------------------------------------
(* The limit of a pool.                                                     *)

Sizes == 0..MaxSizeT

\* A sum of two sizes wraps around once at most.
LEMMA AddWraps ==
  ASSUME NEW a \in Sizes, NEW b \in Sizes
  PROVE  /\ Add(a, b) \in Sizes
         /\ a + b < 2^SizeBits => Add(a, b) = a + b
         /\ a + b >= 2^SizeBits => Add(a, b) = a + b - 2^SizeBits
<1> DEFINE w == 2^SizeBits
<1>1. w \in Nat \ {0} /\ a \in 0..(w - 1) /\ b \in 0..(w - 1)
  BY LimitAssumption DEF Sizes, MaxSizeT
<1>2. ASSUME NEW n \in Nat \ {0}, NEW x \in 0..(n - 1), NEW y \in 0..(n - 1)
      PROVE  /\ (x + y) % n \in 0..(n - 1)
             /\ x + y < n => (x + y) % n = x + y
             /\ x + y >= n => (x + y) % n = x + y - n
  OBVIOUS
<1> HIDE DEF w
<1>3. /\ (a + b) % w \in 0..(w - 1)
      /\ a + b < w => (a + b) % w = a + b
      /\ a + b >= w => (a + b) % w = a + b - w
  BY <1>1, <1>2
<1> QED BY <1>3 DEF w, Add, Sizes, MaxSizeT

\* What is left after rounding down is less than a unit.
LEMMA RoundingGivesUnits ==
  ASSUME NEW unit \in Nat \ {0}, NEW size \in Nat
  PROVE  /\ RoundDownTo(unit, size) \in Nat
         /\ RoundDownTo(unit, size) <= size
         /\ size - unit < RoundDownTo(unit, size)
         /\ RoundDownTo(unit, size) # 0 => RoundDownTo(unit, size) >= unit
<1>1. size % unit \in 0..(unit - 1) /\ size \div unit \in Nat
  OBVIOUS
<1>2. size = (unit * (size \div unit)) + (size % unit)
  OBVIOUS
<1>3. ASSUME NEW q \in Nat, q # 0 PROVE unit * q >= unit
  BY <1>3
<1>4. size \div unit = 0 => RoundDownTo(unit, size) = 0
  BY <1>1, <1>2 DEF RoundDownTo
<1>5. RoundDownTo(unit, size) = unit * (size \div unit)
  BY <1>1, <1>2 DEF RoundDownTo
<1>6. size - (size % unit) \in Nat /\ size - (size % unit) <= size
      /\ size - unit < size - (size % unit)
  BY <1>1, <1>2
<1> QED BY <1>1, <1>3, <1>4, <1>5, <1>6 DEF RoundDownTo

\* Rounding up gives zero, which is a sum that wrapped around, or a unit at
\* least.
LEMMA AlignGivesUnits ==
  ASSUME NEW unit \in Nat \ {0}, unit <= 2^SizeBits, NEW size \in Sizes
  PROVE  /\ AlignTo(unit, size) \in Sizes
         /\ AlignTo(unit, size) # 0 => AlignTo(unit, size) >= unit
         /\ size + unit <= 2^SizeBits => AlignTo(unit, size) \in size..(size + unit - 1)
<1>1. unit - 1 \in Sizes
  BY LimitAssumption DEF Sizes, MaxSizeT
<1>2. Add(size, unit - 1) \in Sizes
  BY <1>1, AddWraps
<1>3. size + unit <= 2^SizeBits => Add(size, unit - 1) = size + (unit - 1)
  BY <1>1, AddWraps, LimitAssumption DEF Sizes, MaxSizeT
<1> DEFINE sum == Add(size, unit - 1)
<1>4. sum \in Nat /\ size \in Nat
  BY <1>2, LimitAssumption DEF Sizes, MaxSizeT
<1>5. /\ RoundDownTo(unit, sum) \in Nat
      /\ RoundDownTo(unit, sum) <= sum
      /\ sum - unit < RoundDownTo(unit, sum)
      /\ RoundDownTo(unit, sum) # 0 => RoundDownTo(unit, sum) >= unit
  BY <1>4, RoundingGivesUnits
<1>6. AlignTo(unit, size) = RoundDownTo(unit, sum)
  BY DEF AlignTo
<1> HIDE DEF sum
<1>7. AlignTo(unit, size) \in Sizes
  BY <1>2, <1>4, <1>5, <1>6, LimitAssumption DEF Sizes, MaxSizeT, sum
<1>8. ASSUME size + unit <= 2^SizeBits
      PROVE  AlignTo(unit, size) \in size..(size + unit - 1)
  <2>1. sum = size + (unit - 1)
    BY <1>3, <1>8 DEF sum
  <2>2. QED
    BY <1>4, <1>5, <1>6, <2>1
<1> QED BY <1>5, <1>6, <1>7, <1>8

\* A pool as me_memory_pool_new leaves it and as it stays.
Limited(s, capacity) ==
  /\ s.footprint = capacity
  /\ s.footprintLimit = AlignTo(Granularity, capacity)

\* A unit more than the pool is over the limit or wraps around, and a sum
\* that wraps around is less than the pool.
LEMMA NoUnitMore ==
  ASSUME NEW s, NEW capacity \in Nat \ {0},
         capacity + Granularity <= 2^SizeBits, Limited(s, capacity),
         NEW size \in Sizes, size >= Granularity
  PROVE  ~WithinLimit(s, size)
<1>1. capacity \in Sizes
  BY LimitAssumption DEF Sizes, MaxSizeT
<1>2. AlignTo(Granularity, capacity) \in capacity..(capacity + Granularity - 1)
  BY <1>1, AlignGivesUnits, LimitAssumption
<1>3. /\ capacity + size < 2^SizeBits => Add(capacity, size) = capacity + size
      /\ capacity + size >= 2^SizeBits =>
           Add(capacity, size) = capacity + size - 2^SizeBits
  BY <1>1, AddWraps
<1>4. ~(Add(capacity, size) > capacity
        /\ Add(capacity, size) <= AlignTo(Granularity, capacity))
  BY <1>1, <1>2, <1>3, LimitAssumption DEF Sizes, MaxSizeT
<1>5. AlignTo(Granularity, capacity) # 0
  BY <1>2, LimitAssumption
<1> QED BY <1>4, <1>5 DEF Limited, WithinLimit

\* A pool that is limited to its own size maps nothing more, neither a chunk
\* alone nor a segment, whatever is asked of it: sys_alloc answers NULL and
\* leaves the pool as it is.  It holds for every page size, granularity and
\* capacity, requests that wrap around included; mmap_alloc rounds to pages
\* only and needs the threshold to be no less than the granularity.
THEOREM NothingIsMapped ==
  ASSUME NEW s, NEW capacity \in Nat \ {0},
         capacity + Granularity <= 2^SizeBits, Limited(s, capacity),
         capacity >= SysAllocPadding + 6 + Alignment,
         NEW nb \in Sizes
  PROVE  SysAlloc(s, nb) = Refused(s)
<1>1. SysAllocPadding \in Sizes /\ 6 + Alignment \in Sizes
  <2>1. SysAllocPadding \in Nat
    <3>1. SegmentWords + Overhead + Alignment - 1 \in Nat
      BY LimitAssumption DEF Overhead, Alignment
    <3>2. PadRequest(SegmentWords) \in Nat
      BY <3>1 DEF PadRequest, Alignment
    <3>3. QED
      BY <3>2 DEF SysAllocPadding, TopFootSize, MinChunkSize, Alignment
  <2>2. QED
    BY <2>1, LimitAssumption DEF Sizes, MaxSizeT, Alignment
<1>2. PageWords <= 2^SizeBits
  <2>1. ASSUME NEW p \in Nat \ {0}, NEW g \in Nat \ {0}, g % p = 0
        PROVE  p <= g
    BY <2>1
  <2>2. PageWords <= Granularity
    BY <2>1, LimitAssumption
  <2>3. QED
    BY <2>2, LimitAssumption
<1>3. ASSUME nb >= MmapThreshold
      PROVE  MmapAlloc(s, nb) = Refused(s)
  <2> DEFINE mmsize == AlignTo(PageWords, Add(nb, 6 + Alignment))
  <2>1. mmsize \in Sizes
    BY <1>1, <1>2, AddWraps, AlignGivesUnits, LimitAssumption
  <2> HIDE DEF mmsize
  <2>2. mmsize > nb => mmsize >= Granularity
    BY <1>3, <2>1, LimitAssumption DEF Sizes, MaxSizeT
  <2>3. ~(WithinLimit(s, mmsize) /\ mmsize > nb)
    BY <2>1, <2>2, NoUnitMore
  <2>4. QED
    BY <2>3 DEF MmapAlloc, mmsize
<1>4. MapMore(s, nb, AlignTo(Granularity, Add(nb, SysAllocPadding)))
        = Refused(s)
  <2> DEFINE asize == AlignTo(Granularity, Add(nb, SysAllocPadding))
  <2>1. Granularity <= 2^SizeBits
    BY LimitAssumption
  <2>2. asize \in Sizes /\ (asize # 0 => asize >= Granularity)
    BY <1>1, <2>1, AddWraps, AlignGivesUnits, LimitAssumption
  <2> HIDE DEF asize
  <2>3. asize <= nb \/ ~WithinLimit(s, asize)
    BY <2>2, NoUnitMore, LimitAssumption DEF Sizes, MaxSizeT
  <2>4. MapMore(s, nb, asize) = Refused(s)
    BY <2>3 DEF MapMore
  <2>5. QED
    BY <2>4 DEF asize
<1>5. Refused(s).mem = NoBlock
  BY DEF Refused
<1> QED BY <1>3, <1>4, <1>5 DEF SysAlloc, OrElse

------------------------------------------------------------------------------
(* Powers of two and the indices of tries.                                  *)

\* Powers of two are numbers, up to that of the width of a size_t.
LEMMA PowersAreNumbers == \A k \in 0..(SizeBits + 1) : 2^k \in Nat \ {0}
<1> DEFINE S == {k \in Nat : k <= SizeBits + 1 => 2^k \in Nat \ {0}}
<1>1. 0 \in S
  BY PowersAssumption
<1>2. \A k \in Nat : k \in S => k + 1 \in S
  BY PowersAssumption, LimitAssumption
<1> HIDE DEF S
<1>3. \A k \in Nat : k \in S
  BY <1>1, <1>2, NatIsInductive
<1> QED
  BY <1>3, LimitAssumption DEF S

\* The power of a sum is the product of the powers.
LEMMA PowersMultiply ==
  ASSUME NEW j \in Nat, NEW k \in Nat, j + k <= SizeBits + 1
  PROVE  2^(j + k) = 2^j * 2^k
<1> DEFINE S == {i \in Nat : j + i <= SizeBits + 1 => 2^(j + i) = 2^j * 2^i}
<1>1. 0 \in S
  <2>1. 2^j \in Nat
    BY PowersAreNumbers, LimitAssumption
  <2> QED
    BY <2>1, PowersAssumption
<1>2. ASSUME NEW i \in Nat, i \in S, j + (i + 1) <= SizeBits + 1
      PROVE  2^(j + (i + 1)) = 2^j * 2^(i + 1)
  <2>1. 2^(j + i) = 2^j * 2^i
    BY <1>2, LimitAssumption
  <2>2. 2^((j + i) + 1) = 2 * 2^(j + i) /\ 2^(i + 1) = 2 * 2^i
    BY <1>2, PowersAssumption, LimitAssumption
  <2>3. 2^j \in Nat /\ 2^i \in Nat
    BY <1>2, PowersAreNumbers, LimitAssumption
  <2>4. \A a, b \in Nat : 2 * (a * b) = a * (2 * b)
    OBVIOUS
  <2>5. (j + i) + 1 = j + (i + 1)
    OBVIOUS
  <2> QED
    BY <2>1, <2>2, <2>3, <2>4, <2>5
<1>3. \A i \in Nat : i \in S => i + 1 \in S
  BY <1>2
<1> HIDE DEF S
<1>4. \A i \in Nat : i \in S
  BY <1>1, <1>3, NatIsInductive
<1> QED
  BY <1>4 DEF S

\* Larger exponents have larger powers.
LEMMA PowersIncrease ==
  ASSUME NEW j \in Nat, NEW k \in Nat, j <= k, k <= SizeBits + 1
  PROVE  2^j <= 2^k
<1> DEFINE e == k - j
<1>1. e \in Nat /\ j + e = k /\ e <= SizeBits + 1 /\ j <= SizeBits + 1
  BY LimitAssumption
<1> HIDE DEF e
<1>2. 2^j \in Nat \ {0} /\ 2^e \in Nat \ {0}
  BY <1>1, PowersAreNumbers, LimitAssumption
<1>3. 2^k = 2^j * 2^e
  BY <1>1, PowersMultiply
<1>4. \A a, b \in Nat \ {0} : a <= a * b
  OBVIOUS
<1> QED
  BY <1>2, <1>3, <1>4

\* How many smallbins there are.
LEMMA SmallbinsAreNumbered ==
  /\ NSmallbins \in Nat /\ NSmallbins >= 8
  /\ TreebinShift <= SizeBits /\ NTreebins \div 2 + TreebinShift \in Nat
<1>1. TreebinShift \in Nat /\ TreebinShift >= 3 /\ NTreebins \div 2 \in Nat
      /\ TreebinShift <= SizeBits /\ SizeBits \in Nat
  BY BinsAssumption, LimitAssumption
<1>2. \A t \in Nat : t <= TreebinShift => 2^t <= 2^TreebinShift
  BY <1>1, PowersIncrease
<1>3. \A t \in Nat : t = 3 => 2^t = 8
  OBVIOUS
<1>4. 2^TreebinShift \in Nat
  BY <1>1, PowersAreNumbers
<1> QED
  BY <1>1, <1>2, <1>3, <1>4 DEF NSmallbins

\* The index of a size, in terms of the power of two that it reaches.
LEMMA IndexOfSize ==
  ASSUME NEW size \in Nat, 2^TreebinShift <= size,
         size < 2^(NTreebins \div 2 + TreebinShift)
  PROVE  \E k \in Nat :
           /\ k < NTreebins \div 2
           /\ 2^(k + TreebinShift) <= size /\ size < 2^(k + 1 + TreebinShift)
           /\ LET half == 2^(k + TreebinShift - 1)
              IN  /\ half \in Nat \ {0} /\ 2^(k + TreebinShift) = 2 * half
                  /\ TreeIndex(size) =
                       2 * k + (IF size < 3 * half THEN 0 ELSE 1)
<1> DEFINE x == size \div 2^TreebinShift
           m == 2^TreebinShift
           half2 == NTreebins \div 2
           logs == {k \in 0..SizeBits : 2^k <= x}
<1>1. /\ TreebinShift \in Nat /\ TreebinShift >= 3 /\ half2 \in Nat
      /\ half2 + TreebinShift <= SizeBits /\ SizeBits \in Nat
  BY BinsAssumption, LimitAssumption
<1>2. m \in Nat \ {0} /\ 2^half2 \in Nat \ {0}
      /\ 2^(half2 + TreebinShift) = 2^half2 * m
  BY <1>1, PowersAreNumbers, PowersMultiply
<1>3. x \in Nat /\ x >= 1 /\ x < 2^half2 /\ size = m * x + (size % m)
      /\ size % m \in 0..(m - 1)
  <2> HIDE DEF m, half2
  <2>1. size < 2^half2 * m /\ size >= 1 * m
    BY <1>2 DEF m, half2
  <2>2. x = size \div m
    BY DEF m
  <2> HIDE DEF x
  <2> QED
    BY <1>2, <2>1, <2>2, QuotientsBound
<1> HIDE DEF x, m, half2
<1>4. \A k \in logs : k < half2
  <2> SUFFICES ASSUME NEW k \in logs, k >= half2
               PROVE  FALSE
    BY <1>1
  <2>1. 2^half2 <= 2^k
    BY <1>1, PowersIncrease
  <2> QED
    BY <1>1, <1>2, <1>3, <2>1, PowersAreNumbers
<1>5. PICK k \in logs : k + 1 \notin logs
  <2>1. 0 \in logs
    BY <1>1, <1>3, PowersAssumption
  <2>2. (\A k \in Nat : k \in logs => k + 1 \in logs) => \A k \in Nat : k \in logs
    <3> HIDE DEF logs
    <3> QED
      BY <2>1, NatIsInductive
  <2>3. SizeBits + 1 \in Nat /\ SizeBits + 1 \notin logs
    BY <1>1
  <2> QED
    BY <2>2, <2>3
<1>6. k \in Nat /\ k < half2 /\ 2^k <= x /\ x < 2^(k + 1)
      /\ 2^k \in Nat \ {0} /\ 2^(k + 1) = 2 * 2^k
  <2>1. k \in Nat /\ k < half2 /\ 2^k <= x
    BY <1>4, <1>5
  <2>2. k \in 0..SizeBits /\ k + 1 \in 0..SizeBits
    BY <2>1, <1>1
  <2>3. 2^k \in Nat \ {0} /\ 2^(k + 1) = 2 * 2^k
    BY <2>2, <1>1, PowersAreNumbers, PowersAssumption
  <2> QED
    BY <2>1, <2>2, <2>3, <1>3, <1>5
<1>7. Log2(x) = k
  <2>1. \A j \in logs : j <= k
    <3> SUFFICES ASSUME NEW j \in logs, j > k
                 PROVE  FALSE
      BY <1>6
    <3>1. j \in Nat /\ j <= SizeBits + 1 /\ k + 1 \in Nat /\ k + 1 <= j
      BY <1>1, <1>6
    <3>2. 2^(k + 1) <= 2^j
      BY <3>1, PowersIncrease
    <3> QED
      BY <1>1, <1>3, <1>6, <3>1, <3>2, PowersAreNumbers
  <2>2. \A j \in logs : (\A i \in logs : i <= j) => j = k
    BY <1>6, <2>1, <1>1
  <2> HIDE DEF logs
  <2>3. Max(logs) = k
    BY <2>1, <2>2, <1>5 DEF Max
  <2> QED
    BY <2>3 DEF Log2, logs
<1> DEFINE half == 2^(k + TreebinShift - 1)
<1>8. half \in Nat \ {0} /\ 2^(k + TreebinShift) = 2 * half
      /\ 2^(k + 1 + TreebinShift) = 4 * half
  <2>1. k + TreebinShift - 1 \in 0..SizeBits /\ k + TreebinShift \in 0..SizeBits
    BY <1>1, <1>6
  <2>2. (k + TreebinShift - 1) + 1 = k + TreebinShift
        /\ (k + TreebinShift) + 1 = k + 1 + TreebinShift
    BY <1>1, <1>6
  <2>3. half \in Nat \ {0} /\ 2^(k + TreebinShift) = 2 * half
    BY <2>1, <2>2, PowersAssumption, PowersAreNumbers, <1>1
  <2>4. 2^(k + 1 + TreebinShift) = 2 * 2^(k + TreebinShift)
    BY <2>1, <2>2, PowersAssumption
  <2> QED
    BY <2>3, <2>4
<1>9. 2^(k + TreebinShift) <= size /\ size < 2^(k + 1 + TreebinShift)
  <2>1. 2^(k + TreebinShift) = 2^k * m /\ 2^(k + 1 + TreebinShift) = 2^(k + 1) * m
    BY <1>1, <1>6, PowersMultiply DEF m
  <2>2. \A a, r \in Nat : a <= x => a * m <= m * x + r
    <3> SUFFICES ASSUME NEW a \in Nat, NEW r \in Nat, a <= x
                 PROVE  a * m <= m * x + r
      OBVIOUS
    <3>1. PICK e \in Nat : x = a + e
      BY <1>3, x - a \in Nat, x = a + (x - a)
    <3>2. m * (a + e) = a * m + m * e /\ m * e \in Nat /\ a * m \in Nat
      BY <1>2
    <3> QED
      BY <3>1, <3>2
  <2>3. \A a, r \in Nat : x < a /\ r < m => m * x + r < a * m
    <3> SUFFICES ASSUME NEW a \in Nat, NEW r \in Nat, x < a, r < m
                 PROVE  m * x + r < a * m
      OBVIOUS
    <3>1. PICK e \in Nat : a = x + 1 + e
      BY <1>3, a - x - 1 \in Nat, a = x + 1 + (a - x - 1)
    <3>2. (x + 1 + e) * m = m * x + m + m * e /\ m * e \in Nat /\ m * x \in Nat
      BY <1>2, <1>3
    <3> QED
      BY <3>1, <3>2, <1>2
  <2> QED
    BY <1>2, <1>3, <1>6, <2>1, <2>2, <2>3
<1>10. (size \div half) % 2 = IF size < 3 * half THEN 0 ELSE 1
  <2> HIDE DEF half
  <2>1. 2 * half <= size /\ size < 4 * half
    BY <1>8, <1>9
  <2>2. size \div half \in Nat /\ size \div half >= 2 /\ size \div half < 4
    BY <2>1, <1>8, QuotientsBound
  <2>3. size < 3 * half => size \div half < 3
    BY <2>1, <1>8, QuotientsBound
  <2>4. size >= 3 * half => size \div half >= 3
    BY <2>1, <1>8, QuotientsBound
  <2>5. 3 * half \in Nat
    BY <1>8
  <2> QED
    BY <2>2, <2>3, <2>4, <2>5
<1>11. TreeIndex(size) = 2 * k + (IF size < 3 * half THEN 0 ELSE 1)
  <2>1. ~(size < 2^TreebinShift) /\ ~(size >= 2^(half2 + TreebinShift))
    BY <1>1, <1>2, PowersAreNumbers DEF half2
  <2>2. TreeIndex(size) = IndexWithLog(size, k)
    BY <1>7, <2>1 DEF TreeIndex, x, half2
  <2> QED
    BY <2>2, <1>10 DEF IndexWithLog
<1> QED
  BY <1>6, <1>8, <1>9, <1>11 DEF half2

\* compute_tree_index gives a bin, and larger bins to larger sizes.
LEMMA IndexIsABin ==
  ASSUME NEW size \in Nat
  PROVE  TreeIndex(size) \in 0..(NTreebins - 1)
<1>1. NTreebins \in Nat \ {0} /\ NTreebins \div 2 \in Nat
      /\ 2 * (NTreebins \div 2) <= NTreebins
  BY BinsAssumption
<1>2. CASE size < 2^TreebinShift
  BY <1>1, <1>2 DEF TreeIndex
<1>3. CASE ~(size < 2^TreebinShift) /\ size >= 2^(NTreebins \div 2 + TreebinShift)
  BY <1>1, <1>3 DEF TreeIndex
<1>4. CASE ~(size < 2^TreebinShift) /\ ~(size >= 2^(NTreebins \div 2 + TreebinShift))
  <2>1. 2^TreebinShift \in Nat /\ 2^(NTreebins \div 2 + TreebinShift) \in Nat
    BY PowersAreNumbers, BinsAssumption, LimitAssumption
  <2>2. PICK k \in Nat :
           /\ k < NTreebins \div 2
           /\ 2^(k + TreebinShift) <= size /\ size < 2^(k + 1 + TreebinShift)
           /\ LET half == 2^(k + TreebinShift - 1)
              IN  /\ half \in Nat \ {0} /\ 2^(k + TreebinShift) = 2 * half
                  /\ TreeIndex(size) =
                       2 * k + (IF size < 3 * half THEN 0 ELSE 1)
    BY <1>4, <2>1, IndexOfSize
  <2>3. TreeIndex(size) \in {2 * k, 2 * k + 1}
    BY <2>2
  <2> QED
    BY <2>2, <2>3, <1>1
<1> QED
  BY <1>2, <1>3, <1>4

\* A larger chunk never has a smaller tree bin than a smaller one.
THEOREM IndexIncreases ==
  ASSUME NEW small \in Nat, NEW large \in Nat, small <= large
  PROVE  TreeIndex(small) <= TreeIndex(large)
<1> DEFINE low == 2^TreebinShift
           high == 2^(NTreebins \div 2 + TreebinShift)
<1>1. low \in Nat /\ high \in Nat /\ NTreebins \in Nat \ {0}
      /\ NTreebins \div 2 \in Nat /\ 2 * (NTreebins \div 2) <= NTreebins
      /\ NTreebins \div 2 + TreebinShift <= SizeBits /\ TreebinShift \in Nat
  BY PowersAreNumbers, BinsAssumption, LimitAssumption
<1>2. CASE small < low
  <2>1. TreeIndex(small) = 0
    BY <1>2 DEF TreeIndex
  <2> QED
    BY <2>1, IndexIsABin, <1>1
<1>3. CASE ~(large < low) /\ large >= high
  <2>1. TreeIndex(large) = NTreebins - 1
    BY <1>3 DEF TreeIndex
  <2> QED
    BY <2>1, IndexIsABin, <1>1
<1>4. CASE low <= small /\ large < high
  <2>1. low <= large /\ small < high
    BY <1>1, <1>4
  <2> DEFINE Half(k) == 2^(k + TreebinShift - 1)
  <2>2. PICK j \in Nat :
           /\ j < NTreebins \div 2
           /\ 2^(j + TreebinShift) <= small /\ small < 2^(j + 1 + TreebinShift)
           /\ Half(j) \in Nat \ {0} /\ 2^(j + TreebinShift) = 2 * Half(j)
           /\ TreeIndex(small) = 2 * j + (IF small < 3 * Half(j) THEN 0 ELSE 1)
    BY <1>4, <2>1, IndexOfSize
  <2>3. PICK k \in Nat :
           /\ k < NTreebins \div 2
           /\ 2^(k + TreebinShift) <= large /\ large < 2^(k + 1 + TreebinShift)
           /\ Half(k) \in Nat \ {0} /\ 2^(k + TreebinShift) = 2 * Half(k)
           /\ TreeIndex(large) = 2 * k + (IF large < 3 * Half(k) THEN 0 ELSE 1)
    BY <1>4, <2>1, IndexOfSize
  <2>4. j <= k
    <3> SUFFICES ASSUME k < j
                 PROVE  FALSE
      BY <2>2, <2>3
    <3>1. /\ k + 1 + TreebinShift \in Nat /\ j + TreebinShift \in Nat
          /\ k + 1 + TreebinShift <= j + TreebinShift
          /\ j + TreebinShift <= SizeBits + 1
      BY <1>1, <2>2, <2>3, LimitAssumption
    <3>2. 2^(k + 1 + TreebinShift) <= 2^(j + TreebinShift)
      BY <3>1, PowersIncrease
    <3>3. 2^(j + TreebinShift) \in Nat /\ 2^(k + 1 + TreebinShift) \in Nat
      BY <3>1, PowersAreNumbers, LimitAssumption
    <3> QED
      BY <2>2, <2>3, <3>2, <3>3
  <2>5. CASE j = k
    BY <2>2, <2>3, <2>5
  <2>6. CASE j < k
    <3>1. TreeIndex(small) <= 2 * j + 1 /\ TreeIndex(large) >= 2 * k
          /\ TreeIndex(small) \in Nat /\ TreeIndex(large) \in Nat
      BY <2>2, <2>3
    <3> QED
      BY <3>1, <2>6
  <2> QED
    BY <2>4, <2>5, <2>6
<1> QED
  BY <1>1, <1>2, <1>3, <1>4

------------------------------------------------------------------------------
(* Lists and rings.                                                         *)

\* What is in a list and when a list has no member twice, by positions.
LEMMA MembersOf ==
  ASSUME NEW f, NEW n, DOMAIN f = 1..n
  PROVE  /\ \A v : v \in Range(f) <=> \E i \in 1..n : f[i] = v
         /\ \A i \in 1..n : f[i] \in Range(f)
         /\ IsInjective(f) <=> \A i, j \in 1..n : f[i] = f[j] => i = j
  BY DEF Range, IsInjective

\* A list that loses one of its members keeps the others, in order.
LEMMA WithoutOne ==
  ASSUME NEW list \in Seq(Nat), IsInjective(list), NEW p \in Range(list)
  PROVE  /\ Without(list, p) \in Seq(Nat)
         /\ Len(Without(list, p)) = Len(list) - 1
         /\ IsInjective(Without(list, p))
         /\ Range(Without(list, p)) = Range(list) \ {p}
<1> DEFINE n == Len(list)
           at == CHOOSE i \in DOMAIN list : list[i] = p
           left == SubSeq(list, 1, at - 1)
           right == SubSeq(list, at + 1, n)
<1>1. n \in Nat /\ DOMAIN list = 1..n /\ \A i \in 1..n : list[i] \in Nat
  OBVIOUS
<1>2. at \in 1..n /\ list[at] = p
  BY <1>1 DEF Range
<1> HIDE DEF at, n
<1>3. /\ left \in Seq(Nat) /\ Len(left) = at - 1
      /\ \A i \in 1..(at - 1) : left[i] = list[i]
  <2>1. \A i \in 1..(at - 1) : list[i] \in Nat
    BY <1>1, <1>2
  <2>2. 1 \in Int /\ at - 1 \in Int
    BY <1>2
  <2> QED
    BY <2>1, <2>2, <1>2, SubSeqProperties
<1>4. /\ right \in Seq(Nat) /\ Len(right) = n - at
      /\ \A i \in 1..(n - at) : right[i] = list[at + i]
  <2>1. \A i \in (at + 1)..n : list[i] \in Nat
    BY <1>1, <1>2
  <2>2. at + 1 \in Int /\ n \in Int
    BY <1>1, <1>2
  <2>3. /\ right \in Seq(Nat) /\ Len(right) = IF at + 1 <= n THEN n - (at + 1) + 1 ELSE 0
        /\ \A i \in 1..(n - (at + 1) + 1) : right[i] = list[at + 1 + i - 1]
    BY <2>1, <2>2, SubSeqProperties
  <2>4. n - (at + 1) + 1 = n - at /\ \A i \in Int : at + 1 + i - 1 = at + i
    BY <1>1, <1>2
  <2> QED
    BY <2>3, <2>4, <1>1, <1>2
<1> HIDE DEF left, right
<1> DEFINE rest == left \o right
<1>5. /\ rest \in Seq(Nat) /\ Len(rest) = n - 1
      /\ \A i \in 1..(n - 1) :
           rest[i] = IF i < at THEN list[i] ELSE list[i + 1]
  <2>1. /\ rest \in Seq(Nat) /\ Len(rest) = Len(left) + Len(right)
        /\ \A i \in 1..(Len(left) + Len(right)) :
             rest[i] = IF i <= Len(left) THEN left[i] ELSE right[i - Len(left)]
    BY <1>3, <1>4, ConcatProperties
  <2> HIDE DEF rest
  <2>2. \A i \in 1..(n - 1) : i >= at => i - (at - 1) \in 1..(n - at)
                                       /\ at + (i - (at - 1)) = i + 1
    BY <1>1, <1>2
  <2> QED
    BY <2>1, <2>2, <1>1, <1>2, <1>3, <1>4
<1> HIDE DEF rest
<1>6. Without(list, p) = rest
  BY DEF Without, RemoveAt, rest, left, right, at, n
<1>7. DOMAIN rest = 1..(n - 1)
  BY <1>5
<1>13. /\ IsInjective(rest) <=>
             \A i, j \in 1..(n - 1) : rest[i] = rest[j] => i = j
       /\ \A v : v \in Range(rest) <=> \E i \in 1..(n - 1) : rest[i] = v
  BY <1>7 DEF IsInjective, Range
<1>8. \A i, j \in 1..n : list[i] = list[j] => i = j
  BY <1>1, MembersOf
<1> DEFINE Old(i) == IF i < at THEN i ELSE i + 1
<1>11. \A i \in 1..(n - 1) : /\ Old(i) \in 1..n /\ Old(i) # at
                             /\ rest[i] = list[Old(i)]
  BY <1>1, <1>2, <1>5
<1>12. \A i, j \in 1..(n - 1) : Old(i) = Old(j) => i = j
  BY <1>1, <1>2
<1> HIDE DEF Old
<1>9. IsInjective(rest)
  BY <1>13, <1>2, <1>8, <1>11, <1>12
<1>10. Range(rest) = Range(list) \ {p}
  <2>1. ASSUME NEW i \in 1..(n - 1)
        PROVE  rest[i] \in Range(list) \ {p}
    BY <1>1, <1>2, <1>8, <1>11, MembersOf
  <2>2. ASSUME NEW i \in 1..n, list[i] # p
        PROVE  \E j \in 1..(n - 1) : rest[j] = list[i]
    <3>1. CASE i < at
      <4>1. i \in 1..(n - 1)
        BY <1>1, <1>2, <3>1
      <4> QED
        BY <4>1, <3>1, <1>5
    <3>2. CASE i > at
      <4>1. i - 1 \in 1..(n - 1) /\ i - 1 >= at /\ (i - 1) + 1 = i
        BY <1>1, <1>2, <3>2
      <4>2. ~(i - 1 < at)
        BY <1>2, <4>1
      <4> QED
        BY <4>1, <4>2, <1>5
    <3> QED
      BY <1>2, <2>2, <3>1, <3>2
  <2>3. Range(rest) \subseteq Range(list) \ {p}
    BY <2>1, <1>13
  <2>4. Range(list) \ {p} \subseteq Range(rest)
    <3>1. \A v \in Range(list) : \E i \in 1..n : list[i] = v
      BY <1>1, MembersOf
    <3> QED
      BY <2>2, <3>1, <1>13
  <2> QED
    BY <2>3, <2>4
<1> QED
  BY <1>5, <1>6, <1>9, <1>10 DEF n

\* A ring of a trie node that loses one chunk keeps the others.
LEMMA RingLosesOne ==
  ASSUME NEW ring \in Seq(Nat), IsInjective(ring), NEW p \in Range(ring),
         Len(ring) > 1
  PROVE  /\ RingWithout(ring, p) \in Seq(Nat)
         /\ RingWithout(ring, p) # <<>>
         /\ IsInjective(RingWithout(ring, p))
         /\ Range(RingWithout(ring, p)) = Range(ring) \ {p}
<1> DEFINE n == Len(ring)
<1>1. /\ n \in Nat /\ n > 1 /\ DOMAIN ring = 1..n
      /\ \A i \in 1..n : ring[i] \in Nat
      /\ Head(ring) = ring[1]
  OBVIOUS
<1>2. CASE p # Head(ring)
  <2>1. RingWithout(ring, p) = Without(ring, p)
    BY <1>2 DEF RingWithout
  <2>2. Len(Without(ring, p)) # 0
    BY WithoutOne
  <2> QED
    BY <2>1, <2>2, WithoutOne
<1>3. CASE p = Head(ring)
  <2> HIDE DEF n
  <2> DEFINE mid == SubSeq(ring, 2, n - 1)
             rest == <<ring[n]>> \o mid
  <2>1. /\ mid \in Seq(Nat) /\ Len(mid) = n - 2
        /\ \A i \in 1..(n - 2) : mid[i] = ring[i + 1]
    <3>1. \A i \in 2..(n - 1) : ring[i] \in Nat
      BY <1>1
    <3>2. 2 \in Int /\ n - 1 \in Int
      BY <1>1
    <3>3. /\ mid \in Seq(Nat)
          /\ Len(mid) = IF 2 <= n - 1 THEN n - 1 - 2 + 1 ELSE 0
          /\ \A i \in 1..(n - 1 - 2 + 1) : mid[i] = ring[2 + i - 1]
      BY <3>1, <3>2, SubSeqProperties
    <3>4. n - 1 - 2 + 1 = n - 2 /\ \A i \in Int : 2 + i - 1 = i + 1
      BY <1>1
    <3> QED
      BY <3>3, <3>4, <1>1
  <2> HIDE DEF mid
  <2>2. <<ring[n]>> \in Seq(Nat) /\ Len(<<ring[n]>>) = 1 /\ <<ring[n]>>[1] = ring[n]
    BY <1>1
  <2>3. /\ rest \in Seq(Nat) /\ Len(rest) = 1 + (n - 2)
        /\ \A i \in 1..(1 + (n - 2)) :
             rest[i] = IF i <= 1 THEN <<ring[n]>>[i] ELSE mid[i - 1]
    BY <2>1, <2>2, ConcatProperties
  <2> HIDE DEF rest
  <2>4. /\ Len(rest) = n - 1 /\ DOMAIN rest = 1..(n - 1)
        /\ \A i \in 1..(n - 1) :
             rest[i] = IF i = 1 THEN ring[n] ELSE ring[i]
    <3>1. 1 + (n - 2) = n - 1 /\ n - 1 \in Nat
      BY <1>1
    <3>2. \A i \in 1..(n - 1) : i # 1 => i - 1 \in 1..(n - 2) /\ (i - 1) + 1 = i
                                        /\ ~(i <= 1)
      BY <1>1
    <3>3. Len(rest) = n - 1 /\ DOMAIN rest = 1..(n - 1)
      BY <2>3, <3>1
    <3>4. rest[1] = ring[n]
      BY <2>2, <2>3, <3>1, <1>1
    <3>5. ASSUME NEW i \in 1..(n - 1), i # 1
          PROVE  rest[i] = ring[i]
      <4>1. rest[i] = mid[i - 1]
        BY <2>3, <3>1, <3>2, <3>5
      <4> QED
        BY <4>1, <2>1, <3>2, <3>5
    <3> QED
      BY <3>3, <3>4, <3>5
  <2>15. /\ IsInjective(rest) <=>
              \A i, j \in 1..(n - 1) : rest[i] = rest[j] => i = j
         /\ \A v : v \in Range(rest) <=> \E i \in 1..(n - 1) : rest[i] = v
    BY <2>4 DEF IsInjective, Range
  <2>5. RingWithout(ring, p) = rest
    BY <1>3 DEF RingWithout, rest, mid, n
  <2>6. ring[1] = p /\ \A i, j \in 1..n : ring[i] = ring[j] => i = j
    BY <1>1, <1>3, MembersOf
  <2> DEFINE Old(i) == IF i = 1 THEN n ELSE i
  <2>12. \A i \in 1..(n - 1) : Old(i) \in 2..n /\ rest[i] = ring[Old(i)]
    BY <1>1, <2>4
  <2>13. \A i, j \in 1..(n - 1) : Old(i) = Old(j) => i = j
    BY <1>1
  <2>14. \A i \in 2..n : i \in 1..n /\ i # 1
    BY <1>1
  <2> HIDE DEF Old
  <2>7. IsInjective(rest)
    BY <2>15, <2>6, <2>12, <2>13, <2>14
  <2>8. Range(rest) \subseteq Range(ring) \ {p}
    <3>1. \A i \in 1..(n - 1) : rest[i] \in Range(ring) /\ rest[i] # p
      <4>1. \A i \in 1..n : ring[i] \in Range(ring)
        BY <1>1, MembersOf
      <4>2. 1 \in 1..n
        BY <1>1
      <4> QED
        BY <4>1, <4>2, <2>6, <2>12, <2>14
    <3> QED
      BY <3>1, <2>15
  <2>9. ASSUME NEW i \in 1..n, ring[i] # p
        PROVE  \E j \in 1..(n - 1) : rest[j] = ring[i]
    <3>1. i # 1
      BY <2>6, <2>9
    <3>2. CASE i = n
      BY <1>1, <2>4, <3>2
    <3>3. CASE i # n
      BY <1>1, <2>4, <3>1, <3>3
    <3> QED
      BY <3>2, <3>3
  <2>10. Range(ring) \ {p} \subseteq Range(rest)
    <3>1. \A v \in Range(ring) : \E i \in 1..n : ring[i] = v
      BY <1>1, MembersOf
    <3> QED
      BY <2>9, <3>1, <2>15
  <2>11. rest # <<>>
    BY <2>4, <1>1
  <2> QED
    BY <2>3, <2>5, <2>7, <2>8, <2>10, <2>11
<1> QED
  BY <1>2, <1>3

\* The first chunk of a list is in the list.
LEMMA HeadIsAMember ==
  ASSUME NEW list \in Seq(Nat), list # <<>>
  PROVE  Head(list) \in Nat /\ Head(list) \in Range(list)
<1>1. Len(list) \in Nat \ {0} /\ DOMAIN list = 1..Len(list)
      /\ Head(list) = list[1] /\ list[1] \in Nat
  OBVIOUS
<1> QED
  BY <1>1 DEF Range

\* A chunk alone in its ring.
LEMMA SingleRing ==
  ASSUME NEW p \in Nat
  PROVE  /\ <<p>> \in Seq(Nat) /\ <<p>> # <<>> /\ IsInjective(<<p>>)
         /\ Range(<<p>>) = {p} /\ Len(<<p>>) = 1
<1>1. /\ <<p>> \in Seq(Nat) /\ Len(<<p>>) = 1 /\ DOMAIN <<p>> = {1}
      /\ <<p>>[1] = p
  OBVIOUS
<1> QED
  BY <1>1 DEF IsInjective, Range

\* A smallbin that gains a chunk at its head.
LEMMA ListGainsOne ==
  ASSUME NEW list \in Seq(Nat), IsInjective(list), NEW p \in Nat,
         p \notin Range(list)
  PROVE  /\ <<p>> \o list \in Seq(Nat) /\ <<p>> \o list # <<>>
         /\ IsInjective(<<p>> \o list)
         /\ Range(<<p>> \o list) = Range(list) \cup {p}
<1> DEFINE n == Len(list)
           more == <<p>> \o list
<1>1. n \in Nat /\ DOMAIN list = 1..n
  OBVIOUS
<1>2. /\ more \in Seq(Nat) /\ Len(more) = n + 1 /\ DOMAIN more = 1..(n + 1)
      /\ \A i \in 1..(n + 1) : more[i] = IF i = 1 THEN p ELSE list[i - 1]
  OBVIOUS
<1> HIDE DEF more, n
<1>14. /\ IsInjective(more) <=>
             \A i, j \in 1..(n + 1) : more[i] = more[j] => i = j
       /\ \A v : v \in Range(more) <=> \E i \in 1..(n + 1) : more[i] = v
  BY <1>2 DEF IsInjective, Range
<1>3. \A i \in 1..(n + 1) : i # 1 => i - 1 \in 1..n
  BY <1>1
<1>4. \A i \in 1..n : list[i] # p /\ i + 1 \in 1..(n + 1) /\ i + 1 # 1
                       /\ (i + 1) - 1 = i
  BY <1>1, MembersOf
<1>11. \A i, j \in 1..n : list[i] = list[j] => i = j
  BY <1>1, MembersOf
<1>12. \A i, j \in 1..(n + 1) : i # 1 /\ j # 1 /\ i - 1 = j - 1 => i = j
  BY <1>1
<1>13. \A i, j \in 1..(n + 1) : more[i] = more[j] => i = j
  <2>1. \A i \in 1..(n + 1) : i = 1 => more[i] = p
    BY <1>2
  <2>2. \A i \in 1..(n + 1) : i # 1 => more[i] = list[i - 1]
    BY <1>2
  <2> QED
    BY <2>1, <2>2, <1>3, <1>4, <1>11, <1>12
<1>5. IsInjective(more)
  BY <1>14, <1>13
<1>6. Range(more) \subseteq Range(list) \cup {p}
  <2>1. \A i \in 1..(n + 1) : more[i] \in Range(list) \cup {p}
    BY <1>1, <1>2, <1>3, MembersOf
  <2> QED
    BY <2>1, <1>14
<1>7. \A i \in 1..n : more[i + 1] = list[i]
  BY <1>2, <1>4
<1>8. Range(list) \subseteq Range(more)
  <2>1. \A v \in Range(list) : \E i \in 1..n : list[i] = v
    BY <1>1, MembersOf
  <2> QED
    BY <2>1, <1>4, <1>7, <1>14
<1>9. more[1] = p /\ 1 \in DOMAIN more /\ more # <<>>
  BY <1>1, <1>2
<1>10. p \in Range(more)
  BY <1>9 DEF Range
<1> QED
  BY <1>2, <1>5, <1>6, <1>8, <1>9, <1>10 DEF more

\* A ring that gains a chunk behind its head.
LEMMA RingGainsOne ==
  ASSUME NEW ring \in Seq(Nat), ring # <<>>, IsInjective(ring), NEW p \in Nat,
         p \notin Range(ring)
  PROVE  LET more == <<Head(ring), p>> \o Tail(ring)
         IN  /\ more \in Seq(Nat) /\ more # <<>> /\ IsInjective(more)
             /\ Range(more) = Range(ring) \cup {p}
<1> DEFINE n == Len(ring)
           more == <<Head(ring), p>> \o Tail(ring)
<1>1. n \in Nat \ {0} /\ DOMAIN ring = 1..n /\ Head(ring) = ring[1]
      /\ \A i \in 1..n : ring[i] \in Nat
  OBVIOUS
<1>2. /\ Tail(ring) \in Seq(Nat) /\ Len(Tail(ring)) = n - 1
      /\ \A i \in 1..(n - 1) : Tail(ring)[i] = ring[i + 1]
  BY HeadTailProperties
<1>3. <<Head(ring), p>> \in Seq(Nat) /\ Len(<<Head(ring), p>>) = 2
      /\ <<Head(ring), p>>[1] = ring[1] /\ <<Head(ring), p>>[2] = p
  BY <1>1
<1>4. /\ more \in Seq(Nat) /\ Len(more) = 2 + (n - 1)
      /\ \A i \in 1..(2 + (n - 1)) :
           more[i] = IF i <= 2 THEN <<Head(ring), p>>[i] ELSE Tail(ring)[i - 2]
  BY <1>2, <1>3, ConcatProperties
<1> HIDE DEF more, n
<1>5. /\ DOMAIN more = 1..(n + 1) /\ more[1] = ring[1] /\ more[2] = p
      /\ \A i \in 3..(n + 1) : more[i] = ring[i - 1]
  <2>1. Len(more) = n + 1 /\ \A i \in 1..(n + 1) : i \in 1..(2 + (n - 1))
    BY <1>1, <1>4
  <2>2. \A i \in 3..(n + 1) : i - 2 \in 1..(n - 1) /\ (i - 2) + 1 = i - 1
                               /\ ~(i <= 2) /\ i \in 1..(n + 1)
    BY <1>1
  <2> QED
    BY <2>1, <2>2, <1>1, <1>2, <1>3, <1>4
<1>12. /\ IsInjective(more) <=>
             \A i, j \in 1..(n + 1) : more[i] = more[j] => i = j
       /\ \A v : v \in Range(more) <=> \E i \in 1..(n + 1) : more[i] = v
  BY <1>5 DEF IsInjective, Range
<1>6. \A i, j \in 1..n : ring[i] = ring[j] => i = j
  BY <1>1, MembersOf
<1>7. \A i \in 1..n : ring[i] # p
  BY <1>1, MembersOf
<1>8. IsInjective(more)
  <2>1. ASSUME NEW i \in 1..(n + 1), NEW j \in 1..(n + 1), more[i] = more[j]
        PROVE  i = j
    <3> DEFINE Old(k) == IF k = 1 THEN 1 ELSE k - 1
    <3>1. \A k \in 1..(n + 1) : k # 2 => Old(k) \in 1..n /\ more[k] = ring[Old(k)]
      <4>1. \A k \in 1..(n + 1) : k # 1 /\ k # 2 => k \in 3..(n + 1)
        BY <1>1
      <4> QED
        BY <4>1, <1>1, <1>5
    <3>2. \A k, l \in 1..(n + 1) : k # 2 /\ l # 2 /\ Old(k) = Old(l) => k = l
      BY <1>1
    <3> HIDE DEF Old
    <3>3. more[2] = p /\ \A k \in 1..(n + 1) : k # 2 => more[k] # p
      BY <3>1, <1>5, <1>7
    <3>4. CASE i = 2 \/ j = 2
      BY <2>1, <3>3, <3>4
    <3>5. CASE i # 2 /\ j # 2
      <4>1. Old(i) \in 1..n /\ Old(j) \in 1..n /\ ring[Old(i)] = ring[Old(j)]
        BY <2>1, <3>1, <3>5
      <4>2. Old(i) = Old(j)
        BY <4>1, <1>6
      <4> QED
        BY <4>2, <3>2, <3>5
    <3> QED
      BY <3>4, <3>5
  <2> QED
    BY <2>1, <1>12
<1>9. Range(more) \subseteq Range(ring) \cup {p}
  <2>1. ASSUME NEW i \in 1..(n + 1)
        PROVE  more[i] = p \/ \E j \in 1..n : more[i] = ring[j]
    <3>1. i = 1 \/ i = 2 \/ (i \in 3..(n + 1) /\ i - 1 \in 1..n)
      BY <1>1
    <3> QED
      BY <3>1, <1>1, <1>5
  <2>2. \A i \in 1..n : ring[i] \in Range(ring)
    BY <1>1, MembersOf
  <2> QED
    BY <2>1, <2>2, <1>12
<1>10. Range(ring) \cup {p} \subseteq Range(more)
  <2>1. ASSUME NEW i \in 1..n
        PROVE  \E j \in 1..(n + 1) : more[j] = ring[i]
    <3>1. CASE i = 1
      BY <3>1, <1>1, <1>5
    <3>2. CASE i # 1
      <4>1. i + 1 \in 3..(n + 1) /\ i + 1 \in 1..(n + 1) /\ (i + 1) - 1 = i
        BY <3>2, <1>1
      <4> QED
        BY <4>1, <1>5
    <3> QED
      BY <3>1, <3>2
  <2>2. 2 \in 1..(n + 1)
    BY <1>1
  <2>3. \A v \in Range(ring) : \E i \in 1..n : ring[i] = v
    BY <1>1, MembersOf
  <2> QED
    BY <2>1, <2>2, <2>3, <1>5, <1>12
<1>11. more # <<>>
  BY <1>1, <1>4
<1> QED
  BY <1>4, <1>8, <1>9, <1>10, <1>11 DEF more

------------------------------------------------------------------------------
(* Tries.                                                                   *)

Bits == {0, 1}
Size(w, p) == w[p + 1].size

\* The path of a size has a prefix for every depth.
LEMMA PathIsASequence ==
  ASSUME NEW size \in Nat, NEW i \in 0..(NTreebins - 1), NEW n \in Nat
  PROVE  /\ PathOf(size, i, n) \in Seq(Bits) /\ Len(PathOf(size, i, n)) = n
         /\ \A k \in 0..n : SubSeq(PathOf(size, i, n), 1, k) = PathOf(size, i, k)
<1>1. ASSUME NEW d \in Nat
      PROVE  ChildOf(size, i, d) \in Bits
  <2> DEFINE bit == BitForDepth(i, d)
  <2>1. bit \in Int /\ bit <= SizeBits
    <3>1. NTreebins \in Nat \ {0} /\ TreebinShift \in Nat /\ SizeBits \in Nat
          /\ NTreebins \div 2 + TreebinShift <= SizeBits
          /\ i \div 2 \in Nat /\ i \div 2 <= NTreebins \div 2
          /\ NTreebins \div 2 \in Nat
      BY BinsAssumption, LimitAssumption
    <3> QED
      BY <3>1 DEF BitForDepth
  <2> HIDE DEF bit
  <2>2. CASE bit < 0
    BY <2>2 DEF ChildOf, BitOf, Bits, bit
  <2>3. CASE bit >= 0
    <3>1. 2^bit \in Nat \ {0}
      BY <2>1, <2>3, PowersAreNumbers, LimitAssumption
    <3>2. \A m \in Nat \ {0} : (size \div m) % 2 \in Bits
      BY DEF Bits
    <3> QED
      BY <2>1, <2>3, <3>1, <3>2 DEF ChildOf, BitOf, bit
  <2> QED
    BY <2>1, <2>2, <2>3
<1>2. ASSUME NEW k \in Nat
      PROVE  /\ PathOf(size, i, k) \in Seq(Bits) /\ Len(PathOf(size, i, k)) = k
             /\ \A d \in 1..k : PathOf(size, i, k)[d] = ChildOf(size, i, d - 1)
  <2>1. \A d \in 1..k : ChildOf(size, i, d - 1) \in Bits
    BY <1>1
  <2> QED
    BY <2>1 DEF PathOf
<1>3. ASSUME NEW k \in 0..n
      PROVE  SubSeq(PathOf(size, i, n), 1, k) = PathOf(size, i, k)
  <2> DEFINE long == PathOf(size, i, n)
             short == PathOf(size, i, k)
  <2>1. /\ long \in Seq(Bits) /\ short \in Seq(Bits) /\ Len(short) = k
        /\ Len(long) = n /\ \A d \in 1..k : short[d] = long[d]
    BY <1>2
  <2> HIDE DEF long, short
  <2>2. \A d \in 1..k : long[d] \in Bits
    BY <2>1
  <2>3. /\ SubSeq(long, 1, k) \in Seq(Bits)
        /\ Len(SubSeq(long, 1, k)) = IF 1 <= k THEN k - 1 + 1 ELSE 0
        /\ \A d \in 1..(k - 1 + 1) : SubSeq(long, 1, k)[d] = long[1 + d - 1]
    <3>1. 1 \in Int /\ k \in Int
      OBVIOUS
    <3> QED
      BY <2>2, <3>1, SubSeqProperties
  <2>4. /\ Len(SubSeq(long, 1, k)) = k
        /\ \A d \in 1..k : SubSeq(long, 1, k)[d] = long[d]
    <3>1. k - 1 + 1 = k /\ \A d \in 1..k : 1 + d - 1 = d
      OBVIOUS
    <3> QED
      BY <2>3, <3>1
  <2>5. SubSeq(long, 1, k) = short
    BY <2>1, <2>3, <2>4, SeqEqual
  <2> QED
    BY <2>5 DEF long, short
<1> QED
  BY <1>2, <1>3

\* A trie has finitely many nodes, each with the nodes above it.
IsTrie(trie) ==
  /\ DOMAIN trie \subseteq Seq(Bits) /\ IsFiniteSet(DOMAIN trie)
  /\ trie \in [DOMAIN trie -> Seq(Nat)]
  /\ \A q \in DOMAIN trie : \A k \in 0..Len(q) : SubSeq(q, 1, k) \in DOMAIN trie

\* The trie of bin i has the chunks c, each in a ring of its size at a node on
\* the path of that size.
Holds(w, trie, i, c) ==
  /\ IsTrie(trie)
  /\ \A q \in DOMAIN trie :
       /\ trie[q] # <<>> /\ IsInjective(trie[q])
       /\ \A p \in Range(trie[q]) : p \in c /\ q = PathOf(Size(w, p), i, Len(q))
  /\ \A q, r \in DOMAIN trie : \A p \in Range(trie[q]), x \in Range(trie[r]) :
       Size(w, p) = Size(w, x) <=> q = r
  /\ \A p \in c : \E q \in DOMAIN trie : p \in Range(trie[q])

\* The trie of an unused bin holds no chunk.
LEMMA NoTrieHoldsNothing ==
  ASSUME NEW w, NEW i
  PROVE  Holds(w, NoTrie, i, {}) /\ DOMAIN NoTrie = {}
<1>1. DOMAIN NoTrie = {}
  BY DEF NoTrie
<1>2. NoTrie \in [DOMAIN NoTrie -> Seq(Nat)]
  BY <1>1 DEF NoTrie
<1>3. IsFiniteSet(DOMAIN NoTrie)
  BY <1>1, FS_EmptySet
<1> QED
  BY <1>1, <1>2, <1>3 DEF Holds, IsTrie

\* A trie that holds no chunk has no node, and the reverse.
LEMMA EmptyTrie ==
  ASSUME NEW w, NEW i, NEW c, NEW trie, Holds(w, trie, i, c)
  PROVE  /\ trie = NoTrie <=> DOMAIN trie = {}
         /\ trie = NoTrie <=> c = {}
<1>1. trie \in [DOMAIN trie -> Seq(Nat)]
  BY DEF Holds, IsTrie
<1>2. NoTrie \in [{} -> Seq(Nat)]
  BY DEF NoTrie
<1>3. trie = NoTrie => DOMAIN trie = {}
  BY DEF NoTrie
<1>4. DOMAIN trie = {} => trie = NoTrie
  <2> SUFFICES ASSUME DOMAIN trie = {} PROVE trie = NoTrie
    OBVIOUS
  <2>1. trie \in [{} -> Seq(Nat)]
    BY <1>1
  <2> QED
    BY <2>1, <1>2
<1>5. c = {} => DOMAIN trie = {}
  <2> SUFFICES ASSUME c = {}, NEW q \in DOMAIN trie PROVE FALSE
    OBVIOUS
  <2>1. trie[q] \in Seq(Nat) /\ trie[q] # <<>>
    BY <1>1 DEF Holds
  <2> QED
    BY <2>1, HeadIsAMember DEF Holds
<1>6. DOMAIN trie = {} => c = {}
  BY DEF Holds
<1> QED
  BY <1>3, <1>4, <1>5, <1>6

\* What a trie holds depends on the sizes of its chunks only.
LEMMA HoldsAfter ==
  ASSUME NEW w, NEW i, NEW c, NEW trie, Holds(w, trie, i, c),
         NEW x, \A p \in c : Size(x, p) = Size(w, p)
  PROVE  Holds(x, trie, i, c)
<1>1. \A q \in DOMAIN trie : \A p \in Range(trie[q]) :
        p \in c /\ Size(x, p) = Size(w, p)
  BY DEF Holds
<1>2. \A q \in DOMAIN trie :
       /\ trie[q] # <<>> /\ IsInjective(trie[q])
       /\ \A p \in Range(trie[q]) : p \in c /\ q = PathOf(Size(x, p), i, Len(q))
  BY <1>1 DEF Holds
<1>3. \A q, r \in DOMAIN trie : \A p \in Range(trie[q]), y \in Range(trie[r]) :
       Size(x, p) = Size(x, y) <=> q = r
  <2> SUFFICES ASSUME NEW q \in DOMAIN trie, NEW r \in DOMAIN trie,
                      NEW p \in Range(trie[q]), NEW y \in Range(trie[r])
               PROVE  Size(x, p) = Size(x, y) <=> q = r
    OBVIOUS
  <2>1. Size(w, p) = Size(w, y) <=> q = r
    BY DEF Holds
  <2> QED
    BY <2>1, <1>1
<1> QED
  BY <1>2, <1>3 DEF Holds

\* The nodes on the path of a size end somewhere.
LEMMA PathLeavesTrie ==
  ASSUME NEW trie, IsTrie(trie), NEW size \in Nat, NEW i \in 0..(NTreebins - 1)
  PROVE  \E d \in 0..Cardinality(DOMAIN trie) :
           PathOf(size, i, d) \notin DOMAIN trie
<1> DEFINE nodes == DOMAIN trie
           n == Cardinality(nodes)
           path == [d \in 0..n |-> PathOf(size, i, d)]
<1>1. IsFiniteSet(nodes) /\ n \in Nat
  BY FS_CardinalityType DEF IsTrie
<1>2. IsFiniteSet(0..n) /\ Cardinality(0..n) = n + 1
  BY <1>1, FS_Interval
<1> SUFFICES ASSUME \A d \in 0..n : PathOf(size, i, d) \in nodes
             PROVE  FALSE
  OBVIOUS
<1>3. path \in [0..n -> nodes]
  OBVIOUS
<1> HIDE DEF nodes
<1>4. PICK d \in 0..n, e \in 0..n : d # e /\ path[d] = path[e]
  <2>1. Cardinality(nodes) < Cardinality(0..n)
    BY <1>1, <1>2
  <2> HIDE DEF n, path
  <2> QED
    BY <1>1, <1>2, <1>3, <2>1, FS_PigeonHole
<1>5. Len(PathOf(size, i, d)) = d /\ Len(PathOf(size, i, e)) = e
  BY <1>1, PathIsASequence
<1> QED
  BY <1>4, <1>5

\* The place where insertion stops is the first on the path that is free or of
\* that size.
LEMMA PlaceIsOnPath ==
  ASSUME NEW s, NEW trie, IsTrie(trie),
         NEW size \in Nat, NEW i \in 0..(NTreebins - 1)
  PROVE  \E d \in Nat :
           /\ PlaceOf(s, trie, size, i) = PathOf(size, i, d)
           /\ IsPlaceFor(s, trie, size, PathOf(size, i, d))
           /\ \A e \in 0..(d - 1) : ~IsPlaceFor(s, trie, size, PathOf(size, i, e))
<1> DEFINE n == Cardinality(DOMAIN trie)
           places == {d \in 0..n : IsPlaceFor(s, trie, size, PathOf(size, i, d))}
<1>1. n \in Nat
  BY FS_CardinalityType DEF IsTrie
<1>2. places \in SUBSET Nat /\ places # {}
  <2>1. PICK d \in 0..n : PathOf(size, i, d) \notin DOMAIN trie
    BY PathLeavesTrie
  <2> QED
    BY <1>1, <2>1 DEF IsPlaceFor
<1> HIDE DEF places
<1>3. \E d \in places : \A e \in places : d <= e
  BY <1>2, HasSmallest
<1>4. Min(places) \in places /\ \A e \in places : Min(places) <= e
  BY <1>3 DEF Min
<1>5. Min(places) \in 0..n
  BY <1>4 DEF places
<1>6. \A e \in 0..(Min(places) - 1) : e \notin places /\ e \in 0..n
  BY <1>1, <1>2, <1>4, <1>5
<1> QED
  BY <1>4, <1>5, <1>6 DEF PlaceOf, places

\* With a node, the nodes above it on its path are there.
LEMMA PrefixesAreNodes ==
  ASSUME NEW trie, IsTrie(trie), NEW size \in Nat, NEW i \in 0..(NTreebins - 1),
         NEW d \in Nat, NEW e \in Nat, e <= d,
         PathOf(size, i, d) \in DOMAIN trie
  PROVE  PathOf(size, i, e) \in DOMAIN trie
<1>1. /\ Len(PathOf(size, i, d)) = d /\ e \in 0..d
      /\ SubSeq(PathOf(size, i, d), 1, e) = PathOf(size, i, e)
  BY PathIsASequence
<1> QED
  BY <1>1 DEF IsTrie

\* Insertion puts a chunk where its size belongs.
THEOREM InsertedIsHeld ==
  ASSUME NEW s, NEW trie, NEW i \in 0..(NTreebins - 1), NEW c,
         Holds(s.word, trie, i, c), \A p \in c : Size(s.word, p) \in Nat,
         NEW x \in Nat, x \notin c, NEW size \in Nat, size = Size(s.word, x)
  PROVE  /\ Holds(s.word, Inserted(s, trie, x, size, i), i, c \cup {x})
         /\ DOMAIN Inserted(s, trie, x, size, i) # {}
<1> DEFINE w == s.word
           nodes == DOMAIN trie
           Path(e) == PathOf(size, i, e)
<1>1. IsTrie(trie)
  BY DEF Holds
<1>2. PICK d \in Nat :
         /\ PlaceOf(s, trie, size, i) = Path(d)
         /\ IsPlaceFor(s, trie, size, Path(d))
         /\ \A e \in 0..(d - 1) : ~IsPlaceFor(s, trie, size, Path(e))
  BY <1>1, PlaceIsOnPath
<1> DEFINE q == Path(d)
           ring == IF q \in nodes THEN <<Head(trie[q]), x>> \o Tail(trie[q])
                   ELSE <<x>>
           new == Stored(trie, q, ring)
<1>3. q \in Seq(Bits) /\ Len(q) = d /\ \A k \in 0..d : SubSeq(q, 1, k) = Path(k)
  BY PathIsASequence
<1>4. Inserted(s, trie, x, size, i) = new
  BY <1>2 DEF Inserted, JoinRing
<1>5. \A r \in nodes : /\ trie[r] \in Seq(Nat) /\ trie[r] # <<>>
                       /\ IsInjective(trie[r]) /\ x \notin Range(trie[r])
                       /\ r \in Seq(Bits)
                       /\ Head(trie[r]) \in Range(trie[r])
                       /\ SizeAt(s, trie, r) = Size(w, Head(trie[r]))
  <2> SUFFICES ASSUME NEW r \in nodes
               PROVE  /\ trie[r] \in Seq(Nat) /\ trie[r] # <<>>
                      /\ IsInjective(trie[r]) /\ x \notin Range(trie[r])
                      /\ r \in Seq(Bits)
                      /\ Head(trie[r]) \in Range(trie[r])
                      /\ SizeAt(s, trie, r) = Size(w, Head(trie[r]))
    OBVIOUS
  <2>1. trie[r] \in Seq(Nat) /\ r \in Seq(Bits)
    BY <1>1 DEF IsTrie
  <2>2. trie[r] # <<>> /\ IsInjective(trie[r]) /\ x \notin Range(trie[r])
    BY DEF Holds
  <2>3. Head(trie[r]) \in Range(trie[r])
    BY <2>1, <2>2, HeadIsAMember
  <2>4. SizeAt(s, trie, r) = Size(w, Head(trie[r]))
    BY DEF SizeAt, Member, ChunkSize, Size
  <2> QED
    BY <2>1, <2>2, <2>3, <2>4
<1>6. \A e \in 0..(d - 1) : Path(e) \in nodes /\ SizeAt(s, trie, Path(e)) # size
  BY <1>2 DEF IsPlaceFor
<1>7. ring \in Seq(Nat) /\ ring # <<>> /\ IsInjective(ring)
      /\ Range(ring) = (IF q \in nodes THEN Range(trie[q]) ELSE {}) \cup {x}
  <2>1. CASE q \in nodes
    BY <2>1, <1>5, RingGainsOne
  <2>2. CASE q \notin nodes
    BY <2>2, SingleRing
  <2> QED
    BY <2>1, <2>2
<1>8. DOMAIN new = nodes \cup {q} /\ new[q] = ring
      /\ \A r \in nodes : r # q => new[r] = trie[r]
  BY DEF Stored
<1>9. \A r \in nodes : \A p \in Range(trie[r]) : Size(w, p) = size <=> r = q
  <2> SUFFICES ASSUME NEW r \in nodes, NEW p \in Range(trie[r])
               PROVE  Size(w, p) = size <=> r = q
    OBVIOUS
  <2>1. Len(r) \in Nat /\ p \in c /\ r = PathOf(Size(w, p), i, Len(r))
    BY <1>5 DEF Holds
  <2>2. Size(w, p) = Size(w, Head(trie[r]))
    BY <1>5 DEF Holds
  <2>3. ASSUME Size(w, p) = size
        PROVE  r = q
    <3>1. r = Path(Len(r)) /\ SizeAt(s, trie, r) = size
      BY <1>5, <2>1, <2>2, <2>3
    <3>2. ~(Len(r) < d)
      BY <1>6, <2>1, <3>1
    <3>3. q \in nodes
      BY <1>1, <2>1, <3>1, <3>2, PrefixesAreNodes
    <3>4. SizeAt(s, trie, q) = size
      BY <1>2, <3>3 DEF IsPlaceFor
    <3>5. Size(w, Head(trie[q])) = Size(w, p)
      BY <1>5, <2>3, <3>3, <3>4
    <3> QED
      BY <1>5, <3>3, <3>5 DEF Holds
  <2>4. ASSUME r = q
        PROVE  Size(w, p) = size
    <3>1. SizeAt(s, trie, q) = size
      BY <1>2, <2>4 DEF IsPlaceFor
    <3> QED
      BY <1>5, <2>2, <2>4, <3>1
  <2> QED
    BY <2>3, <2>4
<1> HIDE DEF ring, new
<1>10. IsTrie(new)
  <2>1. DOMAIN new \subseteq Seq(Bits) /\ IsFiniteSet(DOMAIN new)
    BY <1>1, <1>3, <1>8, FS_AddElement DEF IsTrie
  <2>2. new \in [DOMAIN new -> Seq(Nat)]
    <3>1. \A r \in DOMAIN new : new[r] \in Seq(Nat)
      BY <1>5, <1>7, <1>8
    <3>2. new = [r \in DOMAIN new |-> new[r]]
      BY DEF new, Stored
    <3> QED
      BY <3>1, <3>2
  <2>3. ASSUME NEW r \in DOMAIN new, NEW k \in 0..Len(r)
        PROVE  SubSeq(r, 1, k) \in DOMAIN new
    <3>1. CASE r \in nodes
      BY <3>1, <1>1, <1>8 DEF IsTrie
    <3>2. CASE r = q
      <4>1. k \in 0..d /\ SubSeq(r, 1, k) = Path(k)
        BY <1>3, <2>3, <3>2
      <4>2. k = d \/ k \in 0..(d - 1)
        BY <4>1
      <4> QED
        BY <4>1, <4>2, <1>6, <1>8
    <3> QED
      BY <3>1, <3>2, <1>8
  <2> QED
    BY <2>1, <2>2, <2>3 DEF IsTrie
<1> DEFINE Members(r) == IF r \in nodes THEN Range(trie[r]) ELSE {}
<1>11. \A r \in DOMAIN new :
         /\ r # q => r \in nodes
         /\ Range(new[r]) = Members(r) \cup (IF r = q THEN {x} ELSE {})
  BY <1>7, <1>8
<1>12. \A r \in DOMAIN new : \A p \in Range(new[r]) :
         \/ p = x /\ r = q
         \/ r \in nodes /\ p \in Range(trie[r])
  BY <1>11
<1>13. ASSUME NEW r \in DOMAIN new
       PROVE  /\ new[r] # <<>> /\ IsInjective(new[r])
              /\ \A p \in Range(new[r]) :
                   p \in c \cup {x} /\ r = PathOf(Size(w, p), i, Len(r))
  <2>1. new[r] # <<>> /\ IsInjective(new[r])
    BY <1>5, <1>7, <1>8
  <2>2. ASSUME NEW p \in Range(new[r])
        PROVE  p \in c \cup {x} /\ r = PathOf(Size(w, p), i, Len(r))
    <3>1. CASE p = x /\ r = q
      BY <3>1, <1>3
    <3>2. CASE r \in nodes /\ p \in Range(trie[r])
      BY <3>2 DEF Holds
    <3> QED
      BY <3>1, <3>2, <1>12
  <2> QED
    BY <2>1, <2>2
<1>14. ASSUME NEW r \in DOMAIN new, NEW t \in DOMAIN new,
              NEW p \in Range(new[r]), NEW y \in Range(new[t])
       PROVE  Size(w, p) = Size(w, y) <=> r = t
  <2>1. CASE p = x /\ r = q
    BY <2>1, <1>9, <1>12
  <2>2. CASE y = x /\ t = q
    BY <2>2, <1>9, <1>12
  <2>3. CASE r \in nodes /\ p \in Range(trie[r]) /\ t \in nodes /\ y \in Range(trie[t])
    BY <2>3 DEF Holds
  <2> QED
    BY <2>1, <2>2, <2>3, <1>12
<1>15. ASSUME NEW p \in c \cup {x}
       PROVE  \E r \in DOMAIN new : p \in Range(new[r])
  <2>1. CASE p = x
    BY <2>1, <1>8, <1>11
  <2>2. CASE p \in c
    <3>1. PICK r \in nodes : p \in Range(trie[r])
      BY <2>2 DEF Holds
    <3> QED
      BY <3>1, <1>8, <1>11
  <2> QED
    BY <2>1, <2>2
<1>16. Holds(w, new, i, c \cup {x})
  BY <1>10, <1>13, <1>14, <1>15 DEF Holds
<1> QED
  BY <1>4, <1>8, <1>16

\* A prefix of a path.
LEMMA PrefixOf ==
  ASSUME NEW r \in Seq(Bits), NEW k \in 0..Len(r)
  PROVE  /\ SubSeq(r, 1, k) \in Seq(Bits) /\ Len(SubSeq(r, 1, k)) = k
         /\ \A d \in 1..k : SubSeq(r, 1, k)[d] = r[d]
         /\ k = Len(r) => SubSeq(r, 1, k) = r
<1>1. \A d \in 1..k : r[d] \in Bits
  OBVIOUS
<1>2. /\ SubSeq(r, 1, k) \in Seq(Bits)
      /\ Len(SubSeq(r, 1, k)) = IF 1 <= k THEN k - 1 + 1 ELSE 0
      /\ \A d \in 1..(k - 1 + 1) : SubSeq(r, 1, k)[d] = r[1 + d - 1]
  <2>1. 1 \in Int /\ k \in Int
    OBVIOUS
  <2> QED
    BY <1>1, <2>1, SubSeqProperties
<1>3. k - 1 + 1 = k /\ \A d \in 1..k : 1 + d - 1 = d
  OBVIOUS
<1>4. /\ Len(SubSeq(r, 1, k)) = k
      /\ \A d \in 1..k : SubSeq(r, 1, k)[d] = r[d]
  BY <1>2, <1>3
<1>5. k = Len(r) => SubSeq(r, 1, k) = r
  BY SubSeqFull
<1> QED
  BY <1>2, <1>4, <1>5

\* Prefixes of prefixes.
LEMMA PrefixOfPrefix ==
  ASSUME NEW r \in Seq(Bits), NEW k \in 0..Len(r), NEW j \in 0..k
  PROVE  SubSeq(SubSeq(r, 1, k), 1, j) = SubSeq(r, 1, j)
<1> DEFINE t == SubSeq(r, 1, k)
<1>1. /\ t \in Seq(Bits) /\ Len(t) = k /\ \A d \in 1..k : t[d] = r[d]
  BY PrefixOf
<1>2. /\ SubSeq(r, 1, j) \in Seq(Bits) /\ Len(SubSeq(r, 1, j)) = j
      /\ \A d \in 1..j : SubSeq(r, 1, j)[d] = r[d]
  <2>1. j \in 0..Len(r)
    OBVIOUS
  <2> QED
    BY <2>1, PrefixOf
<1> HIDE DEF t
<1>3. /\ SubSeq(t, 1, j) \in Seq(Bits) /\ Len(SubSeq(t, 1, j)) = j
      /\ \A d \in 1..j : SubSeq(t, 1, j)[d] = t[d]
  <2>1. j \in 0..Len(t)
    BY <1>1
  <2> QED
    BY <1>1, <2>1, PrefixOf
<1>4. SubSeq(t, 1, j) = SubSeq(r, 1, j)
  BY <1>1, <1>2, <1>3, SeqEqual
<1> QED
  BY <1>4 DEF t

\* The longest of finitely many sequences.
LEMMA LongestExists ==
  ASSUME NEW way \in SUBSET Seq(Bits), IsFiniteSet(way), way # {}
  PROVE  Longest(way) \in way /\ \A t \in way : Len(t) <= Len(Longest(way))
<1> DEFINE Bound == {k \in Nat : \A t \in way : Len(t) <= k}
<1>1. \A t \in way : Len(t) \in Nat
  OBVIOUS
<1>2. Bound # {}
  <2> DEFINE n == Cardinality(way)
  <2>1. PICK f : f \in Bijection(1..n, way) /\ n \in Nat
    BY FS_CardinalityType DEF ExistsBijection
  <2>2. f \in [1..n -> way] /\ \A t \in way : \E i \in 1..n : f[i] = t
    BY <2>1 DEF Bijection, Surjection, Injection
  <2> HIDE DEF n
  <2> DEFINE Bounded(j) ==
               j <= n => \E k \in Nat : \A i \in 1..j : Len(f[i]) <= k
             S == {j \in Nat : Bounded(j)}
  <2>3. 0 \in S
    OBVIOUS
  <2>8. ASSUME NEW j \in Nat, Bounded(j)
        PROVE  Bounded(j + 1)
    <3> SUFFICES ASSUME j + 1 <= n
                 PROVE  \E k \in Nat : \A i \in 1..(j + 1) : Len(f[i]) <= k
      OBVIOUS
    <3>1. PICK k \in Nat : \A i \in 1..j : Len(f[i]) <= k
      BY <2>1, <2>8
    <3>2. Len(f[j + 1]) \in Nat
      BY <2>1, <2>2, <1>1
    <3> DEFINE m == k + Len(f[j + 1])
    <3>3. m \in Nat
      BY <3>2
    <3>4. ASSUME NEW i \in 1..(j + 1)
          PROVE  Len(f[i]) <= m
      <4>1. CASE i = j + 1
        BY <3>2, <4>1
      <4>2. CASE i # j + 1
        <5>1. i \in 1..j /\ i \in 1..n
          BY <4>2, <2>1
        <5>2. Len(f[i]) <= k /\ Len(f[i]) \in Nat
          BY <5>1, <3>1, <2>2, <1>1
        <5> QED
          BY <5>2, <3>2
      <4> QED
        BY <4>1, <4>2
    <3> QED
      BY <3>3, <3>4
  <2>5. \A j \in Nat : j \in S => j + 1 \in S
    <3> HIDE DEF Bounded
    <3> QED
      BY <2>8
  <2> HIDE DEF S
  <2>6. n \in S
    BY <2>1, <2>3, <2>5, NatIsInductive
  <2>7. PICK k \in Nat : \A i \in 1..n : Len(f[i]) <= k
    BY <2>1, <2>6 DEF S
  <2> QED
    BY <2>2, <2>7
<1>3. PICK k \in Bound : \A j \in Bound : k <= j
  <2>1. Bound \in SUBSET Nat
    OBVIOUS
  <2> HIDE DEF Bound
  <2> QED
    BY <1>2, <2>1, HasSmallest
<1>4. k \in Nat /\ \A t \in way : Len(t) <= k
  BY <1>3
<1>6. PICK t0 \in way : TRUE
  OBVIOUS
<1>5. \E t \in way : Len(t) = k
  <2> SUFFICES ASSUME \A t \in way : Len(t) # k
               PROVE  FALSE
    OBVIOUS
  <2>1. \A t \in way : Len(t) <= k - 1 /\ k - 1 \in Nat
    BY <1>1, <1>4
  <2>2. k - 1 \in Nat
    BY <2>1, <1>6
  <2>3. k - 1 \in Bound
    BY <2>1, <2>2
  <2>4. k <= k - 1
    BY <1>3, <2>3
  <2> QED
    BY <1>4, <2>4
<1>7. \E r \in way : \A t \in way : Len(t) <= Len(r)
  BY <1>4, <1>5
<1> QED
  BY <1>7 DEF Longest

\* The rightmost leaf is a leaf.
LEMMA LeafBelow ==
  ASSUME NEW trie, IsTrie(trie), NEW q \in DOMAIN trie
  PROVE  LET leaf == RightmostLeaf(trie, q)
         IN  /\ leaf \in DOMAIN trie
             /\ Len(q) \in 0..Len(leaf) /\ SubSeq(leaf, 1, Len(q)) = q
             /\ \A r \in DOMAIN trie : \A k \in 0..Len(r) :
                  SubSeq(r, 1, k) = leaf => r = leaf
<1> DEFINE nodes == DOMAIN trie
           way == Way(trie, q, 1)
           leaf == RightmostLeaf(trie, q)
           n == Len(leaf)
<1>1. nodes \subseteq Seq(Bits) /\ IsFiniteSet(nodes)
  BY DEF IsTrie
<1>2. way \in SUBSET Seq(Bits) /\ IsFiniteSet(way) /\ way \subseteq nodes
  <2>1. way \in SUBSET nodes
    BY DEF Way
  <2> QED
    BY <1>1, <2>1, FS_Subset
<1>3. q \in way
  <2>1. q \in Seq(Bits) /\ Len(q) \in Nat
    BY <1>1
  <2>2. SubSeq(q, 1, Len(q)) = q
    BY <2>1, SubSeqFull
  <2>3. (Len(q) + 1)..Len(q) = {} /\ Len(q) <= Len(q)
    BY <2>1
  <2> QED
    BY <2>2, <2>3 DEF Way, OnTheWay
<1>4. leaf \in way /\ \A t \in way : Len(t) <= n
  <2> HIDE DEF way
  <2>1. Longest(way) \in way /\ \A t \in way : Len(t) <= Len(Longest(way))
    BY <1>2, <1>3, LongestExists
  <2> QED
    BY <2>1 DEF RightmostLeaf, way
<1>5. leaf \in nodes /\ leaf \in Seq(Bits) /\ n \in Nat
  BY <1>1, <1>2, <1>4
<1>6. /\ Len(q) <= n /\ SubSeq(leaf, 1, Len(q)) = q /\ Len(q) \in Nat
      /\ \A d \in (Len(q) + 1)..n :
           leaf[d] = 1 \/ Append(SubSeq(leaf, 1, d - 1), 1) \notin nodes
  BY <1>1, <1>4 DEF Way, OnTheWay
<1> HIDE DEF leaf, way, nodes
\* A child of the leaf would be on the way, too.
<1>7. ASSUME NEW bit \in Bits, Append(leaf, bit) \in nodes,
             bit = 1 \/ Append(leaf, 1) \notin nodes
      PROVE  FALSE
  <2> DEFINE child == Append(leaf, bit)
  <2>1. /\ child \in Seq(Bits) /\ Len(child) = n + 1
        /\ \A d \in 1..n : child[d] = leaf[d]
        /\ child[n + 1] = bit
    BY <1>5, AppendProperties
  <2> HIDE DEF child
  <2>2. \A k \in 0..n : SubSeq(child, 1, k) = SubSeq(leaf, 1, k)
    <3> SUFFICES ASSUME NEW k \in 0..n
                 PROVE  SubSeq(child, 1, k) = SubSeq(leaf, 1, k)
      OBVIOUS
    <3>1. k \in 0..Len(child) /\ k \in 0..Len(leaf)
      BY <2>1, <1>5
    <3>2. /\ SubSeq(child, 1, k) \in Seq(Bits) /\ Len(SubSeq(child, 1, k)) = k
          /\ \A d \in 1..k : SubSeq(child, 1, k)[d] = child[d]
      BY <2>1, <3>1, PrefixOf
    <3>3. /\ SubSeq(leaf, 1, k) \in Seq(Bits) /\ Len(SubSeq(leaf, 1, k)) = k
          /\ \A d \in 1..k : SubSeq(leaf, 1, k)[d] = leaf[d]
      BY <1>5, <3>1, PrefixOf
    <3>4. \A d \in 1..k : child[d] = leaf[d]
      BY <2>1, <1>5
    <3> QED
      BY <3>2, <3>3, <3>4, SeqEqual
  <2>3. SubSeq(leaf, 1, n) = leaf
    BY <1>5, SubSeqFull
  <2>4. ASSUME NEW d \in (Len(q) + 1)..(n + 1)
        PROVE  child[d] = 1 \/ Append(SubSeq(child, 1, d - 1), 1) \notin nodes
    <3>1. d \in Nat /\ d - 1 \in 0..n
      BY <1>5, <1>6
    <3>2. CASE d = n + 1
      <4>1. d - 1 = n /\ n \in 0..n
        BY <3>2, <1>5
      <4>2. SubSeq(child, 1, d - 1) = leaf /\ child[d] = bit
        BY <4>1, <2>1, <2>2, <2>3, <3>2
      <4> QED
        BY <1>7, <4>2
    <3>3. CASE d # n + 1
      <4>1. d \in 1..n /\ d \in (Len(q) + 1)..n
        BY <1>5, <1>6, <3>3
      <4> QED
        <5>1. SubSeq(child, 1, d - 1) = SubSeq(leaf, 1, d - 1)
          BY <2>2, <3>1
        <5>2. child[d] = leaf[d]
          BY <2>1, <4>1
        <5> QED
          BY <1>6, <4>1, <5>1, <5>2
    <3> QED
      BY <3>2, <3>3
  <2>5. /\ Len(q) <= Len(child) /\ SubSeq(child, 1, Len(q)) = q
    BY <1>5, <1>6, <2>1, <2>2
  <2>6. child \in way
    BY <1>7, <2>1, <2>4, <2>5 DEF way, Way, OnTheWay, child, nodes
  <2> QED
    BY <1>4, <1>5, <2>1, <2>6
<1>8. ASSUME NEW r \in nodes, NEW k \in 0..Len(r), SubSeq(r, 1, k) = leaf
      PROVE  r = leaf
  <2>1. r \in Seq(Bits) /\ Len(r) \in Nat
    BY <1>1
  <2>2. k = n /\ (k = Len(r) => SubSeq(r, 1, k) = r)
    BY <1>8, <2>1, PrefixOf
  <2>3. CASE k = Len(r)
    BY <1>8, <2>2, <2>3
  <2>4. CASE k # Len(r)
    <3> DEFINE child == SubSeq(r, 1, k + 1)
    <3>1. k + 1 \in 0..Len(r) /\ k \in 0..(k + 1)
      BY <2>1, <2>4
    <3>2. child \in nodes
      BY <3>1 DEF IsTrie, nodes
    <3>3. child \in Seq(Bits) /\ Len(child) = n + 1
      BY <2>1, <2>2, <3>1, PrefixOf
    <3>4. SubSeq(child, 1, n) = leaf
      BY <1>8, <2>1, <2>2, <3>1, PrefixOfPrefix
    <3> HIDE DEF child
    <3>5. child = Append(leaf, child[n + 1]) /\ child[n + 1] \in Bits
      <4>1. child[n + 1] \in Bits
        BY <3>3, <1>5
      <4>2. n \in 0..Len(child)
        BY <3>3, <1>5
      <4>3. \A d \in 1..n : leaf[d] = child[d]
        BY <3>3, <3>4, <4>2, PrefixOf
      <4>4. /\ Append(leaf, child[n + 1]) \in Seq(Bits)
            /\ Len(Append(leaf, child[n + 1])) = n + 1
            /\ \A d \in 1..n : Append(leaf, child[n + 1])[d] = leaf[d]
            /\ Append(leaf, child[n + 1])[n + 1] = child[n + 1]
        BY <1>5, <4>1, AppendProperties
      <4>5. \A d \in 1..(n + 1) : d \in 1..n \/ d = n + 1
        BY <1>5
      <4> QED
        BY <1>5, <3>3, <4>1, <4>3, <4>4, <4>5, SeqEqual
    <3>6. Append(leaf, 0) \in nodes \/ Append(leaf, 1) \in nodes
      BY <3>2, <3>5 DEF Bits
    <3> QED
      BY <1>7, <3>6 DEF Bits
  <2> QED
    BY <2>3, <2>4
<1> QED
  BY <1>5, <1>6, <1>8 DEF leaf, nodes

\* A ring that is not longer than one is the chunk alone.
LEMMA OnlyMember ==
  ASSUME NEW ring \in Seq(Nat), ring # <<>>, ~(Len(ring) > 1),
         NEW x \in Range(ring)
  PROVE  ring = <<x>> /\ Range(ring) = {x}
<1>1. Len(ring) = 1 /\ DOMAIN ring = 1..1 /\ ring[1] \in Nat
  OBVIOUS
<1>2. x = ring[1]
  BY <1>1 DEF Range
<1>3. ring = <<x>>
  BY <1>1, <1>2, SeqEqual, SingleRing
<1> QED
  BY <1>1, <1>2, <1>3, SingleRing

\* Removal leaves every other chunk where its size belongs: a ring of others
\* takes the place of one that has lost its last chunk.
THEOREM UnlinkedIsHeld ==
  ASSUME NEW w, NEW trie, NEW i, NEW c, Holds(w, trie, i, c), NEW x \in c
  PROVE  /\ Holds(w, UnlinkedTrie(trie, x), i, c \ {x})
         /\ IsLast(trie, x) <=> c \ {x} = {}
<1> DEFINE nodes == DOMAIN trie
           q == CHOOSE r \in nodes : x \in Range(trie[r])
           leaf == Replacement(trie, q)
           new == UnlinkedTrie(trie, x)
<1>1. q \in nodes /\ x \in Range(trie[q])
  BY DEF Holds
<1> HIDE DEF q
<1>2. IsTrie(trie) /\ nodes \subseteq Seq(Bits) /\ IsFiniteSet(nodes)
  BY DEF Holds, IsTrie
<1>3. \A r \in nodes : /\ trie[r] \in Seq(Nat) /\ trie[r] # <<>>
                       /\ IsInjective(trie[r])
                       /\ r # q => x \notin Range(trie[r])
  <2> SUFFICES ASSUME NEW r \in nodes
               PROVE  /\ trie[r] \in Seq(Nat) /\ trie[r] # <<>>
                      /\ IsInjective(trie[r])
                      /\ r # q => x \notin Range(trie[r])
    OBVIOUS
  <2>1. trie[r] \in Seq(Nat)
    BY <1>2 DEF IsTrie
  <2>2. trie[r] # <<>> /\ IsInjective(trie[r])
    BY DEF Holds
  <2>3. r # q => x \notin Range(trie[r])
    BY <1>1 DEF Holds
  <2> QED
    BY <2>1, <2>2, <2>3
<1>4. new = UnlinkedAt(trie, q, x)
  BY DEF UnlinkedTrie, q
<1>5. ASSUME Len(trie[q]) > 1
      PROVE  Holds(w, new, i, c \ {x})
  <2> DEFINE ring == RingWithout(trie[q], x)
  <2>1. /\ ring \in Seq(Nat) /\ ring # <<>> /\ IsInjective(ring)
        /\ Range(ring) = Range(trie[q]) \ {x}
    BY <1>1, <1>3, <1>5, RingLosesOne
  <2>2. /\ DOMAIN new = nodes /\ new[q] = ring
        /\ \A r \in nodes : r # q => new[r] = trie[r]
        /\ new = [r \in nodes |-> new[r]]
    BY <1>1, <1>4, <1>5 DEF UnlinkedAt, Stored
  <2> HIDE DEF ring, new
  <2>3. \A r \in nodes : Range(new[r]) = Range(trie[r]) \ {x}
    BY <1>3, <2>1, <2>2
  <2>4. IsTrie(new)
    <3>1. \A r \in nodes : new[r] \in Seq(Nat)
      BY <1>3, <2>1, <2>2
    <3>2. new \in [DOMAIN new -> Seq(Nat)]
      BY <2>2, <3>1
    <3> QED
      BY <1>2, <2>2, <3>2 DEF IsTrie
  <2>5. ASSUME NEW r \in nodes
        PROVE  /\ new[r] # <<>> /\ IsInjective(new[r])
               /\ \A p \in Range(new[r]) :
                    p \in c \ {x} /\ r = PathOf(Size(w, p), i, Len(r))
    <3>1. new[r] # <<>> /\ IsInjective(new[r])
      BY <1>3, <2>1, <2>2
    <3> QED
      BY <2>3, <3>1 DEF Holds
  <2>6. ASSUME NEW r \in nodes, NEW t \in nodes,
               NEW p \in Range(new[r]), NEW y \in Range(new[t])
        PROVE  Size(w, p) = Size(w, y) <=> r = t
    BY <2>3 DEF Holds
  <2>7. \A p \in c \ {x} : \E r \in nodes : p \in Range(new[r])
    BY <2>3 DEF Holds
  <2>8. \A r \in DOMAIN new :
         /\ new[r] # <<>> /\ IsInjective(new[r])
         /\ \A p \in Range(new[r]) :
              p \in c \ {x} /\ r = PathOf(Size(w, p), i, Len(r))
    BY <2>2, <2>5
  <2>9. \A r, t \in DOMAIN new : \A p \in Range(new[r]), y \in Range(new[t]) :
         Size(w, p) = Size(w, y) <=> r = t
    BY <2>2, <2>6
  <2>10. \A p \in c \ {x} : \E r \in DOMAIN new : p \in Range(new[r])
    BY <2>2, <2>7
  <2>11. Holds(w, new, i, c \ {x})
    BY <2>4, <2>8, <2>9, <2>10 DEF Holds
  <2> QED
    BY <2>11 DEF new
<1>6. ASSUME ~(Len(trie[q]) > 1)
      PROVE  Holds(w, new, i, c \ {x})
  <2>1. Range(trie[q]) = {x}
    BY <1>1, <1>3, <1>6, OnlyMember
  <2>2. /\ leaf \in nodes
        /\ Len(q) \in 0..Len(leaf) /\ SubSeq(leaf, 1, Len(q)) = q
        /\ \A r \in nodes : \A k \in 0..Len(r) : SubSeq(r, 1, k) = leaf => r = leaf
    BY <1>1, <1>2, LeafBelow DEF Replacement
  <2>3. new = ReplacedBy(trie, q, leaf)
    BY <1>4, <1>6 DEF UnlinkedAt
  <2> HIDE DEF leaf, new
  <2> DEFINE Source(r) == IF r = q THEN leaf ELSE r
             rest == nodes \ {leaf}
  <2>4. DOMAIN new = rest /\ new = [r \in rest |-> new[r]]
        /\ \A r \in rest : new[r] = trie[Source(r)]
    <3>1. CASE leaf = q
      <4>1. new = [r \in nodes \ {q} |-> trie[r]]
        BY <2>3, <3>1 DEF ReplacedBy, Cut
      <4> QED
        BY <4>1, <3>1
    <3>2. CASE leaf # q
      <4>1. new = [r \in (nodes \cup {q}) \ {leaf} |->
                     [t \in nodes \cup {q} |-> IF t = q THEN trie[leaf] ELSE trie[t]][r]]
        BY <2>3, <3>2 DEF ReplacedBy, Cut, Stored
      <4>2. nodes \cup {q} = nodes
        BY <1>1
      <4> QED
        BY <4>1, <4>2, <3>2
    <3> QED
      BY <3>1, <3>2
  <2>5. \A r \in rest : /\ Source(r) \in nodes /\ Source(r) # q
                        /\ r \in nodes
    BY <2>2
  <2>6. \A r, t \in rest : Source(r) = Source(t) => r = t
    OBVIOUS
  <2>7. \A r \in nodes : r # q => \E t \in rest : Source(t) = r
    <3> SUFFICES ASSUME NEW r \in nodes, r # q
                 PROVE  \E t \in rest : Source(t) = r
      OBVIOUS
    <3>1. CASE r = leaf
      <4>1. q \in rest /\ Source(q) = r
        BY <1>1, <3>1
      <4> QED
        BY <4>1
    <3>2. CASE r # leaf
      <4>1. r \in rest /\ Source(r) = r
        BY <3>2
      <4> QED
        BY <4>1
    <3> QED
      BY <3>1, <3>2
  \* What is at the leaf belongs on every path to it.
  <2>8. ASSUME NEW r \in rest, NEW p \in Range(new[r])
        PROVE  p \in c \ {x} /\ r = PathOf(Size(w, p), i, Len(r))
    <3>1. p \in Range(trie[Source(r)]) /\ Source(r) \in nodes /\ Source(r) # q
      BY <2>4, <2>5
    <3>2. p \in c /\ Source(r) = PathOf(Size(w, p), i, Len(Source(r)))
      BY <3>1 DEF Holds
    <3>3. p # x
      BY <1>3, <3>1
    <3>4. CASE r # q
      BY <3>2, <3>3, <3>4
    <3>5. CASE r = q
      <4>1. leaf = PathOf(Size(w, p), i, Len(leaf)) /\ Len(leaf) \in Nat
        BY <1>2, <2>2, <3>2, <3>5
      <4> DEFINE n == Len(leaf)
                 m == Len(q)
                 Child(d) == ChildOf(Size(w, p), i, d - 1)
      <4>2. leaf = [d \in 1..n |-> Child(d)] /\ m \in 0..n /\ n \in Nat /\ m \in Nat
        <5>1. leaf = [d \in 1..n |-> Child(d)]
          BY <4>1 DEF PathOf
        <5>2. m \in 0..n /\ n \in Nat
          BY <4>1, <2>2
        <5> QED
          BY <5>1, <5>2
      <4>3. q \in Seq(Bits) /\ leaf \in Seq(Bits)
        BY <1>1, <1>2, <2>2
      <4>4. \A d \in 1..m : q[d] = leaf[d]
        BY <2>2, <4>3, PrefixOf
      <4>5. DOMAIN q = 1..m /\ q = [d \in 1..m |-> q[d]]
        BY <4>3
      <4> HIDE DEF Child, n, m
      <4>6. \A d \in 1..m : leaf[d] = Child(d)
        BY <4>2
      <4>7. q = [d \in 1..m |-> Child(d)]
        BY <4>4, <4>5, <4>6
      <4>8. q = PathOf(Size(w, p), i, m)
        BY <4>7 DEF PathOf, Child
      <4> QED
        BY <3>2, <3>3, <3>5, <4>8 DEF m
    <3> QED
      BY <3>4, <3>5
  <2>9. IsTrie(new)
    <3>1. DOMAIN new \subseteq Seq(Bits) /\ IsFiniteSet(DOMAIN new)
      BY <1>2, <2>4, FS_RemoveElement
    <3>2. new \in [DOMAIN new -> Seq(Nat)]
      BY <1>3, <2>4, <2>5
    <3>3. ASSUME NEW r \in rest, NEW k \in 0..Len(r)
          PROVE  SubSeq(r, 1, k) \in rest
      <4>1. SubSeq(r, 1, k) \in nodes
        BY <1>2, <2>5 DEF IsTrie
      <4>2. SubSeq(r, 1, k) # leaf
        BY <2>2, <2>5
      <4> QED
        BY <4>1, <4>2
    <3> QED
      BY <3>1, <3>2, <3>3, <2>4 DEF IsTrie
  <2>10. ASSUME NEW r \in rest
         PROVE  new[r] # <<>> /\ IsInjective(new[r])
    BY <1>3, <2>4, <2>5
  <2>11. ASSUME NEW r \in rest, NEW t \in rest,
                NEW p \in Range(new[r]), NEW y \in Range(new[t])
         PROVE  Size(w, p) = Size(w, y) <=> r = t
    <3>1. /\ Source(r) \in nodes /\ p \in Range(trie[Source(r)])
          /\ Source(t) \in nodes /\ y \in Range(trie[Source(t)])
      BY <2>4, <2>5
    <3>2. Size(w, p) = Size(w, y) <=> Source(r) = Source(t)
      BY <3>1 DEF Holds
    <3> QED
      BY <3>2, <2>6
  <2>12. ASSUME NEW p \in c \ {x}
         PROVE  \E r \in rest : p \in Range(new[r])
    <3>1. PICK r \in nodes : p \in Range(trie[r])
      BY DEF Holds
    <3>2. r # q
      BY <2>1, <3>1
    <3>3. PICK t \in rest : Source(t) = r
      BY <2>7, <3>2
    <3> QED
      BY <2>4, <3>1, <3>3
  <2> HIDE DEF Source
  <2>13. \A r \in DOMAIN new :
         /\ new[r] # <<>> /\ IsInjective(new[r])
         /\ \A p \in Range(new[r]) :
              p \in c \ {x} /\ r = PathOf(Size(w, p), i, Len(r))
    BY <2>4, <2>8, <2>10
  <2>14. \A r, t \in DOMAIN new : \A p \in Range(new[r]), y \in Range(new[t]) :
         Size(w, p) = Size(w, y) <=> r = t
    BY <2>4, <2>11
  <2>15. \A p \in c \ {x} : \E r \in DOMAIN new : p \in Range(new[r])
    BY <2>4, <2>12
  <2>16. Holds(w, new, i, c \ {x})
    BY <2>9, <2>13, <2>14, <2>15 DEF Holds
  <2> QED
    BY <2>16 DEF new
<1>7. IsLast(trie, x) => c \ {x} = {}
  <2> SUFFICES ASSUME IsLast(trie, x), NEW p \in c
               PROVE  p = x
    OBVIOUS
  <2>1. PICK r \in nodes : p \in Range(trie[r])
    BY DEF Holds
  <2>2. trie[r] = <<x>>
    BY <2>1 DEF IsLast
  <2>3. Range(<<x>>) = {x}
    <3>1. DOMAIN <<x>> = {1} /\ <<x>>[1] = x
      OBVIOUS
    <3> QED
      BY <3>1 DEF Range
  <2> QED
    BY <2>1, <2>2, <2>3
<1>8. c \ {x} = {} => IsLast(trie, x)
  <2> SUFFICES ASSUME c \ {x} = {}
               PROVE  IsLast(trie, x)
    OBVIOUS
  <2>1. \A r \in nodes : r = q
    <3> SUFFICES ASSUME NEW r \in nodes, r # q PROVE FALSE
      OBVIOUS
    <3>1. trie[r] \in Seq(Nat) /\ trie[r] # <<>> /\ x \notin Range(trie[r])
      BY <1>3
    <3>2. Head(trie[r]) \in Range(trie[r])
      BY <3>1, HeadIsAMember
    <3> QED
      BY <3>1, <3>2 DEF Holds
  <2>2. SubSeq(q, 1, 0) \in nodes
    <3>1. q \in Seq(Bits) /\ 0 \in 0..Len(q)
      BY <1>1, <1>2
    <3> QED
      BY <1>1, <1>2, <3>1 DEF IsTrie
  <2>3. SubSeq(q, 1, 0) = <<>>
    BY SubSeqEmpty
  <2>4. nodes = {<<>>} /\ q = <<>>
    BY <2>1, <2>2, <2>3, <1>1
  <2>5. ~(Len(trie[q]) > 1)
    <3> SUFFICES ASSUME Len(trie[q]) > 1 PROVE FALSE
      OBVIOUS
    <3>1. trie[q] \in Seq(Nat) /\ IsInjective(trie[q])
      BY <1>1, <1>3
    <3>2. 1 \in DOMAIN trie[q] /\ 2 \in DOMAIN trie[q] /\ trie[q][1] # trie[q][2]
      BY <3>1 DEF IsInjective
    <3>3. trie[q][1] \in Range(trie[q]) /\ trie[q][2] \in Range(trie[q])
      BY <3>2 DEF Range
    <3>4. trie[q][1] \in c /\ trie[q][2] \in c
      BY <1>1, <3>3 DEF Holds
    <3> QED
      BY <3>2, <3>4
  <2>6. trie[q] = <<x>>
    BY <1>1, <1>3, <2>5, OnlyMember
  <2> QED
    BY <2>4, <2>6 DEF IsLast
<1> QED
  BY <1>5, <1>6, <1>7, <1>8

------------------------------------------------------------------------------
(* Words and chunks.                                                        *)

\* What a word is, and the words of memory.
Kinds == {"head", "foot", "link", "data", "junk"}
Words == [is : Kinds, size : Nat, bits : SUBSET InuseBits]
\* The two bits of a head: its own chunk is in use, and the one before it is.
Used(w, p) == "cinuse" \in w[p + 1].bits
PrevUsed(w, p) == "pinuse" \in w[p + 1].bits

\* The chunk p ends before the next one, where both say the same about it.
Ends(w, p, next, end) ==
  /\ w[p + 1].is = "head" /\ Size(w, p) \in Nat
  /\ p + Size(w, p) = next
  /\ next # end => Size(w, p) >= MinChunkSize
  /\ Used(w, p) = PrevUsed(w, next)
  /\ ~Used(w, p) /\ next # end => w[next] = Foot(Size(w, p)) /\ Used(w, next)

\* The chunks t, of which one ends where the next begins, cover all words up
\* to the end.
Tiled(w, t, end) ==
  /\ end \in Nat /\ 0..(end + 1) \subseteq DOMAIN w
  /\ t \in SUBSET (0..(end - 1)) /\ 0 \in t
  /\ Used(w, 0) /\ PrevUsed(w, 0)
  /\ \A p \in t : \E next \in t \cup {end} : p < next /\ Ends(w, p, next, end)
  /\ \A p, q \in t : p < q => p + Size(w, p) <= q
  /\ \A q \in t : q # 0 => \E p \in t : p + Size(w, p) = q

\* The same chunk, with its words, those its owner may write.
Kept(w, x, p) ==
  /\ Size(x, p) = Size(w, p) /\ Used(x, p) = Used(w, p)
  /\ \A a \in p + 2 .. p + Size(w, p) : x[a] = w[a]

\* Nothing changes but the words of the chunks from a up to b, and what b
\* says about the one before.
ChangedWithin(w, x, a, b) ==
  /\ DOMAIN x = DOMAIN w
  /\ \A i \in DOMAIN w : i \notin a + 1 .. b + 1 => x[i] = w[i]
  /\ x[b + 1].is = w[b + 1].is /\ x[b + 1].size = w[b + 1].size
  /\ Used(x, b) = Used(w, b)
  /\ PrevUsed(x, a) = PrevUsed(w, a)

\* Chunks d tile what is between a and b.
TiledBetween(x, d, a, b, end) ==
  /\ d \in SUBSET (a..(b - 1)) /\ a \in d
  /\ \A p \in d : \E next \in d \cup {b} : p < next /\ Ends(x, p, next, end)
  /\ \A p, q \in d : p < q => p + Size(x, p) <= q
  /\ \A q \in d \cup {b} : q # a => \E p \in d : p + Size(x, p) = q

\* The chunks between a and b are replaced by d.
Replaced(t, a, b, d) == (t \ (a..(b - 1))) \cup d

\* The chunk after one of a tiling is in the tiling, or its end.
LEMMA NextOf ==
  ASSUME NEW w, NEW t, NEW end, Tiled(w, t, end), NEW p \in t
  PROVE  /\ p \in Nat /\ end \in Nat /\ p < end
         /\ Size(w, p) \in Nat \ {0}
         /\ p + Size(w, p) \in t \cup {end}
         /\ p + Size(w, p) <= end
         /\ \A i \in 0..(end + 1) : i \in DOMAIN w
         /\ Ends(w, p, p + Size(w, p), end)
<1>1. p \in Nat /\ end \in Nat /\ p < end /\ t \subseteq Nat
      /\ \A q \in t : q < end
  BY DEF Tiled
<1>2. PICK next \in t \cup {end} : p < next /\ Ends(w, p, next, end)
  BY DEF Tiled
<1>3. next \in Nat /\ next <= end
  BY <1>1, <1>2
<1>4. p + Size(w, p) = next /\ Size(w, p) \in Nat
  BY <1>2 DEF Ends
<1>5. Size(w, p) # 0 /\ \A i \in 0..(end + 1) : i \in DOMAIN w
  BY <1>1, <1>2, <1>4 DEF Tiled
<1> QED
  BY <1>1, <1>2, <1>3, <1>4, <1>5

\* Chunks outside of what changes keep their size and words.
LEMMA OthersAreKept ==
  ASSUME NEW w, NEW t, NEW end, Tiled(w, t, end),
         NEW a \in t, NEW b \in t \cup {end}, a < b,
         NEW x, ChangedWithin(w, x, a, b), NEW p \in t, p \notin a..(b - 1)
  PROVE  Kept(w, x, p)
<1>1. a \in Nat /\ b \in Nat /\ p \in Nat
  BY DEF Tiled
<1>2. p < a => p + Size(w, p) <= a
  BY DEF Tiled
<1>3. CASE p < a
  BY <1>1, <1>2, <1>3, NextOf DEF ChangedWithin, Kept, Size, Used
<1>4. CASE p = b
  <2>1. Size(w, p) \in Nat /\ \A i \in p + 2 .. p + Size(w, p) : i \in DOMAIN w
    <3>1. /\ Size(w, p) \in Nat /\ p + Size(w, p) <= end
          /\ \A i \in 0..(end + 1) : i \in DOMAIN w
      BY NextOf
    <3> QED
      BY <1>1, <3>1, end \in Nat DEF Tiled
  <2> QED
    BY <1>1, <1>4, <2>1 DEF ChangedWithin, Kept, Size, Used
<1>5. CASE p > b
  <2>1. Size(w, p) \in Nat /\ \A i \in p + 2 .. p + Size(w, p) : i \in DOMAIN w
    <3>1. /\ Size(w, p) \in Nat /\ p + Size(w, p) <= end
          /\ \A i \in 0..(end + 1) : i \in DOMAIN w
      BY NextOf
    <3> QED
      BY <1>1, <3>1, end \in Nat DEF Tiled
  <2>2. x[p + 1] = w[p + 1]
    BY <1>1, <1>5, NextOf DEF ChangedWithin
  <2>3. \A i \in p + 2 .. p + Size(w, p) : x[i] = w[i]
    BY <1>1, <1>5, <2>1 DEF ChangedWithin
  <2> QED
    BY <2>2, <2>3 DEF Kept, Size, Used
<1> QED
  BY <1>1, <1>3, <1>4, <1>5

\* Chunks may be replaced by others, if one that is free does not come after
\* one that is free.
LEMMA TilingChanges ==
  ASSUME NEW w, NEW t, NEW end, Tiled(w, t, end),
         NEW a \in t, NEW b \in t \cup {end}, a < b,
         NEW x, ChangedWithin(w, x, a, b),
         NEW d, TiledBetween(x, d, a, b, end),
         PrevUsed(w, a) \/ Used(x, a), a = 0 => Used(x, a)
  PROVE  /\ Tiled(x, Replaced(t, a, b, d), end)
         /\ \A p \in t \ (a..(b - 1)) : Kept(w, x, p)
<1> DEFINE new == Replaced(t, a, b, d)
<1>1. /\ a \in Nat /\ b \in Nat /\ end \in Nat /\ a < end /\ b <= end
      /\ \A p \in t : p \in Nat /\ p < end
      /\ \A i \in 0..(end + 1) : i \in DOMAIN w /\ i \in DOMAIN x
  BY DEF Tiled, ChangedWithin
<1>2. \A p \in t \ (a..(b - 1)) : Kept(w, x, p)
  BY OthersAreKept
<1>3. \A p \in d : p \in Nat /\ a <= p /\ p < b
  BY <1>1 DEF TiledBetween
<1>4. new \in SUBSET (0..(end - 1)) /\ 0 \in new /\ a \in new
  <2>1. \A p \in new : p \in Nat /\ p < end
    BY <1>1, <1>3 DEF Replaced
  <2>2. 0 \in new /\ a \in new
    BY <1>1 DEF Replaced, Tiled, TiledBetween
  <2> QED
    BY <2>1, <2>2, <1>1
<1>5. \A p \in t \ (a..(b - 1)) : (p < a /\ p + Size(w, p) <= a) \/ p >= b
  BY <1>1 DEF Tiled
<1>6. ASSUME NEW p \in new
      PROVE  \E next \in new \cup {end} : p < next /\ Ends(x, p, next, end)
  <2>1. CASE p \in d
    <3>1. PICK next \in d \cup {b} : p < next /\ Ends(x, p, next, end)
      BY <2>1 DEF TiledBetween
    <3>2. next \in new \cup {end}
      BY <3>1, <1>1 DEF Replaced
    <3> QED
      BY <3>1, <3>2
  <2>2. CASE p \in t \ (a..(b - 1))
    <3> DEFINE next == p + Size(w, p)
    <3>1. /\ next \in t \cup {end} /\ next \in Nat /\ p \in Nat /\ p < next
          /\ next <= end /\ Ends(w, p, next, end)
      BY <2>2, NextOf
    <3>2. Size(x, p) = Size(w, p) /\ Used(x, p) = Used(w, p)
      BY <1>2, <2>2 DEF Kept
    <3>3. CASE p < a
      <4>1. next <= a
        BY <2>2, <3>3, <1>1, <1>5
      <4>2. x[next] = w[next]
        BY <1>1, <3>1, <4>1 DEF ChangedWithin
      <4>3. x[p + 1] = w[p + 1]
        BY <1>1, <3>1, <3>3 DEF ChangedWithin
      <4>4. CASE next = a
        BY <1>1, <1>4, <3>1, <3>2, <4>2, <4>3, <4>4
           DEF Ends, ChangedWithin
      <4>5. CASE next < a
        <5>1. x[next + 1] = w[next + 1]
          BY <1>1, <3>1, <4>5 DEF ChangedWithin
        <5>2. next \in new
          BY <1>1, <3>1, <4>5 DEF Replaced
        <5> QED
          BY <3>1, <3>2, <4>2, <4>3, <5>1, <5>2, <1>1, <4>5
             DEF Ends, Used, PrevUsed, Size
      <4> QED
        BY <4>1, <4>4, <4>5, <1>1, <3>1
    <3>4. CASE p >= b
      <4>1. next > b /\ next \in new \cup {end}
        BY <3>1, <3>4, <1>1 DEF Replaced
      <4>2. x[next + 1] = w[next + 1]
        BY <1>1, <3>1, <4>1 DEF ChangedWithin
      <4>3. next # end => next > b + 1 /\ x[next] = w[next]
        <5>1. next # end => next >= p + MinChunkSize
          BY <3>1 DEF Ends, MinChunkSize
        <5>2. next # end => next \in Nat /\ next > b + 1 /\ next \in DOMAIN w
          BY <1>1, <3>1, <3>4, <5>1 DEF MinChunkSize
        <5> QED
          BY <1>1, <5>2 DEF ChangedWithin
      <4>4. x[p + 1].is = w[p + 1].is
        BY <1>1, <3>1, <3>4 DEF ChangedWithin
      <4> QED
        BY <3>1, <3>2, <4>1, <4>2, <4>3, <4>4 DEF Ends, Used, PrevUsed, Size
    <3> QED
      BY <1>1, <1>5, <2>2, <3>1, <3>3, <3>4
  <2> QED
    BY <2>1, <2>2 DEF Replaced
<1>7. ASSUME NEW p \in new, NEW q \in new, p < q
      PROVE  p + Size(x, p) <= q
  <2>1. CASE p \in d
    <3>1. PICK next \in d \cup {b} : p < next /\ Ends(x, p, next, end)
      BY <2>1 DEF TiledBetween
    <3>2. p + Size(x, p) <= b
      BY <3>1, <1>1, <1>3 DEF Ends
    <3>3. CASE q \in d
      BY <2>1, <3>3, <1>7 DEF TiledBetween
    <3>4. CASE q \in t \ (a..(b - 1))
      <4>1. q >= b
        BY <3>4, <1>1, <1>3, <1>7, <2>1
      <4>2. q \in Nat /\ p \in Nat /\ p + Size(x, p) \in Nat
        BY <3>1, <1>1, <1>3, <3>4, <2>1 DEF Ends
      <4> QED
        BY <4>1, <4>2, <3>2, <1>1
    <3> QED
      BY <3>3, <3>4 DEF Replaced
  <2>2. CASE p \in t \ (a..(b - 1))
    <3>1. Size(x, p) = Size(w, p) /\ p + Size(w, p) \in Nat
      BY <1>2, <2>2, NextOf DEF Kept
    <3>2. CASE q \in t
      BY <3>1, <3>2, <2>2, <1>7 DEF Tiled
    <3>3. CASE q \in d
      BY <3>1, <3>3, <1>1, <1>3, <1>5, <1>7, <2>2
    <3> QED
      BY <3>2, <3>3 DEF Replaced
  <2> QED
    BY <2>1, <2>2 DEF Replaced
<1>8. ASSUME NEW q \in new, q # 0
      PROVE  \E p \in new : p + Size(x, p) = q
  <2>1. CASE q \in d /\ q # a
    BY <2>1 DEF TiledBetween, Replaced
  <2>2. CASE q = b
    <3>1. \E p \in d : p + Size(x, p) = b
      BY <1>1 DEF TiledBetween
    <3> QED
      BY <3>1, <2>2 DEF Replaced
  <2>3. CASE q \in t /\ (q <= a \/ q > b)
    <3>1. PICK p \in t : p + Size(w, p) = q
      BY <1>8, <2>3 DEF Tiled
    <3>2. p \in Nat /\ Size(w, p) \in Nat \ {0}
      BY NextOf
    <3>3. p \in a..(b - 1) => p + Size(w, p) <= b
      <4>1. b \in t => (p < b => p + Size(w, p) <= b)
        BY DEF Tiled
      <4>2. p + Size(w, p) <= end
        BY NextOf
      <4> QED
        BY <4>1, <4>2, <1>1
    <3>4. p \notin a..(b - 1)
      BY <1>1, <2>3, <3>1, <3>2, <3>3
    <3>5. Size(x, p) = Size(w, p) /\ p \in new
      BY <3>4, <1>2 DEF Kept, Replaced
    <3> QED
      BY <3>1, <3>5
  <2>4. \/ q \in d /\ q # a
        \/ q = b
        \/ q \in t /\ (q <= a \/ q > b)
    BY <1>1, <1>3, <1>8 DEF Replaced
  <2> QED
    BY <2>1, <2>2, <2>3, <2>4
<1>9. Used(x, 0) /\ PrevUsed(x, 0)
  <2>1. CASE a = 0
    BY <2>1 DEF ChangedWithin, Tiled
  <2>2. CASE a # 0
    <3>1. x[1] = w[1]
      BY <2>2, <1>1 DEF ChangedWithin
    <3> QED
      BY <3>1 DEF Tiled, Used, PrevUsed
  <2> QED
    BY <2>1, <2>2
<1>10. Tiled(x, new, end)
  <2> HIDE DEF new
  <2>1. 0..(end + 1) \subseteq DOMAIN x
    BY <1>1
  <2> QED
    BY <2>1, <1>1, <1>4, <1>6, <1>7, <1>8, <1>9 DEF Tiled
<1> QED
  BY <1>2, <1>10

------------------------------------------------------------------------------
(* What the allocator writes.                                               *)

Tries == UNION {[d -> Seq(Nat)] : d \in SUBSET Seq(Bits)}
\* A malloc_state and memory of n words.
Spaces(n) ==
  [word : [0..(n - 1) -> Words],
   smallbins : [0..(NSmallbins - 1) -> Seq(Nat)],
   treebins : [0..(NTreebins - 1) -> Tries],
   smallmap : SUBSET Nat, treemap : SUBSET Nat,
   dv : Nat, dvsize : Nat, top : Nat, topsize : Nat,
   footprint : Nat, footprintLimit : Nat, trimCheck : Nat,
   extern : BOOLEAN]

\* Parts of a malloc_state that a step leaves alone.
SameBins(s, t) ==
  /\ t.smallbins = s.smallbins /\ t.smallmap = s.smallmap
  /\ t.treebins = s.treebins /\ t.treemap = s.treemap
SameDv(s, t) == t.dv = s.dv /\ t.dvsize = s.dvsize
SameTop(s, t) == t.top = s.top /\ t.topsize = s.topsize
SameLimit(s, t) ==
  /\ t.footprint = s.footprint /\ t.footprintLimit = s.footprintLimit
  /\ t.extern = s.extern
\* Nothing but words changes, and top in the second.
OnlyWords(s, t) ==
  SameBins(s, t) /\ SameDv(s, t) /\ SameTop(s, t) /\ SameLimit(s, t)
OnlyWordsAndTop(s, t) == SameBins(s, t) /\ SameDv(s, t) /\ SameLimit(s, t)

\* What the macros write are words.
LEMMA WordsAre ==
  /\ \A size \in Nat, bits \in SUBSET InuseBits :
       /\ HeadWord(size, bits) \in Words
       /\ HeadWord(size, bits).is = "head"
       /\ HeadWord(size, bits).size = size /\ HeadWord(size, bits).bits = bits
  /\ \A size \in Nat : Foot(size) \in Words
  /\ Link \in Words /\ Junk \in Words /\ \A k \in Nat : Data(k) \in Words
<1>1. \A is \in Kinds, size \in Nat, bits \in SUBSET InuseBits :
        AWord(is, size, bits) \in Words
  BY DEF AWord, Words
<1>2. {} \in SUBSET InuseBits /\ 0 \in Nat
      /\ "head" \in Kinds /\ "link" \in Kinds /\ "data" \in Kinds
      /\ "junk" \in Kinds /\ "foot" \in Kinds
  BY DEF Kinds
<1>3. \A size \in Nat, bits \in SUBSET InuseBits :
        /\ HeadWord(size, bits) \in Words
        /\ HeadWord(size, bits).is = "head"
        /\ HeadWord(size, bits).size = size /\ HeadWord(size, bits).bits = bits
  BY <1>1, <1>2 DEF HeadWord, AWord
<1>4. \A size \in Nat : Foot(size) \in Words
  BY <1>1, <1>2 DEF Foot
<1>5. Link \in Words /\ Junk \in Words
  BY <1>1, <1>2 DEF Link, Junk
<1>6. \A k \in Nat : Data(k) \in Words
  BY <1>1, <1>2 DEF Data
<1> QED
  BY <1>3, <1>4, <1>5, <1>6

\* Nothing changes but the words at the addresses a.
Same(w, x, n, a) == \A i \in 0..(n - 1) : i \notin a => x[i] = w[i]

\* A head at p that says this size, in use and not.
UsedChunk(x, p, size) ==
  x[p + 1].is = "head" /\ Size(x, p) = size /\ Used(x, p)
UnusedChunk(x, p, size) ==
  x[p + 1].is = "head" /\ Size(x, p) = size /\ ~Used(x, p)
\* The head at b is the same but for what it says about the chunk before.
SameBehind(w, x, b) ==
  /\ x[b + 1].is = w[b + 1].is /\ x[b + 1].size = w[b + 1].size
  /\ Used(x, b) = Used(w, b)

\* SetHead changes the head of p and no other word.
LEMMA HeadIsSet ==
  ASSUME NEW n \in Nat, NEW s \in Spaces(n), NEW p \in Nat, p + 1 < n,
         NEW size \in Nat, NEW bits \in SUBSET InuseBits
  PROVE  LET t == SetHead(s, p, size, bits)
         IN  /\ t \in Spaces(n) /\ OnlyWords(s, t)
             /\ t.word[p + 1] = HeadWord(size, bits)
             /\ Same(s.word, t.word, n, {p + 1})
<1>1. HeadWord(size, bits) \in Words /\ p + 1 \in 0..(n - 1)
  BY WordsAre
<1> QED
  BY <1>1 DEF SetHead, Spaces, OnlyWords, SameBins, SameDv, SameTop, SameLimit, Same

\* SetPinuse changes a bit of the head of p.
LEMMA PinuseIsSet ==
  ASSUME NEW n \in Nat, NEW s \in Spaces(n), NEW p \in Nat, p + 1 < n
  PROVE  LET t == SetPinuse(s, p)
         IN  /\ t \in Spaces(n) /\ OnlyWords(s, t)
             /\ SameBehind(s.word, t.word, p) /\ PrevUsed(t.word, p)
             /\ Same(s.word, t.word, n, {p + 1})
<1>1. p + 1 \in 0..(n - 1) /\ s.word[p + 1] \in Words
  BY DEF Spaces
<1>2. LET v == [s.word[p + 1] EXCEPT !.bits = @ \cup {"pinuse"}]
      IN  /\ v \in Words /\ ("pinuse" \in v.bits)
          /\ v.is = s.word[p + 1].is /\ v.size = s.word[p + 1].size
          /\ ("cinuse" \in v.bits) = ("cinuse" \in s.word[p + 1].bits)
  BY <1>1 DEF Words, InuseBits
<1> DEFINE new == [s.word[p + 1] EXCEPT !.bits = @ \cup {"pinuse"}]
<1>3. SetPinuse(s, p) = [s EXCEPT !.word[p + 1] = new]
  BY DEF SetPinuse
<1> HIDE DEF new
<1>4. new \in Words
  BY <1>2 DEF new
<1>6. /\ ("pinuse" \in new.bits)
      /\ new.is = s.word[p + 1].is /\ new.size = s.word[p + 1].size
      /\ ("cinuse" \in new.bits) = ("cinuse" \in s.word[p + 1].bits)
  BY <1>2 DEF new
<1>5. LET t == SetPinuse(s, p)
      IN  /\ t \in Spaces(n) /\ OnlyWords(s, t)
          /\ t.word[p + 1] = new
          /\ Same(s.word, t.word, n, {p + 1})
  BY <1>1, <1>3, <1>4
     DEF Spaces, OnlyWords, SameBins, SameDv, SameTop, SameLimit, Same
<1> QED
  BY <1>5, <1>6 DEF SameBehind, Used, PrevUsed

\* ClearPinuse changes a bit of the head of p.
LEMMA PinuseIsCleared ==
  ASSUME NEW n \in Nat, NEW s \in Spaces(n), NEW p \in Nat, p + 1 < n
  PROVE  LET t == ClearPinuse(s, p)
         IN  /\ t \in Spaces(n) /\ OnlyWords(s, t)
             /\ SameBehind(s.word, t.word, p) /\ ~PrevUsed(t.word, p)
             /\ Same(s.word, t.word, n, {p + 1})
<1>1. p + 1 \in 0..(n - 1) /\ s.word[p + 1] \in Words
  BY DEF Spaces
<1>2. LET v == [s.word[p + 1] EXCEPT !.bits = @ \ {"pinuse"}]
      IN  /\ v \in Words /\ ~("pinuse" \in v.bits)
          /\ v.is = s.word[p + 1].is /\ v.size = s.word[p + 1].size
          /\ ("cinuse" \in v.bits) = ("cinuse" \in s.word[p + 1].bits)
  BY <1>1 DEF Words, InuseBits
<1> DEFINE new == [s.word[p + 1] EXCEPT !.bits = @ \ {"pinuse"}]
<1>3. ClearPinuse(s, p) = [s EXCEPT !.word[p + 1] = new]
  BY DEF ClearPinuse
<1> HIDE DEF new
<1>4. new \in Words
  BY <1>2 DEF new
<1>6. /\ ~("pinuse" \in new.bits)
      /\ new.is = s.word[p + 1].is /\ new.size = s.word[p + 1].size
      /\ ("cinuse" \in new.bits) = ("cinuse" \in s.word[p + 1].bits)
  BY <1>2 DEF new
<1>5. LET t == ClearPinuse(s, p)
      IN  /\ t \in Spaces(n) /\ OnlyWords(s, t)
          /\ t.word[p + 1] = new
          /\ Same(s.word, t.word, n, {p + 1})
  BY <1>1, <1>3, <1>4
     DEF Spaces, OnlyWords, SameBins, SameDv, SameTop, SameLimit, Same
<1> QED
  BY <1>5, <1>6 DEF SameBehind, Used, PrevUsed

\* Other words in the place of words a to b.
LEMMA WordsAreSet ==
  ASSUME NEW n \in Nat, NEW s \in Spaces(n), NEW x \in [0..(n - 1) -> Words]
  PROVE  LET t == [s EXCEPT !.word = x]
         IN  t \in Spaces(n) /\ OnlyWords(s, t) /\ t.word = x
  BY DEF Spaces, OnlyWords, SameBins, SameDv, SameTop, SameLimit

\* Blank changes no word but those behind the head of the chunk.
LEMMA Blanked ==
  ASSUME NEW n \in Nat, NEW s \in Spaces(n), NEW p \in Nat, NEW size \in Nat
  PROVE  LET t == Blank(s, p, size)
         IN  /\ t \in Spaces(n) /\ OnlyWords(s, t)
             /\ Same(s.word, t.word, n, p + 2 .. p + size - 1)
<1> DEFINE x == [a \in DOMAIN s.word |->
                   IF a \in p + 2 .. p + size - 1 THEN Junk ELSE s.word[a]]
<1>1. x \in [0..(n - 1) -> Words]
  BY WordsAre DEF Spaces
<1>2. Blank(s, p, size) = [s EXCEPT !.word = x]
  BY DEF Blank
<1>3. Same(s.word, x, n, p + 2 .. p + size - 1)
  BY DEF Spaces, Same
<1> HIDE DEF x
<1> QED
  BY <1>1, <1>2, <1>3, WordsAreSet

\* The first m words of the chunk p are links in x, the others are as in w.
LinksIn(w, x, n, p, m) ==
  \A a \in 0..(n - 1) :
    x[a] = IF a \in p + 2 .. p + 1 + m THEN Link ELSE w[a]

\* WriteLinks changes the first words of a chunk, and they are links after it.
LEMMA LinksAreWritten ==
  ASSUME NEW n \in Nat, NEW s \in Spaces(n), NEW p \in Nat, NEW m \in Nat
  PROVE  LET t == WriteLinks(s, p, m)
         IN  /\ t \in Spaces(n) /\ OnlyWords(s, t)
             /\ LinksIn(s.word, t.word, n, p, m)
<1> DEFINE x == [a \in DOMAIN s.word |->
                   IF a \in p + 2 .. p + 1 + m THEN Link ELSE s.word[a]]
<1>1. x \in [0..(n - 1) -> Words]
  BY WordsAre DEF Spaces
<1>2. WriteLinks(s, p, m) = [s EXCEPT !.word = x]
  BY DEF WriteLinks
<1>3. \A a \in 0..(n - 1) :
        x[a] = IF a \in p + 2 .. p + 1 + m THEN Link ELSE s.word[a]
  BY DEF Spaces
<1>4. LinksIn(s.word, x, n, p, m)
  BY <1>3 DEF LinksIn
<1> HIDE DEF x
<1> QED
  BY <1>1, <1>2, <1>4, WordsAreSet

\* A chunk in use.
LEMMA InuseIsSet ==
  ASSUME NEW n \in Nat, NEW s \in Spaces(n), NEW p \in Nat,
         NEW size \in Nat \ {0}, p + size + 1 < n
  PROVE  LET t == SetInuse(s, p, size)
         IN  /\ t \in Spaces(n) /\ OnlyWords(s, t)
             /\ UsedChunk(t.word, p, size)
             /\ PrevUsed(t.word, p) = PrevUsed(s.word, p)
             /\ SameBehind(s.word, t.word, p + size) /\ PrevUsed(t.word, p + size)
             /\ Same(s.word, t.word, n, {p + 1, p + size + 1})
<1> DEFINE bits == {"cinuse"} \cup (s.word[p + 1].bits \cap {"pinuse"})
           r == SetHead(s, p, size, bits)
           next == p + size
           t == SetPinuse(r, next)
<1>1. bits \in SUBSET InuseBits /\ "cinuse" \in bits
      /\ ("pinuse" \in bits) = ("pinuse" \in s.word[p + 1].bits)
  BY DEF InuseBits
<1> HIDE DEF bits
<1>2. /\ r \in Spaces(n) /\ OnlyWords(s, r)
      /\ r.word[p + 1] = HeadWord(size, bits)
      /\ Same(s.word, r.word, n, {p + 1})
  <2>1. p + 1 < n
    OBVIOUS
  <2> QED
    BY <1>1, <2>1, HeadIsSet
<1> HIDE DEF r
<1>3. /\ t \in Spaces(n) /\ OnlyWords(r, t)
      /\ SameBehind(r.word, t.word, next) /\ PrevUsed(t.word, next)
      /\ Same(r.word, t.word, n, {next + 1})
  <2>1. next \in Nat /\ next + 1 < n
    OBVIOUS
  <2> HIDE DEF next
  <2> QED
    BY <1>2, <2>1, PinuseIsSet
<1>4. SetInuse(s, p, size) = t
  BY DEF SetInuse, r, bits, next
<1> HIDE DEF t
<1>5. OnlyWords(s, t)
  BY <1>2, <1>3 DEF OnlyWords, SameBins, SameDv, SameTop, SameLimit
<1>6. p + 1 \in 0..(n - 1) /\ p + size + 1 \in 0..(n - 1) /\ p + 1 # p + size + 1
  OBVIOUS
<1>7. t.word[p + 1] = HeadWord(size, bits)
      /\ r.word[p + size + 1] = s.word[p + size + 1]
  BY <1>2, <1>3, <1>6 DEF Same
<1>10. /\ Same(s.word, t.word, n, {p + 1, p + size + 1})
       /\ SameBehind(s.word, t.word, p + size) /\ PrevUsed(t.word, p + size)
  BY <1>2, <1>3, <1>7 DEF Same, SameBehind, Used
<1>8. /\ t.word[p + 1].is = "head" /\ Size(t.word, p) = size
      /\ Used(t.word, p) /\ PrevUsed(t.word, p) = PrevUsed(s.word, p)
  BY <1>1, <1>7, WordsAre DEF Size, Used, PrevUsed
<1> QED
  BY <1>3, <1>4, <1>5, <1>8, <1>10 DEF UsedChunk

\* SetInuseAndPinuse makes one chunk in use, and tells the next.
LEMMA InuseAndPinuseAreSet ==
  ASSUME NEW n \in Nat, NEW s \in Spaces(n), NEW p \in Nat,
         NEW size \in Nat \ {0}, p + size + 1 < n
  PROVE  LET t == SetInuseAndPinuse(s, p, size)
         IN  /\ t \in Spaces(n) /\ OnlyWords(s, t)
             /\ UsedChunk(t.word, p, size) /\ PrevUsed(t.word, p)
             /\ SameBehind(s.word, t.word, p + size) /\ PrevUsed(t.word, p + size)
             /\ Same(s.word, t.word, n, {p + 1, p + size + 1})
<1> DEFINE r == SetHead(s, p, size, InuseBits)
           next == p + size
           t == SetPinuse(r, next)
<1>1. InuseBits \in SUBSET InuseBits /\ p + 1 < n
  OBVIOUS
<1>2. /\ r \in Spaces(n) /\ OnlyWords(s, r)
      /\ r.word[p + 1] = HeadWord(size, InuseBits)
      /\ Same(s.word, r.word, n, {p + 1})
  BY <1>1, HeadIsSet
<1> HIDE DEF r
<1>3. /\ t \in Spaces(n) /\ OnlyWords(r, t)
      /\ SameBehind(r.word, t.word, next) /\ PrevUsed(t.word, next)
      /\ Same(r.word, t.word, n, {next + 1})
  <2>1. next \in Nat /\ next + 1 < n
    OBVIOUS
  <2> HIDE DEF next
  <2> QED
    BY <1>2, <2>1, PinuseIsSet
<1>4. SetInuseAndPinuse(s, p, size) = t
  BY DEF SetInuseAndPinuse, r, next
<1> HIDE DEF t
<1>5. OnlyWords(s, t)
  BY <1>2, <1>3 DEF OnlyWords, SameBins, SameDv, SameTop, SameLimit
<1>6. p + 1 \in 0..(n - 1) /\ p + size + 1 \in 0..(n - 1) /\ p + 1 # p + size + 1
  OBVIOUS
<1>7. t.word[p + 1] = HeadWord(size, InuseBits)
      /\ r.word[p + size + 1] = s.word[p + size + 1]
  BY <1>2, <1>3, <1>6 DEF Same
<1>10. /\ Same(s.word, t.word, n, {p + 1, p + size + 1})
       /\ SameBehind(s.word, t.word, p + size) /\ PrevUsed(t.word, p + size)
  BY <1>2, <1>3, <1>7 DEF Same, SameBehind, Used
<1>8. "cinuse" \in InuseBits /\ "pinuse" \in InuseBits
  BY DEF InuseBits
<1>9. /\ t.word[p + 1].is = "head" /\ Size(t.word, p) = size
      /\ Used(t.word, p) /\ PrevUsed(t.word, p)
  BY <1>7, <1>8, WordsAre DEF Size, Used, PrevUsed
<1> QED
  BY <1>3, <1>4, <1>5, <1>9, <1>10 DEF UsedChunk

\* A free chunk behind one in use.
LEMMA FreeIsSet ==
  ASSUME NEW n \in Nat, NEW s \in Spaces(n), NEW p \in Nat,
         NEW size \in Nat, size >= 2, p + size < n
  PROVE  LET t == SetSizeAndPinuseOfFreeChunk(s, p, size)
         IN  /\ t \in Spaces(n) /\ OnlyWords(s, t)
             /\ UnusedChunk(t.word, p, size) /\ PrevUsed(t.word, p)
             /\ t.word[p + size] = Foot(size)
             /\ Same(s.word, t.word, n, p + 1 .. p + size)
<1> DEFINE b == Blank(s, p, size)
           r == SetHead(b, p, size, {"pinuse"})
           x == [r.word EXCEPT ![p + size] = Foot(size)]
           t == [r EXCEPT !.word = x]
<1>1. /\ b \in Spaces(n) /\ OnlyWords(s, b)
      /\ Same(s.word, b.word, n, p + 2 .. p + size - 1)
  BY Blanked
<1>2. {"pinuse"} \in SUBSET InuseBits
  BY DEF InuseBits
<1> HIDE DEF b
<1>3. /\ r \in Spaces(n) /\ OnlyWords(b, r)
      /\ r.word[p + 1] = HeadWord(size, {"pinuse"})
      /\ Same(b.word, r.word, n, {p + 1})
  <2>1. p + 1 < n
    OBVIOUS
  <2> QED
    BY <2>1, <1>1, <1>2, HeadIsSet
<1> HIDE DEF r
<1>4. r.word \in [0..(n - 1) -> Words] /\ Foot(size) \in Words
      /\ p + size \in 0..(n - 1) /\ p + 1 \in 0..(n - 1)
  <2>1. r.word \in [0..(n - 1) -> Words]
    BY <1>3 DEF Spaces
  <2>2. Foot(size) \in Words
    BY WordsAre
  <2> QED
    BY <2>1, <2>2
<1>5. /\ x \in [0..(n - 1) -> Words] /\ x[p + size] = Foot(size)
      /\ Same(r.word, x, n, {p + size})
  BY <1>4 DEF Same
<1> HIDE DEF x
<1>6. t \in Spaces(n) /\ OnlyWords(r, t) /\ t.word = x
  BY <1>3, <1>5, WordsAreSet
<1>7. SetSizeAndPinuseOfFreeChunk(s, p, size) = t
  BY DEF SetSizeAndPinuseOfFreeChunk, r, b, x
<1> HIDE DEF t
<1>8. OnlyWords(s, t)
  BY <1>1, <1>3, <1>6 DEF OnlyWords, SameBins, SameDv, SameTop, SameLimit
<1>9. t.word[p + 1] = HeadWord(size, {"pinuse"})
  BY <1>3, <1>4, <1>5, <1>6 DEF Same
<1>10. /\ t.word[p + 1].is = "head" /\ Size(t.word, p) = size
       /\ ~Used(t.word, p) /\ PrevUsed(t.word, p)
  BY <1>2, <1>9, WordsAre DEF Size, Used, PrevUsed
<1>11. Same(s.word, t.word, n, p + 1 .. p + size)
  BY <1>1, <1>3, <1>5, <1>6 DEF Same
<1> QED
  BY <1>5, <1>6, <1>7, <1>8, <1>10, <1>11 DEF UnusedChunk

\* SetTop makes a chunk that is not in use the top.
LEMMA TopIsSet ==
  ASSUME NEW n \in Nat, NEW s \in Spaces(n), NEW p \in Nat,
         NEW size \in Nat, p + 1 < n
  PROVE  LET t == SetTop(s, p, size)
         IN  /\ t \in Spaces(n) /\ OnlyWordsAndTop(s, t)
             /\ t.top = p /\ t.topsize = size
             /\ UnusedChunk(t.word, p, size) /\ PrevUsed(t.word, p)
             /\ Same(s.word, t.word, n, {p + 1} \cup (p + 1 .. p + size - 1))
<1> DEFINE b == Blank(s, p, size)
           r == SetHead(b, p, size, {"pinuse"})
           t == [r EXCEPT !.top = p, !.topsize = size]
<1>1. /\ b \in Spaces(n) /\ OnlyWords(s, b)
      /\ Same(s.word, b.word, n, p + 2 .. p + size - 1)
  BY Blanked
<1>2. {"pinuse"} \in SUBSET InuseBits
  BY DEF InuseBits
<1> HIDE DEF b
<1>3. /\ r \in Spaces(n) /\ OnlyWords(b, r)
      /\ r.word[p + 1] = HeadWord(size, {"pinuse"})
      /\ Same(b.word, r.word, n, {p + 1})
  <2>1. p + 1 < n
    OBVIOUS
  <2> QED
    BY <2>1, <1>1, <1>2, HeadIsSet
<1> HIDE DEF r
<1>4. /\ t \in Spaces(n) /\ OnlyWordsAndTop(r, t) /\ t.word = r.word
      /\ t.top = p /\ t.topsize = size
  BY <1>3 DEF Spaces, OnlyWordsAndTop, SameBins, SameDv, SameLimit
<1>5. SetTop(s, p, size) = t
  BY DEF SetTop, r, b
<1> HIDE DEF t
<1>6. OnlyWordsAndTop(s, t)
  BY <1>1, <1>3, <1>4 DEF OnlyWords, OnlyWordsAndTop, SameBins, SameDv, SameLimit
<1>7. t.word[p + 1] = HeadWord(size, {"pinuse"})
  BY <1>3, <1>4
<1>8. /\ t.word[p + 1].is = "head" /\ Size(t.word, p) = size
      /\ ~Used(t.word, p) /\ PrevUsed(t.word, p)
  BY <1>2, <1>7, WordsAre DEF Size, Used, PrevUsed
<1>9. Same(s.word, t.word, n, {p + 1} \cup (p + 1 .. p + size - 1))
  BY <1>1, <1>3, <1>4 DEF Same
<1> QED
  BY <1>4, <1>5, <1>6, <1>8, <1>9 DEF UnusedChunk

------------------------------------------------------------------------------
(* The heap between two steps of a call.                                    *)

\* The free chunks of g that belong into smallbin i, and into tree bin i.
Small(w, g, i) == {p \in g : Size(w, p) = i}
Large(w, g, i) == {p \in g : ~IsSmall(Size(w, p)) /\ TreeIndex(Size(w, p)) = i}
\* The links of a free chunk are links.
Linked(w, p) ==
  /\ w[p + 2] = Link /\ w[p + 3] = Link
  /\ ~IsSmall(Size(w, p)) => \A a \in p + 2 .. p + 7 : w[a] = Link

\* Bins have the chunks g, each where its size belongs.
Listed(s, g) ==
  /\ s.smallmap \subseteq 0..(NSmallbins - 1)
  /\ s.treemap \subseteq 0..(NTreebins - 1)
  /\ \A i \in s.smallmap :
       /\ s.smallbins[i] # <<>> /\ IsInjective(s.smallbins[i])
       /\ Range(s.smallbins[i]) = Small(s.word, g, i)
  /\ \A i \in 0..(NSmallbins - 1) : i \notin s.smallmap => Small(s.word, g, i) = {}
  /\ \A i \in 0..(NTreebins - 1) :
       /\ Holds(s.word, s.treebins[i], i, Large(s.word, g, i))
       /\ i \in s.treemap <=> Large(s.word, g, i) # {}
  /\ \A p \in g : Linked(s.word, p)

\* Where the chunks of a pool of n words end.
End(n) == n - TopFootSize
\* A pool with room for the malloc_state and a block, and its size for a
\* size_t.
Roomy(n) ==
  n \in Nat /\ n + Granularity <= 2^SizeBits /\ n >= SysAllocPadding + 8

\* The last chunk is top, and dv is a free one, or none.
TopHolds(s, t, end) ==
  /\ s.top \in t /\ s.top + s.topsize = end
  /\ ~Used(s.word, s.top) /\ Size(s.word, s.top) = s.topsize
\* The designated victim is a free chunk of its size, or there is none.
DvHolds(s, t) ==
  IF s.dvsize = 0 THEN s.dv = 0
  ELSE /\ s.dv \in t /\ s.dv # s.top
       /\ ~Used(s.word, s.dv) /\ Size(s.word, s.dv) = s.dvsize

\* Of the free chunks t but top and dv, g are in bins, and the call has l in
\* its hands.
Heap(s, n, t, g, l) ==
  /\ Roomy(n) /\ s \in Spaces(n) /\ Limited(s, n) /\ s.extern
  /\ Tiled(s.word, t, End(n)) /\ TopHolds(s, t, End(n)) /\ DvHolds(s, t)
  /\ g \subseteq t /\ l \subseteq t /\ g \cap l = {}
  /\ \A p \in t : p \in g \cup l <=>
                    ~Used(s.word, p) /\ p # s.top /\ p # s.dv
  /\ Listed(s, g)

\* The end of the chunks lies inside the pool, with its last words behind it.
LEMMA EndIsInside ==
  ASSUME NEW n, Roomy(n)
  PROVE  End(n) \in Nat /\ End(n) + 4 <= n /\ n \in Nat
<1>1. SegmentWords \in Nat
  BY LimitAssumption
<1>2. PadRequest(SegmentWords) \in Nat
  BY <1>1 DEF PadRequest, Overhead, Alignment
<1> QED
  BY <1>2 DEF Roomy, End, SysAllocPadding, TopFootSize, MinChunkSize, Alignment

\* Where a chunk of a heap lies and what comes after it.
LEMMA ChunkFacts ==
  ASSUME NEW s, NEW n, NEW t, NEW g, NEW l, Heap(s, n, t, g, l), NEW p \in t
  PROVE  LET size == Size(s.word, p)
         IN  /\ p \in Nat /\ n \in Nat /\ size \in Nat \ {0}
             /\ p < End(n) /\ p + size <= End(n) /\ End(n) + 4 <= n
             /\ p # s.top => /\ p + size \in t /\ p + size <= s.top
                             /\ size >= 4
             /\ Ends(s.word, p, p + size, End(n))
<1> DEFINE w == s.word
           size == Size(w, p)
           end == End(n)
<1>1. Tiled(w, t, end) /\ TopHolds(s, t, end) /\ end \in Nat /\ end + 4 <= n
      /\ n \in Nat
  BY EndIsInside DEF Heap
<1> HIDE DEF w, end
<1>2. /\ p \in Nat /\ size \in Nat \ {0} /\ p < end
      /\ p + size \in t \cup {end} /\ p + size <= end
      /\ Ends(w, p, p + size, end)
  BY <1>1, NextOf
<1>3. s.top \in t /\ s.top \in Nat /\ s.top < end /\ s.top + Size(w, s.top) = end
  BY <1>1 DEF TopHolds, Tiled, w
<1>4. ASSUME p # s.top
      PROVE  p + size \in t /\ p + size <= s.top /\ size >= 4
  <2>1. \A q, r \in t : q < r => q + Size(w, q) <= r
    BY <1>1 DEF Tiled
  <2>2. ~(s.top < p)
    <3>1. s.top < p => s.top + Size(w, s.top) <= p
      BY <2>1, <1>3
    <3> QED
      BY <3>1, <1>1, <1>2, <1>3
  <2>3. p + size <= s.top
    BY <2>1, <2>2, <1>2, <1>3, <1>4
  <2>4. p + size # end
    BY <2>3, <1>2, <1>3
  <2> QED
    BY <2>3, <2>4, <1>2 DEF Ends, MinChunkSize
<1> QED
  BY <1>1, <1>2, <1>4 DEF w, end

\* Before a free chunk is one in use, and behind it, too.
LEMMA FreeAreApart ==
  ASSUME NEW s, NEW n, NEW t, NEW g, NEW l, Heap(s, n, t, g, l), NEW p \in t,
         ~Used(s.word, p)
  PROVE  /\ PrevUsed(s.word, p) /\ p # 0
         /\ p # s.top => Used(s.word, p + Size(s.word, p))
<1> DEFINE w == s.word
           end == End(n)
<1>1. Tiled(w, t, end) /\ end \in Nat
  BY EndIsInside DEF Heap
<1>2. p # 0
  BY <1>1 DEF Tiled
<1>3. PICK q \in t : q + Size(w, q) = p
  BY <1>1, <1>2 DEF Tiled
<1>4. Ends(w, q, p, end) /\ p # end
  BY <1>3, ChunkFacts
<1>5. PrevUsed(w, p)
  BY <1>4 DEF Ends, Used, PrevUsed
<1>6. p # s.top => Used(w, p + Size(w, p))
  <2> SUFFICES ASSUME p # s.top PROVE Used(w, p + Size(w, p))
    OBVIOUS
  <2>1. Ends(w, p, p + Size(w, p), end) /\ p + Size(w, p) \in t
    BY ChunkFacts
  <2>2. p + Size(w, p) # end
    BY <2>1, ChunkFacts
  <2> QED
    BY <2>1, <2>2 DEF Ends
<1> QED
  BY <1>2, <1>5, <1>6

\* Words inside a chunk are not of the tiling.
LEMMA InsideChanges ==
  ASSUME NEW w, NEW t, NEW end, Tiled(w, t, end), NEW p \in t,
         NEW x, DOMAIN x = DOMAIN w,
         NEW m \in Nat, m < p + Size(w, p) \/ (Used(w, p) /\ m <= p + Size(w, p)),
         \A i \in DOMAIN w : i \notin p + 2 .. m => x[i] = w[i]
  PROVE  /\ Tiled(x, t, end)
         /\ \A q \in t : x[q + 1] = w[q + 1] /\ Size(x, q) = Size(w, q)
         /\ \A q \in t \ {p} : Kept(w, x, q)
<1>1. /\ p \in Nat /\ end \in Nat /\ \A q \in t : q \in Nat /\ q < end
      /\ \A i \in 0..(end + 1) : i \in DOMAIN w
      /\ \A q, r \in t : q < r => q + Size(w, q) <= r
  BY DEF Tiled
<1>2. /\ Size(w, p) \in Nat /\ p + Size(w, p) <= end
  BY NextOf
<1>3. \A q \in t \cup {end} : q <= p \/ q >= p + Size(w, p)
  BY <1>1, <1>2
<1>4. \A q \in t \cup {end} : x[q + 1] = w[q + 1]
  <2> SUFFICES ASSUME NEW q \in t \cup {end}
               PROVE  x[q + 1] = w[q + 1]
    OBVIOUS
  <2>1. q \in Nat /\ q + 1 \in DOMAIN w /\ q + 1 \notin p + 2 .. m
    BY <1>1, <1>2, <1>3
  <2> QED
    BY <2>1
<1>5. ASSUME NEW q \in t
      PROVE  \E next \in t \cup {end} : q < next /\ Ends(x, q, next, end)
  <2> DEFINE next == q + Size(w, q)
  <2>1. next \in t \cup {end} /\ q < next /\ Ends(w, q, next, end) /\ next \in Nat
        /\ next <= end
    BY <1>1, NextOf
  <2>2. x[q + 1] = w[q + 1] /\ x[next + 1] = w[next + 1]
    BY <1>4, <2>1
  <2>3. ~Used(w, q) => x[next] = w[next]
    <3> SUFFICES ASSUME ~Used(w, q) PROVE x[next] = w[next]
      OBVIOUS
    <3>1. next <= p \/ next >= p + Size(w, p)
      BY <1>3, <2>1
    <3>2. next \in DOMAIN w
      BY <1>1, <2>1
    <3>3. next \notin p + 2 .. m
      <4>1. CASE next <= p
        BY <4>1, <1>1, <2>1
      <4>2. CASE next >= p + Size(w, p) /\ m < p + Size(w, p)
        BY <4>2, <1>1, <1>2, <2>1
      <4>3. CASE next >= p + Size(w, p) /\ Used(w, p) /\ m <= p + Size(w, p)
        <5>1. q # p
          BY <4>3
        <5>2. q < p => next <= p
          BY <1>1
        <5>3. p < q => p + Size(w, p) <= q
          BY <1>1
        <5>4. p \in Nat /\ q \in Nat /\ Size(w, p) \in Nat \ {0}
          BY <1>1, NextOf
        <5>5. next > p + Size(w, p)
          BY <5>1, <5>2, <5>3, <5>4, <4>3, <2>1
        <5> QED
          BY <5>4, <5>5, <4>3, <2>1
      <4> QED
        BY <4>1, <4>2, <4>3, <3>1
    <3> QED
      BY <3>2, <3>3
  <2> HIDE DEF next
  <2> QED
    BY <2>1, <2>2, <2>3 DEF Ends, Size, Used, PrevUsed
<1>6. \A q \in t : Size(x, q) = Size(w, q) /\ Used(x, q) = Used(w, q)
                   /\ PrevUsed(x, q) = PrevUsed(w, q)
  BY <1>4 DEF Size, Used, PrevUsed
<1>7. Tiled(x, t, end)
  <2>1. 0..(end + 1) \subseteq DOMAIN x
    BY <1>1
  <2>2. /\ t \in SUBSET (0..(end - 1)) /\ 0 \in t /\ Used(x, 0) /\ PrevUsed(x, 0)
    BY <1>6 DEF Tiled
  <2>3. \A q, r \in t : q < r => q + Size(x, q) <= r
    BY <1>1, <1>6
  <2>4. \A q \in t : q # 0 => \E r \in t : r + Size(x, r) = q
    BY <1>6 DEF Tiled
  <2> QED
    BY <1>1, <1>5, <2>1, <2>2, <2>3, <2>4 DEF Tiled
<1>8. ASSUME NEW q \in t, q # p
      PROVE  Kept(w, x, q)
  <2>1. Size(w, q) \in Nat /\ q \in Nat /\ q + Size(w, q) <= end
    BY NextOf
  <2>2. q + Size(w, q) <= p \/ q >= p + Size(w, p)
    BY <1>1, <1>3, <1>8, <2>1
  <2>3. \A i \in q + 2 .. q + Size(w, q) : i \in DOMAIN w /\ i \notin p + 2 .. m
    BY <1>1, <1>2, <2>1, <2>2
  <2> QED
    BY <1>6, <2>3 DEF Kept
<1> QED
  BY <1>4, <1>6, <1>7, <1>8

\* A chunk in a bin keeps its place while its words are kept.
LEMMA ListedAfter ==
  ASSUME NEW s, NEW g, Listed(s, g), NEW u, SameBins(s, u),
         \A p \in g : /\ p \in Nat /\ Size(s.word, p) \in Nat
                      /\ Size(s.word, p) >= 4 /\ Kept(s.word, u.word, p)
  PROVE  Listed(u, g)
<1> DEFINE w == s.word
           x == u.word
<1>1. \A p \in g : Size(x, p) = Size(w, p)
  BY DEF Kept
<1>2. \A i : Small(x, g, i) = Small(w, g, i) /\ Large(x, g, i) = Large(w, g, i)
  BY <1>1 DEF Small, Large
<1>3. \A i \in 0..(NTreebins - 1) :
        Holds(x, u.treebins[i], i, Large(x, g, i))
  <2> SUFFICES ASSUME NEW i \in 0..(NTreebins - 1)
               PROVE  Holds(x, u.treebins[i], i, Large(x, g, i))
    OBVIOUS
  <2>1. Holds(w, s.treebins[i], i, Large(w, g, i))
    BY DEF Listed
  <2>2. \A p \in Large(w, g, i) : Size(x, p) = Size(w, p)
    BY <1>1 DEF Large
  <2>3. Holds(x, s.treebins[i], i, Large(w, g, i))
    BY <2>1, <2>2, HoldsAfter
  <2> QED
    BY <1>2, <2>3 DEF SameBins
<1>4. ASSUME NEW p \in g
      PROVE  Linked(x, p)
  <2>1. Linked(w, p) /\ \A a \in p + 2 .. p + Size(w, p) : x[a] = w[a]
    BY DEF Listed, Kept
  <2>2. x[p + 2] = w[p + 2] /\ x[p + 3] = w[p + 3]
    BY <2>1
  <2>3. ~IsSmall(Size(w, p)) => \A a \in p + 2 .. p + 7 : x[a] = w[a]
    BY <2>1, SmallbinsAreNumbered DEF IsSmall
  <2> QED
    BY <1>1, <2>1, <2>2, <2>3 DEF Linked
<1> QED
  BY <1>2, <1>3, <1>4 DEF Listed, SameBins

\* The chunks in use.
Users(w, t) == {p \in t : Used(w, p)}

\* The chunks in use are as they were but for those gone and those new.
Changes(w, t, x, d, gone, new) ==
  /\ Users(x, d) = (Users(w, t) \ gone) \cup new
  /\ \A p \in Users(w, t) \ gone : Kept(w, x, p)

\* What becomes of dv and of top while chunks d come from a up to b.
DvMoves(s, u, a, b, d) ==
  \/ SameDv(s, u) /\ s.dv \notin a..(b - 1)
  \/ /\ s.dvsize = 0 \/ s.dv \in a..(b - 1)
     /\ \/ u.dv = 0 /\ u.dvsize = 0
        \/ /\ u.dv \in d /\ u.dv # u.top /\ u.dvsize # 0
           /\ ~Used(u.word, u.dv) /\ Size(u.word, u.dv) = u.dvsize
\* Top is where it was, or within the words that were replaced up to the end.
TopMoves(s, u, b, d, end) ==
  \/ SameTop(s, u) /\ b # end
  \/ b = end /\ TopHolds(u, d, end)

\* What a call has in its hands, and what is used, dv or top, may be tiled
\* anew.
LEMMA Retiled ==
  ASSUME NEW s, NEW n, NEW t, NEW g, NEW l, Heap(s, n, t, g, l),
         NEW a \in t \ {0}, NEW b \in t \cup {End(n)}, a < b,
         l \subseteq a..(b - 1), g \cap (a..(b - 1)) = {},
         NEW u \in Spaces(n), SameBins(s, u), SameLimit(s, u),
         ChangedWithin(s.word, u.word, a, b),
         NEW d, TiledBetween(u.word, d, a, b, End(n)),
         PrevUsed(s.word, a) \/ Used(u.word, a),
         DvMoves(s, u, a, b, d), TopMoves(s, u, b, d, End(n)),
         NEW m, m \subseteq d,
         \A p \in d : p \in m <=>
                        ~Used(u.word, p) /\ p # u.top /\ p # u.dv
  PROVE  LET new == Replaced(t, a, b, d)
         IN  /\ Heap(u, n, new, g, m)
             /\ Changes(s.word, t, u.word, new, a..(b - 1), Users(u.word, d))
<1> DEFINE w == s.word
           x == u.word
           end == End(n)
           in == a..(b - 1)
           new == Replaced(t, a, b, d)
<1>1. /\ Tiled(w, t, end) /\ TopHolds(s, t, end) /\ DvHolds(s, t)
      /\ Listed(s, g) /\ end \in Nat /\ Roomy(n) /\ Limited(s, n) /\ s.extern
      /\ g \subseteq t /\ l \subseteq t /\ g \cap l = {}
  BY EndIsInside DEF Heap
<1>2. Tiled(x, new, end) /\ \A p \in t \ in : Kept(w, x, p)
  BY <1>1, TilingChanges
<1>3. /\ \A p \in t : p \in Nat /\ p < end
      /\ \A p, q \in t : p < q => p + Size(w, p) <= q
      /\ a \in Nat /\ b \in Nat /\ b <= end
  BY <1>1 DEF Tiled
<1>4. d \subseteq in /\ \A p \in new : p \in d <=> p \in in
  BY DEF TiledBetween, Replaced
<1>5. \A p \in t \ in : p \in new
  BY DEF Replaced
<1>6. d \subseteq new
  BY DEF Replaced
<1>a. s.top \in t /\ s.top + Size(w, s.top) = end
  BY <1>1 DEF TopHolds
<1>b. s.top \in Nat /\ Size(w, s.top) \in Nat /\ s.top < end
  BY <1>1, <1>a, NextOf
<1> HIDE DEF end, new, w, x
<1>7. b # end => s.top >= b
  <2>1. b \in t /\ s.top < b => s.top + Size(w, s.top) <= b
    BY <1>3, <1>a
  <2> QED
    BY <2>1, <1>1, <1>3, <1>a, <1>b DEF end
<1>8. TopHolds(u, new, end)
  <2>1. CASE SameTop(s, u) /\ b # end
    <3>1. s.top \in t \ in
      BY <1>1, <1>3, <1>7, <2>1 DEF TopHolds
    <3> QED
      BY <1>1, <1>2, <1>5, <2>1, <3>1 DEF TopHolds, Kept, SameTop, w, x
  <2>2. CASE b = end /\ TopHolds(u, d, end)
    BY <1>6, <2>2 DEF TopHolds
  <2> QED
    BY <2>1, <2>2 DEF TopMoves, end
<1>9. DvHolds(u, new)
  <2>1. CASE SameDv(s, u) /\ s.dv \notin in /\ s.dvsize # 0
    <3>1. s.dv \in t \ in /\ s.dv # s.top
      BY <1>1, <2>1 DEF DvHolds
    <3>2. u.dv # u.top
      <4>1. CASE SameTop(s, u)
        BY <2>1, <3>1, <4>1 DEF SameDv, SameTop
      <4>2. CASE TopHolds(u, d, end)
        BY <1>4, <2>1, <4>2 DEF TopHolds, SameDv
      <4> QED
        BY <4>1, <4>2 DEF TopMoves, end
    <3> QED
      BY <1>1, <1>2, <1>5, <2>1, <3>1, <3>2 DEF DvHolds, SameDv, Kept, w, x
  <2>2. CASE SameDv(s, u) /\ s.dvsize = 0
    BY <1>1, <2>2 DEF DvHolds, SameDv
  <2>3. CASE u.dv = 0 /\ u.dvsize = 0
    BY <2>3 DEF DvHolds
  <2>4. CASE /\ u.dv \in d /\ u.dv # u.top /\ u.dvsize # 0
             /\ ~Used(x, u.dv) /\ Size(x, u.dv) = u.dvsize
    BY <1>6, <2>4 DEF DvHolds, x
  <2> QED
    BY <2>1, <2>2, <2>3, <2>4 DEF DvMoves, x
<1>10. ASSUME NEW p \in t \ in, p # 0
       PROVE  (p = u.top <=> p = s.top) /\ (p = u.dv <=> p = s.dv)
  <2>1. p = u.top <=> p = s.top
    <3>1. CASE SameTop(s, u)
      BY <3>1 DEF SameTop
    <3>2. CASE b = end /\ TopHolds(u, d, end)
      <4>1. u.top \in in
        BY <1>4, <3>2 DEF TopHolds
      <4>2. s.top \in in
        <5>1. ~(s.top < a)
          <6>1. s.top < a => s.top + Size(w, s.top) <= a
            BY <1>3, <1>a
          <6> QED
            BY <6>1, <1>1, <1>3, <1>b, <1>a
        <5> QED
          BY <5>1, <1>1, <1>3, <1>b, <3>2
      <4> QED
        BY <4>1, <4>2
    <3> QED
      BY <3>1, <3>2 DEF TopMoves, end
  <2>2. p = u.dv <=> p = s.dv
    <3>1. CASE SameDv(s, u)
      BY <3>1 DEF SameDv
    <3>2. CASE ~SameDv(s, u)
      <4>1. s.dv = 0 \/ s.dv \in in
        BY <3>2, <1>1 DEF DvMoves, DvHolds
      <4>2. u.dv = 0 \/ u.dv \in d
        BY <3>2 DEF DvMoves
      <4> QED
        BY <1>4, <1>10, <4>1, <4>2
    <3> QED
      BY <3>1, <3>2
  <2> QED
    BY <2>1, <2>2
<1>11. g \subseteq new /\ m \subseteq new /\ g \cap m = {}
  BY <1>1, <1>4, <1>5, <1>6
<1>12. ASSUME NEW p \in new
       PROVE  p \in g \cup m <=> ~Used(x, p) /\ p # u.top /\ p # u.dv
  <2>1. CASE p \in d
    BY <1>4, <2>1 DEF x
  <2>2. CASE p \in t \ in
    <3>1. Used(x, p) = Used(w, p)
      BY <1>2, <2>2 DEF Kept
    <3>2. p \in g <=> ~Used(w, p) /\ p # s.top /\ p # s.dv
      BY <2>2 DEF Heap, w
    <3>3. p = 0 => Used(x, p) /\ p \notin g
      BY <3>1, <3>2, <1>1 DEF Tiled, w
    <3>4. p \notin m
      BY <1>4, <2>2
    <3> QED
      BY <3>1, <3>2, <3>3, <3>4, <1>10, <2>2
  <2> QED
    BY <2>1, <2>2 DEF Replaced, new
<1>13. Listed(u, g)
  <2>1. ASSUME NEW p \in g
        PROVE  /\ p \in Nat /\ Size(w, p) \in Nat
               /\ Size(w, p) >= 4 /\ Kept(w, x, p)
    <3>1. p \in t /\ p # s.top
      BY <1>1 DEF Heap
    <3>2. p \in Nat /\ Size(w, p) \in Nat /\ Size(w, p) >= 4
      BY <3>1, ChunkFacts DEF w
    <3> QED
      BY <1>2, <3>1, <3>2
  <2> QED
    BY <2>1, <1>1, ListedAfter DEF w, x
<1>14. Limited(u, n) /\ u.extern
  BY <1>1 DEF Limited, SameLimit
<1>15. Heap(u, n, new, g, m)
  BY <1>1, <1>2, <1>8, <1>9, <1>11, <1>12, <1>13, <1>14 DEF Heap, end, x
<1>16. Changes(w, t, x, new, in, Users(x, d))
  <2>1. \A p \in Users(w, t) \ in : Kept(w, x, p)
    BY <1>2 DEF Users
  <2>2. Users(x, new) = (Users(w, t) \ in) \cup Users(x, d)
    <3>1. \A p \in t \ in : Used(x, p) = Used(w, p)
      BY <1>2 DEF Kept
    <3> QED
      BY <3>1, <1>4 DEF Users, Replaced, new
  <2> QED
    BY <2>1, <2>2 DEF Changes
<1> QED
  BY <1>15, <1>16 DEF new, w, x

------------------------------------------------------------------------------
(* One chunk or two in the place of others.                                 *)

\* A chunk by itself tiles the words it has.
LEMMA OneChunk ==
  ASSUME NEW a \in Nat, NEW b \in Nat, a < b, NEW x, NEW end, Ends(x, a, b, end)
  PROVE  TiledBetween(x, {a}, a, b, end)
BY DEF TiledBetween, Ends

\* Two chunks tile the words they have together.
LEMMA TwoChunks ==
  ASSUME NEW a \in Nat, NEW m \in Nat, NEW b \in Nat, a < m, m < b, NEW x,
         NEW end, Ends(x, a, m, end), Ends(x, m, b, end)
  PROVE  TiledBetween(x, {a, m}, a, b, end)
<1>1. a + Size(x, a) = m /\ m + Size(x, m) = b
  BY DEF Ends
<1>2. {a, m} \in SUBSET (a..(b - 1)) /\ a \in {a, m}
  OBVIOUS
<1>3. \A p, q \in {a, m} : p < q => p + Size(x, p) <= q
  BY <1>1
<1>4. \A p \in {a, m} : \E next \in {a, m} \cup {b} :
        p < next /\ Ends(x, p, next, end)
  OBVIOUS
<1>5. \A q \in {a, m} \cup {b} : q # a => \E p \in {a, m} : p + Size(x, p) = q
  BY <1>1
<1> QED
  BY <1>2, <1>3, <1>4, <1>5 DEF TiledBetween

\* A change of words between two heads is a change between the two chunks.
LEMMA WordsWithin ==
  ASSUME NEW n \in Nat, NEW s \in Spaces(n), NEW u \in Spaces(n),
         NEW a \in Nat, NEW b \in Nat, Same(s.word, u.word, n, a + 1 .. b + 1),
         PrevUsed(u.word, a) = PrevUsed(s.word, a),
         SameBehind(s.word, u.word, b)
  PROVE  ChangedWithin(s.word, u.word, a, b)
<1>1. DOMAIN s.word = 0..(n - 1) /\ DOMAIN u.word = 0..(n - 1)
  BY DEF Spaces
<1> QED
  BY <1>1 DEF ChangedWithin, Same, SameBehind

\* The chunk at a and those up to b become one in use.
LEMMA BecomesUsed ==
  ASSUME NEW s, NEW n, NEW t, NEW g, NEW l, Heap(s, n, t, g, l),
         NEW a \in t \ {0}, NEW b \in t, a < b,
         l \subseteq a..(b - 1), g \cap (a..(b - 1)) = {},
         NEW u \in Spaces(n), SameBins(s, u), SameLimit(s, u), SameTop(s, u),
         DvMoves(s, u, a, b, {}),
         Same(s.word, u.word, n, a + 1 .. b + 1),
         UsedChunk(u.word, a, b - a), PrevUsed(u.word, a) = PrevUsed(s.word, a),
         SameBehind(s.word, u.word, b), PrevUsed(u.word, b)
  PROVE  LET new == Replaced(t, a, b, {a})
         IN  /\ Heap(u, n, new, g, {})
             /\ Changes(s.word, t, u.word, new, a..(b - 1), {a})
<1> DEFINE x == u.word
           end == End(n)
<1>1. /\ a \in Nat /\ b \in Nat /\ b < end /\ n \in Nat /\ s \in Spaces(n)
      /\ s.top \in t
  BY ChunkFacts DEF Heap, TopHolds
<1>2. b - a >= 4
  <2>1. Size(s.word, a) \in Nat /\ a + Size(s.word, a) <= b
    BY <1>1, ChunkFacts DEF Heap, Tiled
  <2>2. a # s.top
    <3>1. s.top + Size(s.word, s.top) = end
      BY DEF Heap, TopHolds
    <3> QED
      BY <2>1, <3>1, <1>1
  <2> QED
    BY <1>1, <2>1, <2>2, ChunkFacts
<1> HIDE DEF end
<1>3. Ends(x, a, b, end)
  BY <1>1, <1>2 DEF Ends, UsedChunk, MinChunkSize
<1>4. TiledBetween(x, {a}, a, b, end)
  BY <1>1, <1>3, OneChunk
<1>5. ChangedWithin(s.word, x, a, b)
  BY <1>1, WordsWithin
<1>6. DvMoves(s, u, a, b, {a}) /\ TopMoves(s, u, b, {a}, end)
  BY <1>1 DEF DvMoves, TopMoves
<1>7. Users(x, {a}) = {a} /\ Used(x, a)
  BY DEF Users, UsedChunk
<1>8. \A p \in {a} : p \in {} <=> ~Used(x, p) /\ p # u.top /\ p # u.dv
  BY <1>7
<1> DEFINE new == Replaced(t, a, b, {a})
<1>9. Heap(u, n, new, g, {}) /\ Changes(s.word, t, x, new, a..(b - 1), Users(x, {a}))
  BY <1>4, <1>5, <1>6, <1>7, <1>8, Retiled DEF end
<1> QED
  BY <1>7, <1>9

\* A free chunk is dv or remains in the hands of the call.
UnlessDv(u, a) == IF u.dv = a THEN {} ELSE {a}

\* They become one free chunk, in the hands of the call if it is not dv.
LEMMA BecomesFree ==
  ASSUME NEW s, NEW n, NEW t, NEW g, NEW l, Heap(s, n, t, g, l),
         NEW a \in t \ {0}, NEW b \in t, a < b,
         l \subseteq a..(b - 1), g \cap (a..(b - 1)) = {},
         NEW u \in Spaces(n), SameBins(s, u), SameLimit(s, u), SameTop(s, u),
         DvMoves(s, u, a, b, {a}),
         Same(s.word, u.word, n, a + 1 .. b + 1),
         UnusedChunk(u.word, a, b - a), PrevUsed(u.word, a),
         PrevUsed(s.word, a), Used(s.word, b), u.word[b] = Foot(b - a),
         SameBehind(s.word, u.word, b), ~PrevUsed(u.word, b)
  PROVE  LET new == Replaced(t, a, b, {a})
         IN  /\ Heap(u, n, new, g, UnlessDv(u, a))
             /\ Changes(s.word, t, u.word, new, a..(b - 1), {})
<1> DEFINE x == u.word
           end == End(n)
<1>1. /\ a \in Nat /\ b \in Nat /\ b < end /\ n \in Nat /\ s \in Spaces(n)
      /\ s.top \in t
  BY ChunkFacts DEF Heap, TopHolds
<1>a. s.top >= b
  <2>1. /\ s.top + Size(s.word, s.top) = end /\ s.top \in Nat
        /\ Size(s.word, s.top) \in Nat
    BY <1>1, ChunkFacts DEF Heap, TopHolds
  <2>2. s.top < b => s.top + Size(s.word, s.top) <= b
    BY <1>1 DEF Heap, Tiled
  <2> QED
    BY <2>1, <2>2, <1>1
<1>2. b - a >= 4
  <2>1. Size(s.word, a) \in Nat /\ a + Size(s.word, a) <= b
    BY <1>1, ChunkFacts DEF Heap, Tiled
  <2>2. a # s.top
    BY <1>a, <1>1
  <2> QED
    BY <1>1, <2>1, <2>2, ChunkFacts
<1> HIDE DEF end
<1>3. Ends(x, a, b, end)
  BY <1>1, <1>2 DEF Ends, UnusedChunk, MinChunkSize, SameBehind, Used, PrevUsed
<1>4. TiledBetween(x, {a}, a, b, end)
  BY <1>1, <1>3, OneChunk
<1>5. ChangedWithin(s.word, x, a, b)
  BY <1>1, WordsWithin
<1>6. TopMoves(s, u, b, {a}, end)
  BY <1>1 DEF TopMoves
<1>7. Users(x, {a}) = {} /\ ~Used(x, a)
  BY DEF Users, UnusedChunk
<1> DEFINE new == Replaced(t, a, b, {a})
           m == UnlessDv(u, a)
<1>8. m \subseteq {a} /\ \A p \in {a} : p \in m <=>
                            ~Used(x, p) /\ p # u.top /\ p # u.dv
  BY <1>1, <1>7, <1>a DEF SameTop, UnlessDv
<1> HIDE DEF m
<1>9. Heap(u, n, new, g, m)
      /\ Changes(s.word, t, x, new, a..(b - 1), Users(x, {a}))
  BY <1>4, <1>5, <1>6, <1>7, <1>8, Retiled DEF end
<1> QED
  BY <1>7, <1>9 DEF m

\* Two chunks of a heap, the first of which is not top.
LEMMA BeforeTop ==
  ASSUME NEW s, NEW n, NEW t, NEW g, NEW l, Heap(s, n, t, g, l),
         NEW a \in t, NEW b \in t, a < b
  PROVE  /\ a \in Nat /\ b \in Nat /\ n \in Nat /\ End(n) \in Nat
         /\ b < End(n) /\ b <= s.top /\ s.top \in Nat /\ b - a >= 4
         /\ End(n) + 4 <= n /\ s \in Spaces(n) /\ a # s.top
<1> DEFINE end == End(n)
<1>1. /\ a \in Nat /\ b \in Nat /\ b < end /\ n \in Nat /\ s \in Spaces(n)
      /\ s.top \in t /\ s.top \in Nat /\ Size(s.word, s.top) \in Nat
      /\ end \in Nat /\ end + 4 <= n
  BY ChunkFacts, EndIsInside DEF Heap, TopHolds
<1>2. \A p, q \in t : p < q => p + Size(s.word, p) <= q
  BY DEF Heap, Tiled
<1>3. s.top + Size(s.word, s.top) = end
  BY DEF Heap, TopHolds
<1> HIDE DEF end
<1>4. s.top >= b
  <2>1. s.top < b => s.top + Size(s.word, s.top) <= b
    BY <1>1, <1>2
  <2> QED
    BY <2>1, <1>1, <1>3
<1>5. a # s.top
  BY <1>1, <1>4
<1>6. b - a >= 4
  <2>1. Size(s.word, a) \in Nat /\ Size(s.word, a) >= 4
    BY <1>5, ChunkFacts
  <2>2. a + Size(s.word, a) <= b
    BY <1>2
  <2> QED
    BY <1>1, <2>1, <2>2
<1> QED
  BY <1>1, <1>4, <1>5, <1>6 DEF end

\* A chunk in use and one behind it, which is free.
LEMMA BecomesUsedAndFree ==
  ASSUME NEW s, NEW n, NEW t, NEW g, NEW l, Heap(s, n, t, g, l),
         NEW a \in t \ {0}, NEW b \in t, a < b,
         l \subseteq a..(b - 1), g \cap (a..(b - 1)) = {},
         NEW m \in Nat, a + 4 <= m, m + 4 <= b,
         NEW u \in Spaces(n), SameBins(s, u), SameLimit(s, u), SameTop(s, u),
         DvMoves(s, u, a, b, {m}),
         Same(s.word, u.word, n, a + 1 .. b + 1),
         UsedChunk(u.word, a, m - a), PrevUsed(u.word, a) = PrevUsed(s.word, a),
         UnusedChunk(u.word, m, b - m), PrevUsed(u.word, m),
         Used(s.word, b), u.word[b] = Foot(b - m),
         SameBehind(s.word, u.word, b), ~PrevUsed(u.word, b)
  PROVE  LET new == Replaced(t, a, b, {a, m})
         IN  /\ Heap(u, n, new, g, IF u.dv = m THEN {} ELSE {m})
             /\ Changes(s.word, t, u.word, new, a..(b - 1), {a})
<1> DEFINE x == u.word
           end == End(n)
<1>1. /\ a \in Nat /\ b \in Nat /\ n \in Nat /\ end \in Nat
      /\ b < end /\ b <= s.top /\ s.top \in Nat /\ s \in Spaces(n)
  BY BeforeTop
<1> HIDE DEF end
<1>2. a < m /\ m < b /\ m - a \in Nat /\ b - m \in Nat /\ m # end
      /\ m - a >= 4 /\ b - m >= 4 /\ m # 0 /\ m # s.top
      /\ a + (m - a) = m /\ m + (b - m) = b
  <2>1. a < m /\ m < b /\ m # end /\ m # 0 /\ m # s.top
    BY <1>1
  <2>2. /\ m - a \in Nat /\ m - a >= 4 /\ a + (m - a) = m
        /\ b - m \in Nat /\ b - m >= 4 /\ m + (b - m) = b
    BY <1>1
  <2> QED
    BY <2>1, <2>2
<1>3. Ends(x, a, m, end)
  BY <1>1, <1>2 DEF Ends, UsedChunk, MinChunkSize, Used, PrevUsed
<1>4. Ends(x, m, b, end)
  BY <1>1, <1>2 DEF Ends, UnusedChunk, MinChunkSize, SameBehind, Used, PrevUsed
<1>5. TiledBetween(x, {a, m}, a, b, end)
  BY <1>1, <1>2, <1>3, <1>4, TwoChunks
<1>6. ChangedWithin(s.word, x, a, b)
  BY <1>1, WordsWithin
<1>7. DvMoves(s, u, a, b, {a, m}) /\ TopMoves(s, u, b, {a, m}, end)
  BY <1>1 DEF DvMoves, TopMoves
<1>8. Users(x, {a, m}) = {a} /\ Used(x, a) /\ ~Used(x, m)
  BY <1>2 DEF Users, UsedChunk, UnusedChunk
<1> DEFINE new == Replaced(t, a, b, {a, m})
           rest == IF u.dv = m THEN {} ELSE {m}
<1>9. rest \subseteq {a, m} /\ \A p \in {a, m} : p \in rest <=>
                                ~Used(x, p) /\ p # u.top /\ p # u.dv
  BY <1>1, <1>2, <1>8 DEF SameTop
<1> HIDE DEF rest
<1>10. Heap(u, n, new, g, rest)
      /\ Changes(s.word, t, x, new, a..(b - 1), Users(x, {a, m}))
  BY <1>5, <1>6, <1>7, <1>8, <1>9, Retiled DEF end
<1> QED
  BY <1>8, <1>10 DEF rest

\* Two chunks in use.
LEMMA BecomesUsedTwice ==
  ASSUME NEW s, NEW n, NEW t, NEW g, NEW l, Heap(s, n, t, g, l),
         NEW a \in t \ {0}, NEW b \in t, a < b,
         l \subseteq a..(b - 1), g \cap (a..(b - 1)) = {},
         NEW m \in Nat, a + 4 <= m, m + 4 <= b,
         NEW u \in Spaces(n), SameBins(s, u), SameLimit(s, u), SameTop(s, u),
         DvMoves(s, u, a, b, {}),
         Same(s.word, u.word, n, a + 1 .. b + 1),
         UsedChunk(u.word, a, m - a), PrevUsed(u.word, a) = PrevUsed(s.word, a),
         UsedChunk(u.word, m, b - m), PrevUsed(u.word, m),
         SameBehind(s.word, u.word, b), PrevUsed(u.word, b)
  PROVE  LET new == Replaced(t, a, b, {a, m})
         IN  /\ Heap(u, n, new, g, {})
             /\ Changes(s.word, t, u.word, new, a..(b - 1), {a, m})
<1> DEFINE x == u.word
           end == End(n)
<1>1. /\ a \in Nat /\ b \in Nat /\ n \in Nat /\ end \in Nat
      /\ b < end /\ b <= s.top /\ s.top \in Nat /\ s \in Spaces(n)
  BY BeforeTop
<1> HIDE DEF end
<1>2. a < m /\ m < b /\ m - a \in Nat /\ b - m \in Nat /\ m # end
      /\ m - a >= 4 /\ b - m >= 4
      /\ a + (m - a) = m /\ m + (b - m) = b
  BY <1>1
<1>3. Ends(x, a, m, end)
  BY <1>1, <1>2 DEF Ends, UsedChunk, MinChunkSize, Used, PrevUsed
<1>4. Ends(x, m, b, end)
  BY <1>1, <1>2 DEF Ends, UsedChunk, MinChunkSize, SameBehind, Used, PrevUsed
<1>5. TiledBetween(x, {a, m}, a, b, end)
  BY <1>1, <1>2, <1>3, <1>4, TwoChunks
<1>6. ChangedWithin(s.word, x, a, b)
  BY <1>1, WordsWithin
<1>7. DvMoves(s, u, a, b, {a, m}) /\ TopMoves(s, u, b, {a, m}, end)
  BY <1>1 DEF DvMoves, TopMoves
<1>8. Users(x, {a, m}) = {a, m} /\ Used(x, a) /\ Used(x, m)
  BY <1>2 DEF Users, UsedChunk
<1> DEFINE new == Replaced(t, a, b, {a, m})
<1>9. {} \subseteq {a, m} /\ \A p \in {a, m} : p \in {} <=>
                                ~Used(x, p) /\ p # u.top /\ p # u.dv
  BY <1>8
<1>10. Heap(u, n, new, g, {})
      /\ Changes(s.word, t, x, new, a..(b - 1), Users(x, {a, m}))
  BY <1>5, <1>6, <1>7, <1>8, <1>9, Retiled DEF end
<1> QED
  BY <1>8, <1>10

\* All from a on becomes top.
LEMMA BecomesTop ==
  ASSUME NEW s, NEW n, NEW t, NEW g, NEW l, Heap(s, n, t, g, l),
         NEW a \in t \ {0},
         l \subseteq a..(End(n) - 1), g \cap (a..(End(n) - 1)) = {},
         NEW u \in Spaces(n), SameBins(s, u), SameLimit(s, u),
         DvMoves(s, u, a, End(n), {}),
         Same(s.word, u.word, n, a + 1 .. End(n)),
         PrevUsed(s.word, a), PrevUsed(u.word, a),
         UnusedChunk(u.word, a, End(n) - a),
         u.top = a, u.topsize = End(n) - a
  PROVE  LET new == Replaced(t, a, End(n), {a})
         IN  /\ Heap(u, n, new, g, {})
             /\ Changes(s.word, t, u.word, new, a..(End(n) - 1), {})
<1> DEFINE x == u.word
           end == End(n)
<1>1. /\ a \in Nat /\ n \in Nat /\ end \in Nat /\ a < end /\ end + 4 <= n
      /\ s \in Spaces(n) /\ s.top \in t
  BY ChunkFacts, EndIsInside DEF Heap, TopHolds
<1>2. ~PrevUsed(s.word, end)
  <2>1. Ends(s.word, s.top, end, end) /\ ~Used(s.word, s.top)
    <3>1. s.top + Size(s.word, s.top) = end /\ ~Used(s.word, s.top)
      BY DEF Heap, TopHolds
    <3> QED
      BY <1>1, <3>1, ChunkFacts
  <2> QED
    BY <2>1 DEF Ends, Used, PrevUsed
<1> HIDE DEF end
<1>3. x[end + 1] = s.word[end + 1] /\ a + (end - a) = end /\ end - a \in Nat
  BY <1>1 DEF Same, end
<1>4. Ends(x, a, end, end)
  BY <1>1, <1>2, <1>3 DEF Ends, UnusedChunk, Used, PrevUsed, end
<1>5. TiledBetween(x, {a}, a, end, end)
  BY <1>1, <1>4, OneChunk
<1>6. ChangedWithin(s.word, x, a, end)
  <2>1. SameBehind(s.word, x, end)
    BY <1>3 DEF SameBehind, Used
  <2>2. Same(s.word, x, n, a + 1 .. end + 1)
    BY <1>1 DEF Same, end
  <2>3. PrevUsed(x, a) = PrevUsed(s.word, a)
    BY DEF PrevUsed
  <2> QED
    BY <1>1, <2>1, <2>2, <2>3, WordsWithin
<1>7. DvMoves(s, u, a, end, {a}) /\ TopMoves(s, u, end, {a}, end)
  BY <1>1, <1>3 DEF DvMoves, TopMoves, TopHolds, UnusedChunk, end
<1>8. Users(x, {a}) = {}
  BY DEF Users, UnusedChunk
<1> DEFINE new == Replaced(t, a, end, {a})
<1>9. {} \subseteq {a} /\ \A p \in {a} : p \in {} <=>
                                ~Used(x, p) /\ p # u.top /\ p # u.dv
  OBVIOUS
<1>10. Heap(u, n, new, g, {})
      /\ Changes(s.word, t, x, new, a..(end - 1), Users(x, {a}))
  BY <1>1, <1>5, <1>6, <1>7, <1>9, Retiled DEF end
<1> QED
  BY <1>8, <1>10 DEF end

\* A chunk in use, and all behind it becomes top.
LEMMA BecomesUsedAndTop ==
  ASSUME NEW s, NEW n, NEW t, NEW g, NEW l, Heap(s, n, t, g, l),
         NEW a \in t \ {0},
         l \subseteq a..(End(n) - 1), g \cap (a..(End(n) - 1)) = {},
         NEW m \in Nat, a + 4 <= m, m < End(n),
         NEW u \in Spaces(n), SameBins(s, u), SameLimit(s, u),
         DvMoves(s, u, a, End(n), {}),
         Same(s.word, u.word, n, a + 1 .. End(n)),
         UsedChunk(u.word, a, m - a), PrevUsed(u.word, a) = PrevUsed(s.word, a),
         UnusedChunk(u.word, m, End(n) - m), PrevUsed(u.word, m),
         u.top = m, u.topsize = End(n) - m
  PROVE  LET new == Replaced(t, a, End(n), {a, m})
         IN  /\ Heap(u, n, new, g, {})
             /\ Changes(s.word, t, u.word, new, a..(End(n) - 1), {a})
<1> DEFINE x == u.word
           end == End(n)
<1>1. /\ a \in Nat /\ n \in Nat /\ end \in Nat /\ a < end /\ end + 4 <= n
      /\ s \in Spaces(n) /\ s.top \in t
  BY ChunkFacts, EndIsInside DEF Heap, TopHolds
<1>2. ~PrevUsed(s.word, end)
  <2>1. Ends(s.word, s.top, end, end) /\ ~Used(s.word, s.top)
    <3>1. s.top + Size(s.word, s.top) = end /\ ~Used(s.word, s.top)
      BY DEF Heap, TopHolds
    <3> QED
      BY <1>1, <3>1, ChunkFacts
  <2> QED
    BY <2>1 DEF Ends, Used, PrevUsed
<1> HIDE DEF end
<1>a. a < m /\ m < end /\ m - a \in Nat /\ m - a >= 4 /\ a + (m - a) = m
      /\ m # end
  BY <1>1 DEF end
<1>3. x[end + 1] = s.word[end + 1] /\ m + (end - m) = end /\ end - m \in Nat
  BY <1>1, <1>a DEF Same, end
<1>4. Ends(x, m, end, end)
  BY <1>1, <1>2, <1>3 DEF Ends, UnusedChunk, Used, PrevUsed, end
<1>b. Ends(x, a, m, end)
  BY <1>a DEF Ends, UsedChunk, Used, PrevUsed, MinChunkSize
<1>5. TiledBetween(x, {a, m}, a, end, end)
  BY <1>1, <1>a, <1>b, <1>4, TwoChunks
<1>6. ChangedWithin(s.word, x, a, end)
  <2>1. SameBehind(s.word, x, end)
    BY <1>3 DEF SameBehind, Used
  <2>2. Same(s.word, x, n, a + 1 .. end + 1)
    BY <1>1 DEF Same, end
  <2> QED
    BY <1>1, <2>1, <2>2, WordsWithin
<1>7. DvMoves(s, u, a, end, {a, m}) /\ TopMoves(s, u, end, {a, m}, end)
  BY <1>1, <1>3 DEF DvMoves, TopMoves, TopHolds, UnusedChunk, end
<1>8. Users(x, {a, m}) = {a} /\ Used(x, a)
  BY <1>a DEF Users, UsedChunk, UnusedChunk
<1> DEFINE new == Replaced(t, a, end, {a, m})
<1>9. {} \subseteq {a, m} /\ \A p \in {a, m} : p \in {} <=>
                                ~Used(x, p) /\ p # u.top /\ p # u.dv
  BY <1>8
<1>10. Heap(u, n, new, g, {})
      /\ Changes(s.word, t, x, new, a..(end - 1), Users(x, {a, m}))
  BY <1>1, <1>5, <1>6, <1>7, <1>8, <1>9, Retiled DEF end
<1> QED
  BY <1>8, <1>10 DEF end

------------------------------------------------------------------------------
(* Chunks leave bins and enter them.                                        *)

\* Nothing but bins changes.
OnlyBins(s, u) ==
  /\ u.word = s.word /\ SameDv(s, u) /\ SameTop(s, u) /\ SameLimit(s, u)

\* A heap stays one when only bins change, with the chunks in hand to match.
LEMMA BinsChange ==
  ASSUME NEW s, NEW n, NEW t, NEW g, NEW l, Heap(s, n, t, g, l),
         NEW u \in Spaces(n), OnlyBins(s, u), NEW h, NEW m, Listed(u, h),
         h \cup m = g \cup l, h \cap m = {}
  PROVE  Heap(u, n, t, h, m)
<1>1. h \subseteq t /\ m \subseteq t
  BY DEF Heap
<1>2. TopHolds(u, t, End(n)) /\ DvHolds(u, t) /\ Limited(u, n) /\ u.extern
  BY DEF Heap, OnlyBins, TopHolds, DvHolds, SameDv, SameTop, SameLimit, Limited
<1> QED
  BY <1>1, <1>2 DEF Heap, OnlyBins, SameDv, SameTop

\* Words inside a chunk that is in no bin.
LEMMA InsideIsFree ==
  ASSUME NEW s, NEW n, NEW t, NEW g, NEW l, Heap(s, n, t, g, l),
         NEW p \in t, p \notin g, NEW u \in Spaces(n), OnlyWords(s, u),
         NEW m \in Nat,
         \/ m < p + Size(s.word, p)
         \/ Used(s.word, p) /\ m <= p + Size(s.word, p),
         Same(s.word, u.word, n, p + 2 .. m)
  PROVE  /\ Heap(u, n, t, g, l)
         /\ \A q \in t : u.word[q + 1] = s.word[q + 1]
         /\ \A q \in t \ {p} : Kept(s.word, u.word, q)
<1> DEFINE w == s.word
           x == u.word
           end == End(n)
<1>1. Tiled(w, t, end) /\ s \in Spaces(n)
  BY DEF Heap
<1>2. /\ DOMAIN x = DOMAIN w
      /\ \A i \in DOMAIN w : i \notin p + 2 .. m => x[i] = w[i]
  BY <1>1 DEF Spaces, Same
<1> HIDE DEF w, x, end
<1>3. /\ Tiled(x, t, end)
      /\ \A q \in t : x[q + 1] = w[q + 1] /\ Size(x, q) = Size(w, q)
      /\ \A q \in t \ {p} : Kept(w, x, q)
  BY <1>1, <1>2, InsideChanges DEF w
<1>4. \A q \in t : Used(x, q) = Used(w, q)
  BY <1>3 DEF Used
<1>5. TopHolds(u, t, end) /\ DvHolds(u, t)
  BY <1>3, <1>4 DEF Heap, TopHolds, DvHolds, OnlyWords, SameDv, SameTop, w, x, end
<1>6. Listed(u, g)
  <2>1. ASSUME NEW q \in g
        PROVE  /\ q \in Nat /\ Size(w, q) \in Nat
               /\ Size(w, q) >= 4 /\ Kept(w, x, q)
    <3>1. q \in t /\ q # s.top /\ q # p
      BY DEF Heap
    <3> QED
      BY <1>3, <3>1, ChunkFacts DEF w
  <2>2. Listed(s, g) /\ SameBins(s, u)
    BY DEF Heap, OnlyWords
  <2> QED
    BY <2>1, <2>2, ListedAfter DEF w, x
<1>7. Heap(u, n, t, g, l)
  BY <1>3, <1>4, <1>5, <1>6
     DEF Heap, OnlyWords, SameDv, SameTop, SameLimit, Limited, w, x, end
<1> QED
  BY <1>3, <1>7 DEF w, x

\* What is well-formed as a trie has the type of one.
LEMMA TriesAre ==
  ASSUME NEW trie, IsTrie(trie)
  PROVE  trie \in Tries
BY DEF IsTrie, Tries

\* unlink_small_chunk takes that chunk from its smallbin, and nothing else.
LEMMA SmallIsUnlinked ==
  ASSUME NEW n, NEW s \in Spaces(n), NEW g, Listed(s, g), NEW p \in g,
         NEW size \in Nat, size = Size(s.word, p), IsSmall(size)
  PROVE  LET u == UnlinkSmallChunk(s, p, size)
         IN  u \in Spaces(n) /\ OnlyBins(s, u) /\ Listed(u, g \ {p})
<1> DEFINE w == s.word
           list == s.smallbins[size]
           h == g \ {p}
           map == IF list = <<p>> THEN s.smallmap \ {size} ELSE s.smallmap
           bins == [s.smallbins EXCEPT ![size] = Without(list, p)]
           u == [s EXCEPT !.smallbins = bins, !.smallmap = map]
<1>1. size \in 0..(NSmallbins - 1) /\ NSmallbins \in Nat
  BY SmallbinsAreNumbered DEF IsSmall
<1>2. p \in Small(w, g, size)
  BY DEF Small
<1>3. size \in s.smallmap
  BY <1>1, <1>2 DEF Listed
<1>4. /\ list # <<>> /\ IsInjective(list) /\ Range(list) = Small(w, g, size)
  BY <1>3 DEF Listed
<1>5. list \in Seq(Nat) /\ s.smallbins \in [0..(NSmallbins - 1) -> Seq(Nat)]
      /\ s.smallmap \subseteq 0..(NSmallbins - 1)
  BY <1>1 DEF Spaces, Listed
<1> HIDE DEF list
<1>6. /\ Without(list, p) \in Seq(Nat)
      /\ Len(Without(list, p)) = Len(list) - 1
      /\ IsInjective(Without(list, p))
      /\ Range(Without(list, p)) = Range(list) \ {p}
  BY <1>2, <1>4, <1>5, WithoutOne
<1>7. list # <<p>> => Without(list, p) # <<>>
  <2>1. list # <<p>> => Len(list) > 1
    BY <1>2, <1>4, <1>5, OnlyMember
  <2> QED
    BY <1>6, <2>1
<1>8. bins \in [0..(NSmallbins - 1) -> Seq(Nat)] /\ map \subseteq 0..(NSmallbins - 1)
      /\ bins[size] = Without(list, p)
      /\ \A i \in 0..(NSmallbins - 1) : i # size => bins[i] = s.smallbins[i]
  BY <1>1, <1>5, <1>6
<1>9. \A i : i # size => Small(w, h, i) = Small(w, g, i)
  BY DEF Small
<1>10. Small(w, h, size) = Small(w, g, size) \ {p}
  BY DEF Small
<1>11. \A i : Large(w, h, i) = Large(w, g, i)
  BY DEF Large
<1>12. list = <<p>> => Small(w, h, size) = {}
  <2>1. p \in Nat
    BY <1>2, <1>4, <1>5, MembersOf
  <2> QED
    BY <1>4, <1>10, <2>1, SingleRing
<1> HIDE DEF bins, map, h
<1>13. u \in Spaces(n) /\ OnlyBins(s, u)
       /\ u.treebins = s.treebins /\ u.treemap = s.treemap
       /\ u.smallbins = bins /\ u.smallmap = map
  <2>1. map \in SUBSET Nat
    BY <1>1, <1>8
  <2> QED
    BY <1>8, <2>1 DEF Spaces, OnlyBins, SameDv, SameTop, SameLimit
<1>14. UnlinkSmallChunk(s, p, size) = u
  BY <1>1, <1>5 DEF UnlinkSmallChunk, bins, map, list
<1> HIDE DEF u
<1>15. ASSUME NEW i \in map
       PROVE  bins[i] # <<>> /\ IsInjective(bins[i])
              /\ Range(bins[i]) = Small(w, h, i)
  <2>1. CASE i = size
    <3>1. list # <<p>>
      BY <1>15, <2>1 DEF map
    <3> QED
      BY <1>4, <1>6, <1>7, <1>8, <1>10, <2>1, <3>1
  <2>2. CASE i # size
    <3>1. i \in s.smallmap /\ i \in 0..(NSmallbins - 1)
      BY <1>5, <1>15, <2>2 DEF map
    <3>2. bins[i] = s.smallbins[i] /\ Small(w, h, i) = Small(w, g, i)
      BY <1>8, <1>9, <2>2, <3>1
    <3> QED
      BY <3>1, <3>2 DEF Listed
  <2> QED
    BY <2>1, <2>2
<1>16. ASSUME NEW i \in 0..(NSmallbins - 1), i \notin map
       PROVE  Small(w, h, i) = {}
  <2>1. CASE i = size
    BY <1>3, <1>12, <1>16, <2>1 DEF map
  <2>2. CASE i # size
    <3>1. i \notin s.smallmap
      BY <1>16, <2>2 DEF map
    <3> QED
      BY <1>9, <2>2, <3>1 DEF Listed
  <2> QED
    BY <2>1, <2>2
<1>17. Listed(u, h)
  <2>1. \A q \in h : Linked(w, q)
    BY DEF Listed, h
  <2>2. /\ s.treemap \subseteq 0..(NTreebins - 1)
        /\ \A i \in 0..(NTreebins - 1) :
             /\ Holds(w, s.treebins[i], i, Large(w, g, i))
             /\ i \in s.treemap <=> Large(w, g, i) # {}
    BY DEF Listed
  <2>3. u.word = w
    BY <1>13 DEF OnlyBins
  <2> QED
    BY <1>8, <1>11, <1>13, <1>15, <1>16, <2>1, <2>2, <2>3 DEF Listed
<1> QED
  BY <1>13, <1>14, <1>17 DEF h

\* unlink_large_chunk takes that chunk from its trie, and nothing else.
LEMMA LargeIsUnlinked ==
  ASSUME NEW n, NEW s \in Spaces(n), NEW g, Listed(s, g), NEW p \in g,
         NEW size \in Nat, size = Size(s.word, p), ~IsSmall(size)
  PROVE  LET u == UnlinkLargeChunk(s, p)
         IN  u \in Spaces(n) /\ OnlyBins(s, u) /\ Listed(u, g \ {p})
<1> DEFINE w == s.word
           b == TreeIndex(size)
           trie == s.treebins[b]
           c == Large(w, g, b)
           h == g \ {p}
           new == UnlinkedTrie(trie, p)
           map == IF IsLast(trie, p) THEN s.treemap \ {b} ELSE s.treemap
           bins == [s.treebins EXCEPT ![b] = new]
           u == [s EXCEPT !.treebins = bins, !.treemap = map]
<1>1. b \in 0..(NTreebins - 1) /\ NTreebins \in Nat
  BY IndexIsABin, BinsAssumption
<1>2. p \in c
  BY DEF Large
<1>3. Holds(w, trie, b, c)
  BY <1>1 DEF Listed
<1>4. s.treebins \in [0..(NTreebins - 1) -> Tries]
      /\ s.treemap \subseteq 0..(NTreebins - 1)
  BY DEF Spaces, Listed
<1>5. UnlinkLargeChunk(s, p) = u
  <2>1. b = TreeIndex(ChunkSize(s, p))
    BY DEF ChunkSize, Size
  <2> HIDE DEF b
  <2> QED
    BY <1>1, <1>4, <2>1 DEF UnlinkLargeChunk, UnlinkFromBin
<1> HIDE DEF b, trie, c
<1>6. Holds(w, new, b, c \ {p}) /\ (IsLast(trie, p) <=> c \ {p} = {})
  BY <1>2, <1>3, UnlinkedIsHeld
<1>7. new \in Tries
  BY <1>6, TriesAre DEF Holds
<1> HIDE DEF new
<1>8. bins \in [0..(NTreebins - 1) -> Tries] /\ map \subseteq 0..(NTreebins - 1)
      /\ bins[b] = new
      /\ \A i \in 0..(NTreebins - 1) : i # b => bins[i] = s.treebins[i]
  BY <1>1, <1>4, <1>7
<1>9. \A i : i # b => Large(w, h, i) = Large(w, g, i)
  BY DEF Large, b
<1>10. Large(w, h, b) = c \ {p}
  BY DEF Large, c
<1>11. \A i \in 0..(NSmallbins - 1) : Small(w, h, i) = Small(w, g, i)
  BY SmallbinsAreNumbered DEF Small, IsSmall
<1> HIDE DEF bins, map, h
<1>12. u \in Spaces(n) /\ OnlyBins(s, u)
       /\ u.smallbins = s.smallbins /\ u.smallmap = s.smallmap
       /\ u.treebins = bins /\ u.treemap = map
  <2>1. map \in SUBSET Nat
    BY <1>1, <1>8
  <2> QED
    BY <1>8, <2>1 DEF Spaces, OnlyBins, SameDv, SameTop, SameLimit
<1> HIDE DEF u
<1>13. ASSUME NEW i \in 0..(NTreebins - 1)
       PROVE  /\ Holds(w, bins[i], i, Large(w, h, i))
              /\ i \in map <=> Large(w, h, i) # {}
  <2>1. CASE i = b
    <3>1. b \in s.treemap
      BY <1>1, <1>2 DEF Listed, c
    <3> QED
      BY <1>6, <1>8, <1>10, <2>1, <3>1 DEF map
  <2>2. CASE i # b
    <3>1. bins[i] = s.treebins[i] /\ Large(w, h, i) = Large(w, g, i)
          /\ (i \in map <=> i \in s.treemap)
      BY <1>8, <1>9, <2>2 DEF map
    <3> QED
      BY <3>1 DEF Listed
  <2> QED
    BY <2>1, <2>2
<1>14. Listed(u, h)
  <2>1. \A q \in h : Linked(w, q)
    BY DEF Listed, h
  <2>2. /\ s.smallmap \subseteq 0..(NSmallbins - 1)
        /\ \A i \in s.smallmap :
             /\ s.smallbins[i] # <<>> /\ IsInjective(s.smallbins[i])
             /\ Range(s.smallbins[i]) = Small(w, g, i)
        /\ \A i \in 0..(NSmallbins - 1) : i \notin s.smallmap => Small(w, g, i) = {}
    BY DEF Listed
  <2>3. \A i \in s.smallmap : Small(w, h, i) = Small(w, g, i)
    BY <1>11, <2>2
  <2>4. u.word = w
    BY <1>12 DEF OnlyBins
  <2> QED
    BY <1>8, <1>11, <1>12, <1>13, <2>1, <2>2, <2>3, <2>4 DEF Listed
<1> QED
  BY <1>5, <1>12, <1>14 DEF h

\* r: the links of p are written, but it is in no bin yet.
LEMMA SmallIsInserted ==
  ASSUME NEW n, NEW r \in Spaces(n), NEW g, Listed(r, g), NEW p \in Nat,
         p \notin g, NEW size \in Nat, size = Size(r.word, p), IsSmall(size),
         Linked(r.word, p)
  PROVE  LET u == [r EXCEPT
                     !.smallbins[size] =
                       <<p>> \o (IF size \in r.smallmap THEN @ ELSE <<>>),
                     !.smallmap = @ \cup {size}]
         IN  u \in Spaces(n) /\ OnlyBins(r, u) /\ Listed(u, g \cup {p})
<1> DEFINE w == r.word
           list == IF size \in r.smallmap THEN r.smallbins[size] ELSE <<>>
           h == g \cup {p}
           map == r.smallmap \cup {size}
           bins == [r.smallbins EXCEPT ![size] = <<p>> \o list]
           u == [r EXCEPT !.smallbins = bins, !.smallmap = map]
           v == [r EXCEPT
                     !.smallbins[size] =
                       <<p>> \o (IF size \in r.smallmap THEN @ ELSE <<>>),
                     !.smallmap = @ \cup {size}]
<1>1. size \in 0..(NSmallbins - 1) /\ NSmallbins \in Nat
  BY SmallbinsAreNumbered DEF IsSmall
<1>2. r.smallbins \in [0..(NSmallbins - 1) -> Seq(Nat)]
      /\ r.smallmap \subseteq 0..(NSmallbins - 1)
  BY DEF Spaces, Listed
<1>3. v = u
  BY <1>1, <1>2
<1> HIDE DEF v
<1>4. list \in Seq(Nat) /\ IsInjective(list) /\ Range(list) = Small(w, g, size)
  <2>1. CASE size \in r.smallmap
    BY <1>1, <1>2, <2>1 DEF Listed
  <2>2. CASE size \notin r.smallmap
    <3>1. Small(w, g, size) = {}
      BY <1>1, <2>2 DEF Listed
    <3>2. <<>> \in Seq(Nat) /\ Range(<<>>) = {} /\ IsInjective(<<>>)
      BY DEF Range, IsInjective
    <3> QED
      BY <2>2, <3>1, <3>2
  <2> QED
    BY <2>1, <2>2
<1> HIDE DEF list
<1>5. /\ <<p>> \o list \in Seq(Nat) /\ <<p>> \o list # <<>>
      /\ IsInjective(<<p>> \o list)
      /\ Range(<<p>> \o list) = Range(list) \cup {p}
  <2>1. p \notin Range(list)
    BY <1>4 DEF Small
  <2> QED
    BY <1>4, <2>1, ListGainsOne
<1> DEFINE longer == <<p>> \o list
<1>6. bins = [r.smallbins EXCEPT ![size] = longer]
  OBVIOUS
<1> HIDE DEF longer, bins
<1>8. bins \in [0..(NSmallbins - 1) -> Seq(Nat)] /\ map \subseteq 0..(NSmallbins - 1)
      /\ bins[size] = longer
      /\ \A i \in 0..(NSmallbins - 1) : i # size => bins[i] = r.smallbins[i]
  BY <1>1, <1>2, <1>5, <1>6 DEF longer
<1>9. \A i : i # size => Small(w, h, i) = Small(w, g, i)
  BY DEF Small
<1>10. Small(w, h, size) = Small(w, g, size) \cup {p}
  BY DEF Small
<1>11. \A i : Large(w, h, i) = Large(w, g, i)
  BY DEF Large
<1>12. Range(longer) = Small(w, h, size) /\ longer # <<>> /\ IsInjective(longer)
  BY <1>4, <1>5, <1>10 DEF longer
<1> HIDE DEF map, h
<1>13. u \in Spaces(n) /\ OnlyBins(r, u)
       /\ u.treebins = r.treebins /\ u.treemap = r.treemap
       /\ u.smallbins = bins /\ u.smallmap = map
  <2>1. map \in SUBSET Nat
    BY <1>1, <1>8
  <2> QED
    BY <1>8, <2>1 DEF Spaces, OnlyBins, SameDv, SameTop, SameLimit
<1> HIDE DEF u
<1>14. ASSUME NEW i \in map
       PROVE  bins[i] # <<>> /\ IsInjective(bins[i])
              /\ Range(bins[i]) = Small(w, h, i)
  <2>1. CASE i = size
    BY <1>8, <1>12, <2>1
  <2>2. CASE i # size
    <3>1. i \in r.smallmap /\ i \in 0..(NSmallbins - 1)
      BY <1>2, <1>14, <2>2 DEF map
    <3>2. bins[i] = r.smallbins[i] /\ Small(w, h, i) = Small(w, g, i)
      BY <1>8, <1>9, <2>2, <3>1
    <3> QED
      BY <3>1, <3>2 DEF Listed
  <2> QED
    BY <2>1, <2>2
<1>15. ASSUME NEW i \in 0..(NSmallbins - 1), i \notin map
       PROVE  Small(w, h, i) = {}
  <2>1. i # size /\ i \notin r.smallmap
    BY <1>15 DEF map
  <2> QED
    BY <1>9, <2>1 DEF Listed
<1>16. Listed(u, h)
  <2>1. \A q \in h : Linked(w, q)
    BY DEF Listed, h
  <2>2. /\ r.treemap \subseteq 0..(NTreebins - 1)
        /\ \A i \in 0..(NTreebins - 1) :
             /\ Holds(w, r.treebins[i], i, Large(w, g, i))
             /\ i \in r.treemap <=> Large(w, g, i) # {}
    BY DEF Listed
  <2>3. u.word = w
    BY <1>13 DEF OnlyBins
  <2> QED
    BY <1>8, <1>11, <1>13, <1>14, <1>15, <2>1, <2>2, <2>3 DEF Listed
<1> QED
  BY <1>3, <1>13, <1>16 DEF h, v

\* The place in the trie is looked for before the links are written.
LEMMA LargeIsInserted ==
  ASSUME NEW n, NEW s \in Spaces(n), NEW r \in Spaces(n), NEW g,
         Listed(s, g), Listed(r, g), SameBins(s, r),
         NEW p \in Nat, p \notin g, NEW size \in Nat, size = Size(s.word, p),
         \A q \in g \cup {p} : /\ Size(s.word, q) \in Nat
                               /\ Size(r.word, q) = Size(s.word, q),
         ~IsSmall(size), Linked(r.word, p)
  PROVE  LET i == TreeIndex(size)
             u == [r EXCEPT
                     !.treebins[i] =
                       Inserted(s, IF i \in s.treemap THEN @ ELSE NoTrie, p,
                                size, i),
                     !.treemap = @ \cup {i}]
         IN  u \in Spaces(n) /\ OnlyBins(r, u) /\ Listed(u, g \cup {p})
<1> DEFINE w == r.word
           b == TreeIndex(size)
           trie == IF b \in s.treemap THEN r.treebins[b] ELSE NoTrie
           c == Large(s.word, g, b)
           h == g \cup {p}
           new == Inserted(s, trie, p, size, b)
           map == r.treemap \cup {b}
           bins == [r.treebins EXCEPT ![b] = new]
           u == [r EXCEPT !.treebins = bins, !.treemap = map]
           v == [r EXCEPT
                     !.treebins[b] =
                       Inserted(s, IF b \in s.treemap THEN @ ELSE NoTrie, p,
                                size, b),
                     !.treemap = @ \cup {b}]
<1>1. b \in 0..(NTreebins - 1) /\ NTreebins \in Nat
  BY IndexIsABin, BinsAssumption
<1>2. r.treebins \in [0..(NTreebins - 1) -> Tries] /\ r.treebins = s.treebins
      /\ r.treemap \subseteq 0..(NTreebins - 1) /\ r.treemap = s.treemap
  BY DEF Spaces, Listed, SameBins
<1> HIDE DEF b
<1>3. v = u
  BY <1>1, <1>2
<1> HIDE DEF v
<1>4. Holds(s.word, trie, b, c)
  <2>1. CASE b \in s.treemap
    BY <1>1, <1>2, <2>1 DEF Listed
  <2>2. CASE b \notin s.treemap
    <3>1. c = {}
      BY <1>1, <2>2 DEF Listed
    <3> QED
      BY <2>2, <3>1, NoTrieHoldsNothing
  <2> QED
    BY <2>1, <2>2
<1>5. \A q \in c : Size(s.word, q) \in Nat
  BY DEF Large
<1>6. p \notin c
  BY DEF Large
<1> HIDE DEF trie, c
<1>7. Holds(s.word, new, b, c \cup {p})
  BY <1>1, <1>4, <1>5, <1>6, InsertedIsHeld
<1> HIDE DEF new
<1>8. Holds(w, new, b, c \cup {p}) /\ new \in Tries
  <2>1. \A q \in c \cup {p} : Size(w, q) = Size(s.word, q)
    BY DEF c, Large
  <2> QED
    BY <1>7, <2>1, HoldsAfter, TriesAre DEF Holds
<1>9. bins \in [0..(NTreebins - 1) -> Tries] /\ map \subseteq 0..(NTreebins - 1)
      /\ bins[b] = new
      /\ \A i \in 0..(NTreebins - 1) : i # b => bins[i] = r.treebins[i]
  BY <1>1, <1>2, <1>8
<1>10. \A i : i # b => Large(w, h, i) = Large(w, g, i)
  BY DEF Large, b
<1>11. Large(w, h, b) = c \cup {p}
  BY DEF Large, c, b
<1>12. \A i \in 0..(NSmallbins - 1) : Small(w, h, i) = Small(w, g, i)
  BY SmallbinsAreNumbered DEF Small, IsSmall
<1> HIDE DEF bins, map, h
<1>13. u \in Spaces(n) /\ OnlyBins(r, u)
       /\ u.smallbins = r.smallbins /\ u.smallmap = r.smallmap
       /\ u.treebins = bins /\ u.treemap = map
  <2>1. map \in SUBSET Nat
    BY <1>1, <1>9
  <2> QED
    BY <1>9, <2>1 DEF Spaces, OnlyBins, SameDv, SameTop, SameLimit
<1> HIDE DEF u
<1>14. ASSUME NEW i \in 0..(NTreebins - 1)
       PROVE  /\ Holds(w, bins[i], i, Large(w, h, i))
              /\ i \in map <=> Large(w, h, i) # {}
  <2>1. CASE i = b
    BY <1>8, <1>9, <1>11, <2>1 DEF map
  <2>2. CASE i # b
    <3>1. bins[i] = r.treebins[i] /\ Large(w, h, i) = Large(w, g, i)
          /\ (i \in map <=> i \in r.treemap)
      BY <1>9, <1>10, <2>2 DEF map
    <3> QED
      BY <3>1 DEF Listed
  <2> QED
    BY <2>1, <2>2
<1>15. Listed(u, h)
  <2>1. \A q \in h : Linked(w, q)
    BY DEF Listed, h
  <2>2. /\ r.smallmap \subseteq 0..(NSmallbins - 1)
        /\ \A i \in r.smallmap :
             /\ r.smallbins[i] # <<>> /\ IsInjective(r.smallbins[i])
             /\ Range(r.smallbins[i]) = Small(w, g, i)
        /\ \A i \in 0..(NSmallbins - 1) : i \notin r.smallmap => Small(w, g, i) = {}
    BY DEF Listed
  <2>3. \A i \in r.smallmap : Small(w, h, i) = Small(w, g, i)
    BY <1>12, <2>2
  <2>4. u.word = w
    BY <1>13 DEF OnlyBins
  <2> QED
    BY <1>9, <1>12, <1>13, <1>14, <2>1, <2>2, <2>3, <2>4 DEF Listed
<1> QED
  BY <1>3, <1>13, <1>15 DEF h, v, b

\* One more, and one less.
Plus(g, p) == g \cup {p}
Less(g, p) == g \ {p}

\* A call takes a chunk out of its bin.
LEMMA ChunkUnlinked ==
  ASSUME NEW s, NEW n, NEW t, NEW g, NEW l, Heap(s, n, t, g, l), NEW p \in g,
         NEW size, size = Size(s.word, p)
  PROVE  LET u == UnlinkChunk(s, p, size)
         IN  /\ Heap(u, n, t, Less(g, p), Plus(l, p))
             /\ u \in Spaces(n) /\ OnlyBins(s, u)
<1> DEFINE u == UnlinkChunk(s, p, size)
<1>1. /\ p \in t /\ p \notin l /\ p \in Nat /\ size \in Nat /\ s \in Spaces(n)
      /\ Listed(s, g)
  BY ChunkFacts DEF Heap
<1>2. u \in Spaces(n) /\ OnlyBins(s, u) /\ Listed(u, g \ {p})
  <2>1. CASE IsSmall(size)
    BY <1>1, <2>1, SmallIsUnlinked DEF UnlinkChunk
  <2>2. CASE ~IsSmall(size)
    BY <1>1, <2>2, LargeIsUnlinked DEF UnlinkChunk
  <2> QED
    BY <2>1, <2>2
<1> HIDE DEF u
<1> DEFINE h == g \ {p}
           m == l \cup {p}
<1>3. h \cup m = g \cup l /\ h \cap m = {}
  BY <1>1 DEF Heap
<1>4. Listed(u, h)
  BY <1>2
<1> HIDE DEF h, m
<1>5. Heap(u, n, t, h, m)
  BY <1>2, <1>3, <1>4, BinsChange
<1> QED
  BY <1>2, <1>5 DEF h, m, u, Plus, Less

\* A call puts a chunk in its hands into its bin.
LEMMA ChunkInserted ==
  ASSUME NEW s, NEW n, NEW t, NEW g, NEW l, Heap(s, n, t, g, l), NEW p \in l,
         NEW size, size = Size(s.word, p)
  PROVE  LET u == InsertChunk(s, p, size)
         IN  /\ Heap(u, n, t, Plus(g, p), Less(l, p))
             /\ SameDv(s, u) /\ SameTop(s, u) /\ SameLimit(s, u)
             /\ \A q \in t : u.word[q + 1] = s.word[q + 1]
             /\ \A q \in t \ {p} : Kept(s.word, u.word, q)
<1> DEFINE links == IF IsSmall(size) THEN SmallLinks ELSE TreeLinks
           r == WriteLinks(s, p, links)
           m == p + 1 + links
           u == InsertChunk(s, p, size)
           h == g \cup {p}
           k == l \ {p}
<1>1. /\ p \in t /\ p \notin g /\ p # s.top /\ ~Used(s.word, p)
      /\ s \in Spaces(n) /\ Listed(s, g) /\ g \subseteq t
  BY DEF Heap
<1>2. p \in Nat /\ n \in Nat /\ size \in Nat /\ size >= 4 /\ p + size <= End(n)
      /\ End(n) + 4 <= n
  BY <1>1, ChunkFacts
<1>3. links \in Nat /\ m \in Nat /\ m < p + size /\ m < n
      /\ (~IsSmall(size) => links = 6) /\ links >= 2
  BY <1>2, SmallbinsAreNumbered, EndIsInside
     DEF IsSmall, SmallLinks, TreeLinks, Heap
<1> HIDE DEF links
<1>4. /\ r \in Spaces(n) /\ OnlyWords(s, r)
      /\ \A a \in 0..(n - 1) :
           r.word[a] = IF a \in p + 2 .. p + 1 + links THEN Link ELSE s.word[a]
  <2>1. n \in Nat /\ s \in Spaces(n) /\ p \in Nat /\ links \in Nat
    BY <1>1, <1>2, <1>3
  <2> HIDE DEF u, m, h, k
  <2>2. r \in Spaces(n) /\ OnlyWords(s, r) /\ LinksIn(s.word, r.word, n, p, links)
    BY <2>1, LinksAreWritten
  <2> HIDE DEF r
  <2> QED
    BY <2>2 DEF LinksIn
<1> HIDE DEF r
<1>5. Same(s.word, r.word, n, p + 2 .. m)
  BY <1>2, <1>3, <1>4 DEF Same
<1>6. \A a \in p + 2 .. m : r.word[a] = Link
  BY <1>2, <1>3, <1>4
<1>7. /\ Heap(r, n, t, g, l)
      /\ \A q \in t : r.word[q + 1] = s.word[q + 1]
      /\ \A q \in t \ {p} : Kept(s.word, r.word, q)
  <2> HIDE DEF m
  <2>1. m < p + Size(s.word, p)
    BY <1>3
  <2> QED
    BY <1>1, <1>3, <1>4, <1>5, <2>1, InsideIsFree
<1>8. \A q \in t : Size(r.word, q) = Size(s.word, q)
  BY <1>7 DEF Size
<1>9. Linked(r.word, p)
  <2>1. Size(r.word, p) = size
    BY <1>1, <1>8
  <2>2. p + 2 \in p + 2 .. m /\ p + 3 \in p + 2 .. m
    BY <1>2, <1>3
  <2>3. ~IsSmall(size) => p + 2 .. p + 7 = p + 2 .. m
    BY <1>2, <1>3
  <2> HIDE DEF m
  <2> QED
    BY <1>6, <2>1, <2>2, <2>3 DEF Linked
<1>10. Listed(r, g)
  BY <1>7 DEF Heap
<1>11. u \in Spaces(n) /\ OnlyBins(r, u) /\ Listed(u, h)
  <2>1. CASE IsSmall(size)
    <3>1. u = [r EXCEPT
                     !.smallbins[size] =
                       <<p>> \o (IF size \in r.smallmap THEN @ ELSE <<>>),
                     !.smallmap = @ \cup {size}]
      BY <1>4, <2>1 DEF InsertChunk, InsertSmallChunk, OnlyWords, SameBins, r,
                        links
    <3>2. size = Size(r.word, p)
      BY <1>1, <1>8
    <3> HIDE DEF u
    <3> QED
      BY <1>1, <1>2, <1>4, <1>9, <1>10, <2>1, <3>1, <3>2, SmallIsInserted
  <2>2. CASE ~IsSmall(size)
    <3> DEFINE i == TreeIndex(size)
    <3>1. u = [r EXCEPT
                     !.treebins[i] =
                       Inserted(s, IF i \in s.treemap THEN @ ELSE NoTrie, p,
                                size, i),
                     !.treemap = @ \cup {i}]
      BY <2>2 DEF InsertChunk, InsertLargeChunk, InsertInBin, r, links
    <3>2. \A q \in g \cup {p} : /\ Size(s.word, q) \in Nat
                                /\ Size(r.word, q) = Size(s.word, q)
      BY <1>1, <1>8, ChunkFacts
    <3>3. SameBins(s, r)
      BY <1>4 DEF OnlyWords
    <3> HIDE DEF u
    <3> QED
      BY <1>1, <1>2, <1>4, <1>9, <1>10, <2>2, <3>1, <3>2, <3>3,
         LargeIsInserted
  <2> QED
    BY <2>1, <2>2
<1>12. h \cup k = g \cup l /\ h \cap k = {}
  BY <1>1 DEF Heap
<1> HIDE DEF u, h, k
<1>13. Heap(u, n, t, h, k)
  BY <1>7, <1>11, <1>12, BinsChange
<1>14. SameDv(s, u) /\ SameTop(s, u) /\ SameLimit(s, u) /\ u.word = r.word
  BY <1>4, <1>11 DEF OnlyBins, OnlyWords, SameDv, SameTop, SameLimit
<1> QED
  BY <1>7, <1>13, <1>14 DEF u, h, k, Plus, Less

\* dv in a call's hands, and a chunk in its hands that becomes dv.
LEMMA DvDropped ==
  ASSUME NEW s, NEW n, NEW t, NEW g, NEW l, Heap(s, n, t, g, l), s.dvsize # 0
  PROVE  LET u == [s EXCEPT !.dv = 0, !.dvsize = 0]
         IN  /\ Heap(u, n, t, g, Plus(l, s.dv)) /\ s.dv \in t /\ s.dv \notin g \cup l
             /\ u \in Spaces(n) /\ u.word = s.word
             /\ SameBins(s, u) /\ SameTop(s, u) /\ SameLimit(s, u)
             /\ u.dv = 0 /\ u.dvsize = 0
<1> DEFINE u == [s EXCEPT !.dv = 0, !.dvsize = 0]
           m == l \cup {s.dv}
<1>1. /\ u \in Spaces(n) /\ u.word = s.word
      /\ SameBins(s, u) /\ SameTop(s, u) /\ SameLimit(s, u)
      /\ u.dv = 0 /\ u.dvsize = 0
  BY DEF Heap, Spaces, SameBins, SameTop, SameLimit
<1> HIDE DEF u
<1>2. /\ s.dv \in t /\ s.dv # s.top /\ ~Used(s.word, s.dv) /\ s.dv \notin g \cup l
      /\ Used(s.word, 0)
  BY DEF Heap, DvHolds, Tiled
<1>3. \A p \in t : p \in g \cup m <=>
                     ~Used(u.word, p) /\ p # u.top /\ p # u.dv
  BY <1>1, <1>2 DEF Heap, SameTop
<1>4. m \subseteq t /\ g \cap m = {}
  BY <1>2 DEF Heap
<1> HIDE DEF m
<1>5. Heap(u, n, t, g, m)
  BY <1>1, <1>3, <1>4
     DEF Heap, SameTop, SameLimit, SameBins, TopHolds, DvHolds, Limited, Listed
<1> QED
  BY <1>1, <1>2, <1>5 DEF u, m, Plus

\* A chunk in hand may become the designated victim when there is none.
LEMMA DvTaken ==
  ASSUME NEW s, NEW n, NEW t, NEW g, NEW l, Heap(s, n, t, g, l),
         s.dvsize = 0, NEW p \in l, NEW u \in Spaces(n), u.word = s.word,
         SameBins(s, u), SameTop(s, u), SameLimit(s, u),
         u.dv = p, u.dvsize = Size(s.word, p)
  PROVE  Heap(u, n, t, g, Less(l, p))
<1> DEFINE m == l \ {p}
<1>1. /\ p \in t /\ p # s.top /\ ~Used(s.word, p) /\ p \notin g
      /\ Used(s.word, 0) /\ s.dv = 0 /\ p \in Nat
      /\ Size(s.word, p) \in Nat \ {0}
  BY ChunkFacts DEF Heap, DvHolds, Tiled
<1>2. \A q \in t : q \in g \cup m <=>
                     ~Used(u.word, q) /\ q # u.top /\ q # u.dv
  BY <1>1 DEF Heap, SameTop
<1>3. m \subseteq t /\ g \cap m = {}
  BY DEF Heap
<1> HIDE DEF m
<1>4. Heap(u, n, t, g, m)
  BY <1>1, <1>2, <1>3
     DEF Heap, SameTop, SameLimit, SameBins, TopHolds, DvHolds, Limited, Listed
<1> QED
  BY <1>4 DEF m, Less

\* What two steps change together.
LEMMA ChangesFollow ==
  ASSUME NEW w, NEW t, NEW x, NEW d, NEW gone, NEW new, NEW y, NEW e,
         NEW lost, NEW more,
         Changes(w, t, x, d, gone, new), Changes(x, d, y, e, lost, more)
  PROVE  Changes(w, t, y, e, gone \cup lost, (new \ lost) \cup more)
<1>1. Users(y, e) = (Users(w, t) \ (gone \cup lost)) \cup ((new \ lost) \cup more)
  BY DEF Changes
<1>2. ASSUME NEW p \in Users(w, t), p \notin gone, p \notin lost
      PROVE  Kept(w, y, p)
  <2>1. Kept(w, x, p) /\ Kept(x, y, p)
    BY <1>2 DEF Changes
  <2> QED
    BY <2>1 DEF Kept
<1> QED
  BY <1>1, <1>2 DEF Changes

\* Nothing happens to what is in use.
LEMMA ChangesNothing ==
  ASSUME NEW w, NEW t, NEW x, \A q \in t : Used(x, q) = Used(w, q),
         \A q \in t : Used(w, q) => Kept(w, x, q)
  PROVE  Changes(w, t, x, t, {}, {})
BY DEF Changes, Users

\* A second step that changes no chunk in use adds nothing.
LEMMA ThenNothing ==
  ASSUME NEW w, NEW t, NEW x, NEW d, NEW gone, NEW new, NEW y, NEW e,
         Changes(w, t, x, d, gone, new), Changes(x, d, y, e, {}, {})
  PROVE  Changes(w, t, y, e, gone, new)
<1>1. Changes(w, t, y, e, gone \cup {}, (new \ {}) \cup {})
  BY ChangesFollow
<1>2. gone \cup {} = gone /\ (new \ {}) \cup {} = new
  OBVIOUS
<1> QED
  BY <1>1, <1>2

\* All free chunks have their place.
Settled(s, n, t) == \E g : Heap(s, n, t, g, {})
\* A call has the chunk p in hand.
Holding(s, n, t, g, p) == Heap(s, n, t, g, {p})

\* insert_chunk puts the chunk in hand where it is found again.
LEMMA InsertSettles ==
  ASSUME NEW s, NEW n, NEW t, NEW g, NEW p, Holding(s, n, t, g, p),
         NEW size, size = Size(s.word, p)
  PROVE  LET u == InsertChunk(s, p, size)
         IN  /\ Settled(u, n, t) /\ Changes(s.word, t, u.word, t, {}, {})
             /\ \A q \in t : u.word[q + 1] = s.word[q + 1]
             /\ \A q \in t \ {p} : Kept(s.word, u.word, q)
<1> DEFINE u == InsertChunk(s, p, size)
           l == {p}
           h == Plus(g, p)
           m == Less(l, p)
<1>1. /\ Heap(u, n, t, h, m)
      /\ \A q \in t : u.word[q + 1] = s.word[q + 1]
      /\ \A q \in t \ {p} : Kept(s.word, u.word, q)
  <2>1. Heap(s, n, t, g, l) /\ p \in l
    BY DEF Holding
  <2> HIDE DEF l, u
  <2>2. Heap(u, n, t, h, m)
    BY <2>1, ChunkInserted DEF u
  <2>3. \A q \in t : u.word[q + 1] = s.word[q + 1]
    BY <2>1, ChunkInserted DEF u
  <2>4. \A q \in t \ {p} : Kept(s.word, u.word, q)
    BY <2>1, ChunkInserted DEF u
  <2> QED
    BY <2>2, <2>3, <2>4
<1> HIDE DEF u
<1>2. m = {}
  BY DEF Less
<1> HIDE DEF h, m
<1>3. Settled(u, n, t)
  BY <1>1, <1>2 DEF Settled
<1>4. p \in t /\ ~Used(s.word, p)
  BY DEF Holding, Heap
<1>5. \A q \in t : Used(u.word, q) = Used(s.word, q)
  BY <1>1 DEF Used
<1>6. Changes(s.word, t, u.word, t, {}, {})
  BY <1>1, <1>4, <1>5, ChangesNothing
<1> QED
  BY <1>1, <1>3, <1>6 DEF u

\* replace_dv makes the chunk in hand the designated victim and bins the old
\* one.
LEMMA DvReplaced ==
  ASSUME NEW s, NEW n, NEW t, NEW g, NEW p, Holding(s, n, t, g, p),
         NEW size, size = Size(s.word, p), IsSmall(s.dvsize)
  PROVE  LET u == ReplaceDv(s, p, size)
         IN  /\ Settled(u, n, t) /\ Changes(s.word, t, u.word, t, {}, {})
             /\ \A q \in t : u.word[q + 1] = s.word[q + 1]
<1> DEFINE u == ReplaceDv(s, p, size)
           l == {p}
<1>0. Heap(s, n, t, g, l) /\ p \in l
  BY DEF Holding
<1>1. CASE s.dvsize = 0
  <2>1. u = [s EXCEPT !.dv = p, !.dvsize = size]
    BY <1>1 DEF ReplaceDv
  <2>2. Heap(u, n, t, g, Less(l, p)) /\ u.word = s.word
    <3>1. Heap(s, n, t, g, l) /\ p \in l
      BY <1>0
    <3>2. p \in Nat /\ size \in Nat /\ s \in Spaces(n)
      <4>1. p \in t /\ s \in Spaces(n)
        BY <1>0 DEF Heap
      <4> QED
        BY <1>0, <4>1, ChunkFacts
    <3>3. /\ u \in Spaces(n) /\ u.word = s.word
          /\ SameBins(s, u) /\ SameTop(s, u) /\ SameLimit(s, u)
          /\ u.dv = p /\ u.dvsize = Size(s.word, p)
      BY <2>1, <3>2 DEF Spaces, SameBins, SameTop, SameLimit
    <3> HIDE DEF l, u
    <3> QED
      BY <1>1, <3>1, <3>3, DvTaken
  <2> HIDE DEF u
  <2>3. Less(l, p) = {}
    BY DEF Less
  <2>4. Settled(u, n, t)
    BY <2>2, <2>3 DEF Settled
  <2>5. Changes(s.word, t, u.word, t, {}, {})
    BY <2>2, ChangesNothing DEF Kept
  <2> QED
    BY <2>2, <2>4, <2>5 DEF u
<1>2. CASE s.dvsize # 0
  <2> DEFINE v == s.dv
             z == [s EXCEPT !.dv = 0, !.dvsize = 0]
             r == InsertChunk(z, v, s.dvsize)
             m == Plus(l, v)
             h == Plus(g, v)
  <2>1. /\ Heap(z, n, t, g, m) /\ v \in t /\ v \notin g \cup l
        /\ z.word = s.word /\ z.dv = 0 /\ z.dvsize = 0
    BY <1>0, <1>2, DvDropped
  <2>2. s.dvsize = Size(z.word, v)
    BY <1>0, <1>2, <2>1 DEF Heap, DvHolds
  <2>3. s \in Spaces(n) /\ s.dvsize \in Nat
    BY <1>0 DEF Heap, Spaces
  <2> HIDE DEF z, v
  <2>4. v \in m /\ Less(m, v) = l
    BY <2>1 DEF Plus, Less
  <2>5. /\ Heap(r, n, t, h, Less(m, v))
        /\ SameDv(z, r) /\ SameTop(z, r) /\ SameLimit(z, r)
        /\ \A q \in t : r.word[q + 1] = z.word[q + 1]
        /\ \A q \in t \ {v} : Kept(z.word, r.word, q)
    <3> HIDE DEF m
    <3> QED
      BY <2>1, <2>2, <2>4, ChunkInserted
  <2>6. u = [r EXCEPT !.dv = p, !.dvsize = size]
    <3> DEFINE word == [a \in DOMAIN s.word |->
                          IF a \in v + 2 .. v + 1 + SmallLinks THEN Link
                          ELSE s.word[a]]
               bins == [s.smallbins EXCEPT ![s.dvsize] =
                          <<v>> \o (IF s.dvsize \in s.smallmap THEN @ ELSE <<>>)]
               map == s.smallmap \cup {s.dvsize}
    <3>1. u = [[s EXCEPT !.word = word, !.smallbins = bins, !.smallmap = map]
                 EXCEPT !.dv = p, !.dvsize = size]
      BY <1>2 DEF ReplaceDv, InsertSmallChunk, WriteLinks, v
    <3>2. /\ z.word = s.word /\ z.smallbins = s.smallbins
          /\ z.smallmap = s.smallmap
      BY <2>3 DEF z, Spaces
    <3>3. r = [z EXCEPT !.word = word, !.smallbins = bins, !.smallmap = map]
      BY <3>2 DEF InsertChunk, InsertSmallChunk, WriteLinks
    <3> HIDE DEF u, r, word, bins, map
    <3>4. [[s EXCEPT !.word = word, !.smallbins = bins, !.smallmap = map]
             EXCEPT !.dv = p, !.dvsize = size]
          = [[[s EXCEPT !.dv = 0, !.dvsize = 0]
                EXCEPT !.word = word, !.smallbins = bins, !.smallmap = map]
               EXCEPT !.dv = p, !.dvsize = size]
      BY <2>3 DEF Spaces
    <3> QED
      BY <3>1, <3>3, <3>4 DEF z
  <2> HIDE DEF u, r
  <2>7. p \in l /\ p \in t /\ r.dvsize = 0 /\ size = Size(r.word, p)
    <3>1. p \in l /\ p \in t
      BY <1>0 DEF Heap
    <3>2. r.dvsize = 0
      BY <2>1, <2>5 DEF SameDv
    <3> QED
      BY <2>1, <2>5, <3>1, <3>2 DEF Size
  <2>8. Heap(u, n, t, h, Less(l, p)) /\ u.word = r.word
    <3>1. Heap(r, n, t, h, l)
      BY <2>4, <2>5
    <3>2. p \in Nat /\ size \in Nat /\ r \in Spaces(n)
      <4>1. r \in Spaces(n)
        BY <3>1 DEF Heap
      <4>2. p \in Nat /\ Size(r.word, p) \in Nat
        BY <2>7, <3>1, ChunkFacts
      <4> QED
        BY <2>7, <4>1, <4>2
    <3>3. /\ u \in Spaces(n) /\ u.word = r.word
          /\ SameBins(r, u) /\ SameTop(r, u) /\ SameLimit(r, u)
          /\ u.dv = p /\ u.dvsize = Size(r.word, p)
      BY <2>6, <2>7, <3>2 DEF Spaces, SameBins, SameTop, SameLimit
    <3> HIDE DEF l, h
    <3> QED
      BY <2>7, <3>1, <3>3, DvTaken
  <2>9. Less(l, p) = {}
    BY DEF Less
  <2>10. Settled(u, n, t)
    BY <2>8, <2>9 DEF Settled
  <2>11. \A q \in t : u.word[q + 1] = s.word[q + 1]
    BY <2>1, <2>5, <2>8
  <2>12. ~Used(s.word, v)
    BY <1>0, <1>2 DEF Heap, DvHolds, v
  <2>13. Changes(s.word, t, u.word, t, {}, {})
    <3>1. \A q \in t : Used(u.word, q) = Used(s.word, q)
      BY <2>11 DEF Used
    <3>2. \A q \in t : Used(s.word, q) => Kept(s.word, u.word, q)
      BY <2>1, <2>5, <2>8, <2>12
    <3> QED
      BY <3>1, <3>2, ChangesNothing
  <2> QED
    BY <2>10, <2>11, <2>13 DEF u
<1> QED
  BY <1>1, <1>2

------------------------------------------------------------------------------
(* Tries are ordered.                                                       *)

\* A quotient, halved, is the quotient by the double.
LEMMA QuotientsHalve ==
  ASSUME NEW x \in Nat, NEW m \in Nat \ {0}
  PROVE  /\ x \div m \in Nat /\ x \div (2 * m) \in Nat
         /\ (x \div m) % 2 \in {0, 1}
         /\ x \div m = 2 * (x \div (2 * m)) + ((x \div m) % 2)
<1> DEFINE q == x \div m
           r == x % m
           a == q \div 2
           b == q % 2
<1>1. q \in Nat /\ x = m * q + r /\ r \in 0..(m - 1)
  BY QuotientsBound
<1> HIDE DEF q, r
<1>2. a \in Nat /\ b \in {0, 1} /\ q = 2 * a + b
  BY <1>1
<1> HIDE DEF a, b
<1>3. x = (2 * m) * a + (m * b + r)
  <2>1. m * q = (2 * m) * a + m * b
    BY <1>2
  <2>2. m * b \in Nat /\ (2 * m) * a \in Nat
    BY <1>2
  <2> QED
    BY <1>1, <2>1, <2>2
<1>4. m * b + r \in 0..(2 * m - 1) /\ 2 * m \in Nat \ {0}
  <2>1. b = 0 \/ b = 1
    BY <1>2
  <2>2. m * 0 = 0 /\ m * 1 = m
    OBVIOUS
  <2> QED
    BY <2>1, <2>2, <1>1
<1> DEFINE n == 2 * m
           e == m * b + r
<1>5. n \in Nat \ {0} /\ e \in 0..(n - 1) /\ x = n * a + e
  BY <1>3, <1>4
<1> HIDE DEF n, e
<1>6. x \div n = a
  BY <1>2, <1>5, QuotientIs
<1>7. x \div (2 * m) = a
  BY <1>6 DEF n
<1> QED
  BY <1>1, <1>2, <1>7 DEF q, a, b

\* The sizes that a chunk of bin i may have.
SizesOf(i) ==
  {x \in Nat : x < 2^SizeBits /\ ~IsSmall(x) /\ TreeIndex(x) = i}

\* How large a part of a size is the same in all of bin i.
FirstBit(i) == BitForDepth(i, 0)

\* The sizes of a bin agree in all bits above the first that chooses a child.
LEMMA BinsAgree ==
  ASSUME NEW i \in 0..(NTreebins - 1), NEW x \in SizesOf(i), NEW y \in SizesOf(i)
  PROVE  /\ FirstBit(i) + 1 \in 0..SizeBits
         /\ x \div 2^(FirstBit(i) + 1) = y \div 2^(FirstBit(i) + 1)
<1>1. /\ SizeBits \in Nat /\ TreebinShift \in Nat /\ TreebinShift >= 3
      /\ NTreebins \in Nat \ {0} /\ NTreebins \div 2 \in Nat
      /\ NTreebins \div 2 + TreebinShift <= SizeBits
      /\ i \in Nat /\ i \div 2 \in Nat /\ i \div 2 <= NTreebins \div 2
  BY LimitAssumption, BinsAssumption
<1>2. CASE i = NTreebins - 1
  <2>1. FirstBit(i) + 1 = SizeBits
    BY <1>1, <1>2 DEF FirstBit, BitForDepth
  <2>2. 2^SizeBits \in Nat \ {0}
    BY LimitAssumption
  <2>3. ASSUME NEW m \in Nat \ {0}, NEW z \in 0..(m - 1)
        PROVE  z \div m = 0
    <3>1. z = m * 0 + z
      OBVIOUS
    <3> QED
      BY <3>1, QuotientIs
  <2>4. x \in 0..(2^SizeBits - 1) /\ y \in 0..(2^SizeBits - 1)
    BY <2>2 DEF SizesOf
  <2>5. x \div 2^SizeBits = 0 /\ y \div 2^SizeBits = 0
    BY <2>2, <2>3, <2>4
  <2> QED
    BY <1>1, <2>1, <2>5
<1>3. CASE i # NTreebins - 1
  <2>1. FirstBit(i) + 1 = i \div 2 + TreebinShift - 1
    BY <1>1, <1>3 DEF FirstBit, BitForDepth
  <2>2. ASSUME NEW z \in SizesOf(i)
        PROVE  z \div 2^(FirstBit(i) + 1) = 2 + (i % 2)
    <3>1. z \in Nat /\ 2^TreebinShift <= z /\ TreeIndex(z) = i
      <4>1. 2^TreebinShift \in Nat
        BY SmallbinsAreNumbered DEF NSmallbins
      <4> QED
        BY <4>1 DEF SizesOf, IsSmall, NSmallbins
    <3>2. z < 2^(NTreebins \div 2 + TreebinShift)
      <4>1. 2^(NTreebins \div 2 + TreebinShift) \in Nat /\ 2^TreebinShift \in Nat
        BY <1>1, PowersAreNumbers
      <4> QED
        BY <4>1, <3>1, <1>3 DEF TreeIndex, NSmallbins
    <3>3. PICK k \in Nat :
            /\ k < NTreebins \div 2
            /\ 2^(k + TreebinShift) <= z /\ z < 2^(k + 1 + TreebinShift)
            /\ LET half == 2^(k + TreebinShift - 1)
               IN  /\ half \in Nat \ {0} /\ 2^(k + TreebinShift) = 2 * half
                   /\ TreeIndex(z) = 2 * k + (IF z < 3 * half THEN 0 ELSE 1)
      BY <3>1, <3>2, IndexOfSize
    <3> DEFINE half == 2^(k + TreebinShift - 1)
    <3>4. 2^(k + 1 + TreebinShift) = 4 * half
      <4>1. k + TreebinShift \in 0..SizeBits
            /\ (k + TreebinShift) + 1 = k + 1 + TreebinShift
        BY <1>1, <3>3
      <4>2. 2^(k + 1 + TreebinShift) = 2 * 2^(k + TreebinShift)
        BY <4>1, PowersAssumption
      <4> QED
        BY <4>2, <3>3
    <3>5. /\ half \in Nat \ {0} /\ 2 * half <= z /\ z < 4 * half
          /\ i = 2 * k + (IF z < 3 * half THEN 0 ELSE 1)
      BY <3>1, <3>3, <3>4
    <3>6. k = i \div 2 /\ half = 2^(FirstBit(i) + 1)
      BY <2>1, <3>5
    <3> HIDE DEF half
    <3>7. CASE z < 3 * half
      <4>1. z = half * 2 + (z - 2 * half) /\ z - 2 * half \in 0..(half - 1)
            /\ i % 2 = 0
        BY <3>5, <3>7, <3>1
      <4>2. z \div half = 2
        BY <4>1, <3>5, <3>1, QuotientIs
      <4> QED
        BY <4>1, <4>2, <3>6
    <3>8. CASE ~(z < 3 * half)
      <4>1. z = half * 3 + (z - 3 * half) /\ z - 3 * half \in 0..(half - 1)
            /\ i % 2 = 1
        BY <3>5, <3>8, <3>1
      <4>2. z \div half = 3
        BY <4>1, <3>5, <3>1, QuotientIs
      <4> QED
        BY <4>1, <4>2, <3>6
    <3> QED
      BY <3>7, <3>8
  <2> QED
    BY <1>1, <2>1, <2>2
<1> QED
  BY <1>2, <1>3

\* Sizes whose paths part are in the order of the children they part for.
LEMMA SizesByPath ==
  ASSUME NEW i \in 0..(NTreebins - 1), NEW x \in SizesOf(i), NEW y \in SizesOf(i),
         NEW d \in Nat, PathOf(x, i, d) = PathOf(y, i, d),
         ChildOf(x, i, d) = 0, ChildOf(y, i, d) = 1
  PROVE  x < y
<1> DEFINE bit == FirstBit(i)
           Agree == {e \in Nat : e <= d =>
                       x \div 2^(bit + 1 - e) = y \div 2^(bit + 1 - e)}
<1>1. bit + 1 \in 0..SizeBits /\ 0 \in Agree
  BY BinsAgree
<1>2. \A e \in Nat : BitForDepth(i, e) = bit - e
  BY LimitAssumption, BinsAssumption DEF FirstBit, BitForDepth
<1>3. x \in Nat /\ y \in Nat /\ bit \in Int /\ SizeBits \in Nat
  <2>1. bit \in Int
    BY LimitAssumption, BinsAssumption DEF FirstBit, BitForDepth
  <2> QED
    BY <2>1, LimitAssumption DEF SizesOf
<1> HIDE DEF bit
<1>4. d <= bit
  BY <1>2, <1>3 DEF ChildOf, BitOf
<1>5. ASSUME NEW e \in Nat, e <= d
      PROVE  LET m == 2^(bit - e)
             IN  /\ m \in Nat \ {0} /\ 2^(bit + 1 - e) = 2 * m
                 /\ ChildOf(x, i, e) = (x \div m) % 2
                 /\ ChildOf(y, i, e) = (y \div m) % 2
  <2>1. bit - e \in 0..SizeBits /\ (bit - e) + 1 = bit + 1 - e
        /\ bit - e \in 0..(SizeBits + 1) /\ ~(bit - e < 0)
    BY <1>1, <1>3, <1>4, <1>5
  <2>2. 2^((bit - e) + 1) = 2 * 2^(bit - e)
    BY <2>1, PowersAssumption
  <2>3. 2^(bit - e) \in Nat \ {0}
    BY <2>1, PowersAreNumbers
  <2>4. BitForDepth(i, e) = bit - e
    BY <1>2, <1>5
  <2> QED
    BY <2>1, <2>2, <2>3, <2>4 DEF ChildOf, BitOf
<1>6. ASSUME NEW e \in Agree
      PROVE  e + 1 \in Agree
  <2>1. SUFFICES ASSUME e + 1 <= d
                 PROVE  x \div 2^(bit - e) = y \div 2^(bit - e)
    <3>1. e \in Nat /\ bit + 1 - (e + 1) = bit - e
      BY <1>3
    <3> QED
      BY <3>1
  <2>2. e \in Nat /\ e <= d /\ e + 1 \in 1..d
        /\ x \div 2^(bit + 1 - e) = y \div 2^(bit + 1 - e)
    BY <2>1
  <2>3. PathOf(x, i, d)[e + 1] = ChildOf(x, i, e)
        /\ PathOf(y, i, d)[e + 1] = ChildOf(y, i, e)
    BY <2>2 DEF PathOf
  <2>4. ChildOf(x, i, e) = ChildOf(y, i, e)
    BY <2>3
  <2> DEFINE m == 2^(bit - e)
  <2>5. /\ m \in Nat \ {0} /\ 2^(bit + 1 - e) = 2 * m
        /\ (x \div m) % 2 = (y \div m) % 2
    BY <2>2, <2>4, <1>5
  <2> HIDE DEF m
  <2>6. /\ x \div m = 2 * (x \div (2 * m)) + ((x \div m) % 2)
        /\ y \div m = 2 * (y \div (2 * m)) + ((y \div m) % 2)
    BY <1>3, <2>5, QuotientsHalve
  <2>7. x \div (2 * m) = y \div (2 * m)
    BY <2>2, <2>5
  <2>8. x \div m = y \div m
    BY <2>5, <2>6, <2>7
  <2> QED
    BY <2>8 DEF m
<1>7. d \in Agree
  BY <1>1, <1>6, NatIsInductive
<1> DEFINE m == 2^(bit - d)
<1>8. /\ m \in Nat \ {0} /\ x \div (2 * m) = y \div (2 * m)
      /\ (x \div m) % 2 = 0 /\ (y \div m) % 2 = 1
  BY <1>5, <1>7
<1> HIDE DEF m
<1>9. /\ x \div m = 2 * (x \div (2 * m)) + ((x \div m) % 2)
      /\ y \div m = 2 * (y \div (2 * m)) + ((y \div m) % 2)
      /\ x \div (2 * m) \in Nat
  BY <1>3, <1>8, QuotientsHalve
<1>10. ~(y \div m <= x \div m)
  BY <1>8, <1>9
<1> QED
  BY <1>3, <1>8, <1>10, QuotientsIncrease

\* A trie of bin i, with chunks of sizes that belong there.
Sorted(w, trie, i, c) ==
  /\ i \in 0..(NTreebins - 1) /\ Holds(w, trie, i, c)
  /\ \A p \in c : Size(w, p) \in SizesOf(i)
\* The size of the chunks of a node.
NodeSize(w, trie, q) == Size(w, Head(trie[q]))

\* A node is on the path of its size.
LEMMA NodesAreOnPaths ==
  ASSUME NEW w, NEW trie, NEW i, NEW c, Sorted(w, trie, i, c),
         NEW q \in DOMAIN trie
  PROVE  /\ q \in Seq(Bits) /\ Head(trie[q]) \in c
         /\ NodeSize(w, trie, q) \in SizesOf(i)
         /\ \A p \in Range(trie[q]) : Size(w, p) = NodeSize(w, trie, q)
         /\ \A d \in 0..Len(q) : /\ SubSeq(q, 1, d) \in DOMAIN trie
                                 /\ SubSeq(q, 1, d) = PathOf(NodeSize(w, trie, q), i, d)
         /\ \A d \in 0..(Len(q) - 1) :
              q[d + 1] = ChildOf(NodeSize(w, trie, q), i, d)
<1> DEFINE size == NodeSize(w, trie, q)
<1>1. /\ IsTrie(trie) /\ q \in Seq(Bits) /\ trie[q] \in Seq(Nat) /\ trie[q] # <<>>
      /\ i \in 0..(NTreebins - 1)
  BY DEF Sorted, Holds, IsTrie
<1>2. Head(trie[q]) \in Range(trie[q])
  BY <1>1, HeadIsAMember
<1>3. Head(trie[q]) \in c /\ q = PathOf(size, i, Len(q)) /\ size \in SizesOf(i)
  BY <1>2 DEF Sorted, Holds, NodeSize
<1>4. \A p \in Range(trie[q]) : Size(w, p) = size
  BY <1>2 DEF Sorted, Holds, NodeSize
<1>5. size \in Nat /\ Len(q) \in Nat
  BY <1>1, <1>3 DEF SizesOf
<1> HIDE DEF size
<1>6. \A d \in 0..Len(q) : SubSeq(PathOf(size, i, Len(q)), 1, d) = PathOf(size, i, d)
  BY <1>1, <1>5, PathIsASequence
<1>7. \A d \in 0..Len(q) : SubSeq(q, 1, d) \in DOMAIN trie
  BY <1>1 DEF IsTrie
<1>8. \A d \in 0..(Len(q) - 1) : q[d + 1] = ChildOf(size, i, d)
  <2> SUFFICES ASSUME NEW d \in 0..(Len(q) - 1)
               PROVE  q[d + 1] = ChildOf(size, i, d)
    OBVIOUS
  <2>1. d + 1 \in 1..Len(q) /\ (d + 1) - 1 = d
    BY <1>5
  <2>2. PathOf(size, i, Len(q))[d + 1] = ChildOf(size, i, (d + 1) - 1)
    BY <2>1 DEF PathOf
  <2> QED
    BY <1>3, <2>1, <2>2
<1> QED
  BY <1>1, <1>3, <1>4, <1>6, <1>7, <1>8 DEF size

\* Where two nodes part, the one on the right is larger.
LEMMA NodesAreOrdered ==
  ASSUME NEW w, NEW trie, NEW i, NEW c, Sorted(w, trie, i, c),
         NEW q \in DOMAIN trie, NEW r \in DOMAIN trie, NEW d \in Nat,
         d < Len(q), d < Len(r), SubSeq(q, 1, d) = SubSeq(r, 1, d),
         q[d + 1] = 0, r[d + 1] = 1
  PROVE  NodeSize(w, trie, q) < NodeSize(w, trie, r)
<1> DEFINE x == NodeSize(w, trie, q)
           y == NodeSize(w, trie, r)
<1>1. q \in Seq(Bits) /\ x \in SizesOf(i)
      /\ (\A k \in 0..Len(q) : SubSeq(q, 1, k) = PathOf(x, i, k))
      /\ (\A k \in 0..(Len(q) - 1) : q[k + 1] = ChildOf(x, i, k))
  BY NodesAreOnPaths
<1>2. r \in Seq(Bits) /\ y \in SizesOf(i)
      /\ (\A k \in 0..Len(r) : SubSeq(r, 1, k) = PathOf(y, i, k))
      /\ (\A k \in 0..(Len(r) - 1) : r[k + 1] = ChildOf(y, i, k))
  BY NodesAreOnPaths
<1> HIDE DEF x, y
<1>3. /\ d \in 0..Len(q) /\ d \in 0..(Len(q) - 1)
      /\ d \in 0..Len(r) /\ d \in 0..(Len(r) - 1)
  BY <1>1, <1>2
<1>4. PathOf(x, i, d) = PathOf(y, i, d) /\ ChildOf(x, i, d) = 0 /\ ChildOf(y, i, d) = 1
  BY <1>1, <1>2, <1>3
<1>5. i \in 0..(NTreebins - 1)
  BY DEF Sorted
<1>6. x < y
  BY <1>1, <1>2, <1>4, <1>5, SizesByPath
<1> QED
  BY <1>6 DEF x, y

\* A path and a child.
LEMMA OneLonger ==
  ASSUME NEW stem \in Seq(Bits), NEW bit \in Bits
  PROVE  LET v == Append(stem, bit)
         IN  /\ v \in Seq(Bits) /\ Len(v) = Len(stem) + 1
             /\ v[Len(stem) + 1] = bit
             /\ \A e \in 1..Len(stem) : v[e] = stem[e]
OBVIOUS

\* Below a node, one on the leftmost way is as small as any.
THEOREM LeftmostIsLeast ==
  ASSUME NEW w, NEW trie, NEW i, NEW c, Sorted(w, trie, i, c),
         NEW q \in Seq(Bits), NEW u \in DOMAIN trie,
         Len(q) <= Len(u), SubSeq(u, 1, Len(q)) = q
  PROVE  \E v \in LeftmostPath(trie, q) :
           NodeSize(w, trie, v) <= NodeSize(w, trie, u)
<1> DEFINE turns == {d \in Len(q) + 1 .. Len(u) :
                       u[d] # 0 /\ Append(SubSeq(u, 1, d - 1), 0) \in DOMAIN trie}
<1>1. u \in Seq(Bits) /\ Len(u) \in Nat /\ Len(q) \in Nat
      /\ NodeSize(w, trie, u) \in Nat
  <2>1. u \in Seq(Bits) /\ NodeSize(w, trie, u) \in SizesOf(i)
    BY NodesAreOnPaths
  <2> QED
    BY <2>1 DEF SizesOf
<1>2. CASE turns = {}
  <2>1. \A d \in Len(q) + 1 .. Len(u) :
          u[d] = 0 \/ Append(SubSeq(u, 1, d - 1), 0) \notin DOMAIN trie
    BY <1>2
  <2>2. u \in LeftmostPath(trie, q)
    BY <2>1 DEF LeftmostPath, Way, OnTheWay
  <2> QED
    BY <1>1, <2>2
<1>3. CASE turns # {}
  <2>1. turns \in SUBSET Nat
    BY <1>1
  <2>2. PICK d \in turns : \A e \in turns : d <= e
    BY <1>3, <2>1, HasSmallest
  <2> DEFINE k == d - 1
             stem == SubSeq(u, 1, k)
             v == Append(stem, 0)
  <2>3. /\ d \in Len(q) + 1 .. Len(u) /\ u[d] # 0 /\ v \in DOMAIN trie
        /\ k \in Nat /\ k \in 0..Len(u) /\ k < Len(u) /\ k + 1 = d /\ Len(q) <= k
        /\ d \in 1..Len(u)
    BY <1>1, <2>2
  <2>4. stem \in Seq(Bits) /\ Len(stem) = k /\ \A e \in 1..k : stem[e] = u[e]
    BY <1>1, <2>3, PrefixOf
  <2>5. /\ v \in Seq(Bits) /\ Len(v) = k + 1 /\ v[k + 1] = 0
        /\ \A e \in 1..k : v[e] = u[e]
    BY <2>3, <2>4, OneLonger DEF Bits
  <2>6. u[k + 1] = 1
    BY <1>1, <2>3 DEF Bits
  <2>7. \A e \in 0..k : SubSeq(v, 1, e) = SubSeq(u, 1, e)
    <3> SUFFICES ASSUME NEW e \in 0..k
                 PROVE  SubSeq(v, 1, e) = SubSeq(u, 1, e)
      OBVIOUS
    <3>1. /\ e \in 0..Len(v) /\ e \in 0..Len(u)
          /\ \A j \in 1..e : j \in 1..k
      BY <2>3, <2>5
    <3>2. /\ SubSeq(v, 1, e) \in Seq(Bits) /\ Len(SubSeq(v, 1, e)) = e
          /\ \A j \in 1..e : SubSeq(v, 1, e)[j] = v[j]
      BY <2>5, <3>1, PrefixOf
    <3>3. /\ SubSeq(u, 1, e) \in Seq(Bits) /\ Len(SubSeq(u, 1, e)) = e
          /\ \A j \in 1..e : SubSeq(u, 1, e)[j] = u[j]
      BY <1>1, <3>1, PrefixOf
    <3> DEFINE a == SubSeq(v, 1, e)
               b == SubSeq(u, 1, e)
    <3>4. /\ a \in Seq(Bits) /\ b \in Seq(Bits) /\ Len(a) = Len(b)
          /\ \A j \in 1..Len(a) : a[j] = b[j]
      BY <2>5, <3>1, <3>2, <3>3
    <3> HIDE DEF a, b
    <3>5. a = b
      BY <3>4
    <3> QED
      BY <3>5 DEF a, b
  <2> HIDE DEF v
  <2>8. NodeSize(w, trie, v) < NodeSize(w, trie, u)
    <3>1. k < Len(v) /\ k < Len(u) /\ k \in Nat /\ SubSeq(v, 1, k) = SubSeq(u, 1, k)
      BY <2>3, <2>5, <2>7
    <3> QED
      BY <2>3, <2>5, <2>6, <3>1, NodesAreOrdered
  <2>9. v \in LeftmostPath(trie, q)
    <3>1. Len(q) <= Len(v) /\ SubSeq(v, 1, Len(q)) = q
      <4>1. Len(q) \in 0..k
        BY <1>1, <2>3
      <4> QED
        BY <2>3, <2>5, <2>7, <4>1
    <3>2. ASSUME NEW e \in Len(q) + 1 .. Len(v)
          PROVE  v[e] = 0 \/ Append(SubSeq(v, 1, e - 1), 0) \notin DOMAIN trie
      <4>1. CASE e = k + 1
        BY <2>5, <4>1
      <4>2. CASE e # k + 1
        <5>1. /\ e \in 1..k /\ e - 1 \in 0..k /\ e \in Len(q) + 1 .. Len(u)
              /\ e \in Nat /\ ~(d <= e)
          BY <1>1, <2>3, <2>5, <3>2, <4>2
        <5>2. e \notin turns
          BY <2>2, <5>1
        <5>3. u[e] = 0 \/ Append(SubSeq(u, 1, e - 1), 0) \notin DOMAIN trie
          BY <5>1, <5>2
        <5> QED
          BY <2>5, <2>7, <5>1, <5>3
      <4> QED
        BY <4>1, <4>2
    <3> QED
      BY <2>3, <3>1, <3>2 DEF LeftmostPath, Way, OnTheWay
  <2>10. NodeSize(w, trie, v) \in Nat
    <3>1. NodeSize(w, trie, v) \in SizesOf(i)
      BY <2>3, NodesAreOnPaths
    <3> QED
      BY <3>1 DEF SizesOf
  <2> QED
    BY <1>1, <2>8, <2>9, <2>10
<1> QED
  BY <1>2, <1>3

\* One that takes the right child where the size goes left is larger.
LEMMA RightIsLarger ==
  ASSUME NEW w, NEW trie, NEW i, NEW c, Sorted(w, trie, i, c),
         NEW nb \in SizesOf(i), NEW u \in DOMAIN trie, NEW d \in Nat, d < Len(u),
         SubSeq(u, 1, d) = PathOf(nb, i, d), u[d + 1] # ChildOf(nb, i, d)
  PROVE  /\ u[d + 1] = 1 => ChildOf(nb, i, d) = 0 /\ nb < NodeSize(w, trie, u)
         /\ u[d + 1] # 1 => NodeSize(w, trie, u) < nb
<1> DEFINE x == NodeSize(w, trie, u)
<1>1. /\ u \in Seq(Bits) /\ x \in SizesOf(i) /\ i \in 0..(NTreebins - 1)
      /\ \A e \in 0..Len(u) : SubSeq(u, 1, e) = PathOf(x, i, e)
      /\ \A e \in 0..(Len(u) - 1) : u[e + 1] = ChildOf(x, i, e)
  BY NodesAreOnPaths DEF Sorted
<1> HIDE DEF x
<1>2. d \in 0..Len(u) /\ d \in 0..(Len(u) - 1) /\ d + 1 \in 1..Len(u)
  BY <1>1
<1>3. PathOf(x, i, d) = PathOf(nb, i, d) /\ u[d + 1] = ChildOf(x, i, d)
      /\ u[d + 1] \in {0, 1}
  <2>1. SubSeq(u, 1, d) = PathOf(x, i, d)
    BY <1>1, <1>2
  <2>2. u[d + 1] = ChildOf(x, i, d)
    BY <1>1, <1>2
  <2>3. u[d + 1] \in Bits
    BY <1>1, <1>2
  <2> QED
    BY <2>1, <2>2, <2>3 DEF Bits
<1>4. ChildOf(nb, i, d) \in {0, 1}
  <2>1. nb \in Nat /\ d \in Nat /\ d + 1 \in Nat /\ d + 1 \in 1..(d + 1)
        /\ (d + 1) - 1 = d
    BY DEF SizesOf
  <2>2. PathOf(nb, i, d + 1) \in Seq(Bits) /\ Len(PathOf(nb, i, d + 1)) = d + 1
    BY <1>1, <2>1, PathIsASequence
  <2>3. PathOf(nb, i, d + 1)[d + 1] = ChildOf(nb, i, (d + 1) - 1)
    BY <2>1 DEF PathOf
  <2>4. PathOf(nb, i, d + 1)[d + 1] \in Bits
    BY <2>1, <2>2
  <2> QED
    BY <2>1, <2>3, <2>4 DEF Bits
<1>5. CASE u[d + 1] = 1
  <2>1. ChildOf(nb, i, d) = 0 /\ ChildOf(x, i, d) = 1
    BY <1>3, <1>4, <1>5
  <2>2. nb < x
    BY <1>1, <1>3, <2>1, SizesByPath
  <2> QED
    BY <1>5, <2>1, <2>2 DEF x
<1>6. CASE u[d + 1] # 1
  <2>1. ChildOf(nb, i, d) = 1 /\ ChildOf(x, i, d) = 0
    BY <1>3, <1>4, <1>6
  <2>2. x < nb
    BY <1>1, <1>3, <2>1, SizesByPath
  <2> QED
    BY <1>6, <2>2 DEF x
<1> QED
  BY <1>5, <1>6

\* A node is on the path of a size, or leaves it somewhere.
LEMMA WhereItParts ==
  ASSUME NEW u \in Seq(Bits), NEW nb \in Nat, NEW i \in 0..(NTreebins - 1),
         u # PathOf(nb, i, Len(u))
  PROVE  \E d \in Nat : /\ d < Len(u) /\ SubSeq(u, 1, d) = PathOf(nb, i, d)
                        /\ u[d + 1] # ChildOf(nb, i, d)
<1> DEFINE parts == {d \in 0..(Len(u) - 1) : u[d + 1] # ChildOf(nb, i, d)}
<1>1. Len(u) \in Nat /\ PathOf(nb, i, Len(u)) \in Seq(Bits)
      /\ Len(PathOf(nb, i, Len(u))) = Len(u)
  BY PathIsASequence
<1>2. \A n \in Nat : \A e \in 1..n : PathOf(nb, i, n)[e] = ChildOf(nb, i, e - 1)
  BY DEF PathOf
<1>3. ASSUME NEW n \in 0..Len(u), \A e \in 1..n : e - 1 \notin parts
      PROVE  SubSeq(u, 1, n) = PathOf(nb, i, n)
  <2> DEFINE a == SubSeq(u, 1, n)
             b == PathOf(nb, i, n)
  <2>1. a \in Seq(Bits) /\ Len(a) = n /\ \A e \in 1..n : a[e] = u[e]
    BY PrefixOf
  <2>2. n \in Nat /\ b \in Seq(Bits) /\ Len(b) = n
    BY <1>1, PathIsASequence
  <2>3. ASSUME NEW e \in 1..n
        PROVE  a[e] = b[e]
    <3>1. e - 1 \in 0..(Len(u) - 1) /\ (e - 1) + 1 = e
      BY <1>1, <2>3
    <3>2. u[e] = ChildOf(nb, i, e - 1)
      BY <1>3, <2>3, <3>1
    <3> QED
      BY <1>2, <2>1, <2>2, <2>3, <3>2
  <2> HIDE DEF a, b
  <2>4. a = b
    BY <2>1, <2>2, <2>3
  <2> QED
    BY <2>4 DEF a, b
<1>4. parts # {}
  <2>1. SUFFICES ASSUME parts = {}
                 PROVE  FALSE
    OBVIOUS
  <2>2. Len(u) \in 0..Len(u)
    BY <1>1
  <2>3. SubSeq(u, 1, Len(u)) = PathOf(nb, i, Len(u))
    BY <1>3, <2>1, <2>2
  <2> QED
    BY <2>2, <2>3, PrefixOf
<1>5. parts \in SUBSET Nat
  BY <1>1
<1>6. PICK d \in parts : \A e \in parts : d <= e
  BY <1>4, <1>5, HasSmallest
<1>7. d \in 0..Len(u) /\ d < Len(u) /\ d \in Nat /\ u[d + 1] # ChildOf(nb, i, d)
      /\ \A e \in 1..d : e - 1 \in Nat /\ ~(d <= e - 1)
  BY <1>1, <1>6
<1>8. \A e \in 1..d : e - 1 \notin parts
  BY <1>6, <1>7
<1>9. SubSeq(u, 1, d) = PathOf(nb, i, d)
  BY <1>3, <1>7, <1>8
<1> QED
  BY <1>7, <1>9

\* A set of paths of finite length has a longest.
LEMMA DeepestExists ==
  ASSUME NEW S \in SUBSET Seq(Bits), S # {}, NEW n \in Nat,
         \A q \in S : Len(q) <= n
  PROVE  \E q \in S : \A r \in S : Len(r) <= Len(q)
<1> DEFINE gaps == {g \in Nat : \E q \in S : g = n - Len(q)}
<1>1. \A q \in S : Len(q) \in Nat /\ n - Len(q) \in gaps
  <2> SUFFICES ASSUME NEW q \in S
               PROVE  Len(q) \in Nat /\ n - Len(q) \in gaps
    OBVIOUS
  <2>1. Len(q) \in Nat /\ Len(q) <= n
    OBVIOUS
  <2>2. n - Len(q) \in Nat
    BY <2>1
  <2> QED
    BY <2>1, <2>2
<1>2. gaps # {} /\ gaps \in SUBSET Nat
  BY <1>1
<1>3. PICK g \in gaps : \A h \in gaps : g <= h
  BY <1>2, HasSmallest
<1>4. PICK q \in S : g = n - Len(q)
  OBVIOUS
<1>5. \A r \in S : n - Len(q) <= n - Len(r)
  BY <1>1, <1>3, <1>4
<1>6. \A r \in S : Len(r) <= Len(q)
  BY <1>1, <1>5
<1> QED
  BY <1>6
==============================================================================
