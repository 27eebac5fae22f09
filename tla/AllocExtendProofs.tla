-------------------------- MODULE AllocExtendProofs --------------------------
(***************************************************************************)
(* alloc_extend_kernel and alloc_extend_naive for every page size, every   *)
(* batch and every free list that is long enough.                          *)
(***************************************************************************)
EXTENDS AllocExtend, SetSums

\* The batches Init starts from, n the number of requests.
IsBatch(batch, n) ==
  /\ n \in 1..MaxBatch
  /\ batch.prefix_lens \in [1..n -> 0..MaxSeqLen]
  /\ batch.seq_lens \in [1..n -> 0..MaxSeqLen]
  /\ \A b \in 1..n : batch.prefix_lens[b] =< batch.seq_lens[b]
  /\ batch.last_loc = [b \in 1..n |-> LastLoc(b, batch.prefix_lens[b])]

-----------------------------------------------------------------------------
(* Page arithmetic *)

CeilDiv(x) == (x + PageSize - 1) \div PageSize

LEMMA PageSizeFacts == PageSize \in Nat /\ PageSize > 1
  BY AllocExtendAssumption

\* Factors of PageSize cancel.
LEMMA Cancel ==
  ASSUME NEW m \in Int, NEW n \in Int
  PROVE  /\ m * PageSize \in Int
         /\ m * PageSize =< n * PageSize <=> m =< n
         /\ m * PageSize < n * PageSize <=> m < n
         /\ (m + n) * PageSize = m * PageSize + n * PageSize
         /\ (m - n) * PageSize = m * PageSize - n * PageSize
         /\ (m + 1) * PageSize = m * PageSize + PageSize
  BY PageSizeFacts

\* Division recovers a page and an offset.
LEMMA PageAndOffset ==
  ASSUME NEW q \in Int, NEW o \in 0..(PageSize - 1)
  PROVE  /\ (q * PageSize + o) \div PageSize = q
         /\ (q * PageSize + o) % PageSize = o
  BY PageSizeFacts

LEMMA DivFacts ==
  ASSUME NEW x \in Nat
  PROVE  /\ x \div PageSize \in Nat
         /\ (x % PageSize) \in 0..(PageSize - 1)
         /\ x = (x \div PageSize) * PageSize + (x % PageSize)
  BY PageSizeFacts

LEMMA AlignFacts ==
  ASSUME NEW x \in Nat
  PROVE  /\ CeilDiv(x) \in Nat
         /\ CeilAlign(x) = CeilDiv(x) * PageSize /\ CeilAlign(x) \in Nat
         /\ x =< CeilAlign(x) /\ CeilAlign(x) < x + PageSize
         /\ FloorAlign(x) = (x \div PageSize) * PageSize /\ FloorAlign(x) \in Nat
         /\ FloorAlign(x) =< x /\ x < FloorAlign(x) + PageSize
<1>1. /\ x \div PageSize \in Nat
      /\ x = (x \div PageSize) * PageSize + (x % PageSize)
      /\ x % PageSize \in 0..(PageSize - 1)
      /\ (x \div PageSize) * PageSize \in Nat
  BY PageSizeFacts, DivFacts
<1>2. x + PageSize - 1 \in Nat
  BY PageSizeFacts
<1>3. /\ CeilDiv(x) \in Nat
      /\ x + PageSize - 1 = CeilDiv(x) * PageSize + ((x + PageSize - 1) % PageSize)
      /\ (x + PageSize - 1) % PageSize \in 0..(PageSize - 1)
  BY <1>2, DivFacts DEF CeilDiv
<1>4. CeilDiv(x) * PageSize \in Nat
  BY <1>3, PageSizeFacts
<1> QED
  BY <1>1, <1>3, <1>4, PageSizeFacts DEF CeilAlign, FloorAlign, CeilDiv

\* What one row asks for: p tokens are there, s are wanted.
LEMMA RowArithmetic ==
  ASSUME NEW p \in Nat, NEW s \in Nat, p =< s
  PROVE  /\ CeilDiv(p) \in Nat /\ CeilDiv(s) \in Nat /\ s \div PageSize \in Nat
         /\ (CeilAlign(s) - CeilAlign(p)) \div PageSize = CeilDiv(s) - CeilDiv(p)
         /\ CeilDiv(p) =< CeilDiv(s)
         /\ s =< CeilAlign(p) => CeilDiv(s) = CeilDiv(p)
         /\ s > CeilAlign(p) =>
              /\ CeilDiv(p) =< s \div PageSize
              /\ FloorAlign(s) - CeilAlign(p)
                   = (s \div PageSize - CeilDiv(p)) * PageSize
              /\ FloorAlign(s) - CeilAlign(p) \in Nat
              /\ (FloorAlign(s) - CeilAlign(p)) \div PageSize
                   = s \div PageSize - CeilDiv(p)
              /\ CeilDiv(s) = s \div PageSize + IF s > FloorAlign(s) THEN 1 ELSE 0
<1> DEFINE cp == CeilDiv(p)
           cs == CeilDiv(s)
           fs == s \div PageSize
           C == CeilAlign(p)
           D == CeilAlign(s)
           F == FloorAlign(s)
<1>1. /\ cp \in Nat /\ C = cp * PageSize /\ C \in Nat /\ p =< C /\ C < p + PageSize
      /\ cs \in Nat /\ D = cs * PageSize /\ D \in Nat /\ s =< D /\ D < s + PageSize
      /\ F = fs * PageSize /\ F \in Nat /\ F =< s /\ s < F + PageSize
      /\ fs \in Nat
  BY AlignFacts, DivFacts
<1> HIDE DEF cp, cs, fs, C, D, F
<1>2. cp =< cs
  <2>1. cp * PageSize < (cs + 1) * PageSize
    BY <1>1, Cancel, PageSizeFacts
  <2> QED
    BY <1>1, <2>1, Cancel
<1>3. (D - C) \div PageSize = cs - cp
  <2>1. D - C = (cs - cp) * PageSize + 0
    <3>1. cs \in Int /\ cp \in Int
      BY <1>1
    <3>2. (cs - cp) * PageSize = cs * PageSize - cp * PageSize
      BY ONLY <3>1, Cancel
    <3>3. D = cs * PageSize /\ C = cp * PageSize /\ D \in Int /\ C \in Int
      BY <1>1
    <3> QED
      BY <3>2, <3>3
  <2>2. 0 \in 0..(PageSize - 1) /\ cs - cp \in Int
    BY <1>1, PageSizeFacts
  <2>3. ((cs - cp) * PageSize + 0) \div PageSize = cs - cp
    BY <2>2, PageAndOffset
  <2> QED
    BY <2>1, <2>3
<1>4. ASSUME s =< C PROVE cs = cp
  <2>1. cs * PageSize < (cp + 1) * PageSize
    BY <1>1, <1>4, Cancel, PageSizeFacts
  <2> QED
    BY <1>1, <1>2, <2>1, Cancel
<1>5. ASSUME s > C
      PROVE  /\ cp =< fs
             /\ F - C = (fs - cp) * PageSize
             /\ F - C \in Nat
             /\ (F - C) \div PageSize = fs - cp
             /\ cs = fs + IF s > F THEN 1 ELSE 0
  <2>1. cp =< fs
    <3>1. cp * PageSize < (fs + 1) * PageSize
      BY <1>1, <1>5, Cancel, PageSizeFacts
    <3> QED
      BY <1>1, <3>1, Cancel
  <2>2. F - C = (fs - cp) * PageSize
    BY <1>1, Cancel
  <2>3. F - C \in Nat
    <3>1. cp * PageSize =< fs * PageSize
      BY <1>1, <2>1, Cancel
    <3> QED
      BY <1>1, <3>1
  <2>4. (F - C) \div PageSize = fs - cp
    <3>1. 0 \in 0..(PageSize - 1) /\ fs - cp \in Int
      BY <1>1, PageSizeFacts
    <3>2. ((fs - cp) * PageSize + 0) \div PageSize = fs - cp
      BY <3>1, PageAndOffset
    <3>3. (fs - cp) * PageSize + 0 = F - C
      BY <2>2, <2>3
    <3> QED
      BY <3>2, <3>3
  <2>5. CASE s > F
    <3>1. fs * PageSize < cs * PageSize
      BY <1>1, <2>5
    <3>2. cs * PageSize < (fs + 1 + 1) * PageSize
      BY <1>1, Cancel, PageSizeFacts
    <3>3. fs < cs /\ cs < fs + 1 + 1
      <4>1. fs \in Int /\ cs \in Int /\ fs + 1 + 1 \in Int
        BY <1>1
      <4>2. fs < cs
        BY ONLY <3>1, <4>1, Cancel
      <4>3. cs < fs + 1 + 1
        BY ONLY <3>2, <4>1, Cancel
      <4> QED
        BY <4>2, <4>3
    <3> QED
      BY <1>1, <2>1, <2>2, <2>3, <2>4, <2>5, <3>3
  <2>6. CASE ~(s > F)
    <3>1. s = F
      BY <1>1, <2>6
    <3>2. fs * PageSize =< cs * PageSize
      BY <1>1, <3>1
    <3>3. cs * PageSize < (fs + 1) * PageSize
      BY <1>1, <3>1, Cancel, PageSizeFacts
    <3>4. fs =< cs /\ cs < fs + 1
      <4>1. fs \in Int /\ cs \in Int /\ fs + 1 \in Int
        BY <1>1
      <4>2. fs =< cs
        BY ONLY <3>2, <4>1, Cancel
      <4>3. cs < fs + 1
        BY ONLY <3>3, <4>1, Cancel
      <4> QED
        BY <4>2, <4>3
    <3> QED
      BY <1>1, <2>1, <2>2, <2>3, <2>4, <2>6, <3>4
  <2> QED
    BY <2>5, <2>6
<1> QED
  BY <1>1, <1>2, <1>3, <1>4, <1>5 DEF cp, cs, fs, C, D, F

-----------------------------------------------------------------------------
(* Rows *)

LEMMA BatchFacts ==
  ASSUME NEW batch, NEW n, IsBatch(batch, n)
  PROVE  /\ n \in Nat /\ n >= 1 /\ Rows(batch) = 1..n
         /\ \A b \in 1..n : /\ batch.prefix_lens[b] \in Nat
                            /\ batch.seq_lens[b] \in Nat
                            /\ batch.prefix_lens[b] =< batch.seq_lens[b]
                            /\ batch.seq_lens[b] =< MaxSeqLen
  BY AllocExtendAssumption DEF IsBatch, Rows

\* A row is cut into the rest of its old page, whole pages and a tail, and
\* both implementations count the same new pages for it.
LEMMA RowShape ==
  ASSUME NEW batch, NEW n, IsBatch(batch, n), NEW b \in 1..n
  PROVE  /\ Extends(batch)[b] = batch.seq_lens[b] - batch.prefix_lens[b]
         /\ Extends(batch)[b] \in Nat
         /\ Num1(batch, b) \in Nat /\ Num2(batch, b) \in Nat /\ Num3(batch, b) \in Nat
         /\ Num1(batch, b) + Num2(batch, b) + Num3(batch, b) = Extends(batch)[b]
         /\ PagesOfRow(batch)[b] \in Nat
         /\ PagesPerReq(batch)[b] = PagesOfRow(batch)[b]
         /\ DoneAfter1(batch, b) =>
              /\ batch.seq_lens[b] =< CeilAlign(batch.prefix_lens[b])
              /\ Num2(batch, b) = 0 /\ Num3(batch, b) = 0 /\ PagesOfRow(batch)[b] = 0
         /\ ~DoneAfter1(batch, b) =>
              /\ batch.seq_lens[b] > CeilAlign(batch.prefix_lens[b])
              /\ Num1(batch, b) = CeilAlign(batch.prefix_lens[b]) - batch.prefix_lens[b]
              /\ Num2(batch, b)
                   = FloorAlign(batch.seq_lens[b]) - CeilAlign(batch.prefix_lens[b])
              /\ Num2(batch, b) \div PageSize \in Nat
              /\ Num2(batch, b) = (Num2(batch, b) \div PageSize) * PageSize
              /\ Num3(batch, b) = batch.seq_lens[b] - FloorAlign(batch.seq_lens[b])
              /\ Num3(batch, b) < PageSize
              /\ PagesOfRow(batch)[b]
                   = Num2(batch, b) \div PageSize + IF Num3(batch, b) > 0 THEN 1 ELSE 0
<1> DEFINE p == batch.prefix_lens[b]
           s == batch.seq_lens[b]
<1>1. Rows(batch) = 1..n /\ p \in Nat /\ s \in Nat /\ p =< s
  BY BatchFacts
<1>2. Extends(batch)[b] = s - p /\ s - p \in Nat
  BY <1>1 DEF Extends
<1>3. PagesOfRow(batch)[b] = (CeilAlign(s) - CeilAlign(p)) \div PageSize
  BY <1>1 DEF PagesOfRow
<1>4. PagesPerReq(batch)[b]
        = Num2(batch, b) \div PageSize + IF Num3(batch, b) > 0 THEN 1 ELSE 0
  BY <1>1 DEF PagesPerReq
<1>5. /\ CeilAlign(p) \in Nat /\ p =< CeilAlign(p)
      /\ FloorAlign(s) \in Nat /\ FloorAlign(s) =< s /\ s < FloorAlign(s) + PageSize
  BY <1>1, AlignFacts
<1>6. /\ CeilDiv(p) \in Nat /\ CeilDiv(s) \in Nat /\ s \div PageSize \in Nat
      /\ (CeilAlign(s) - CeilAlign(p)) \div PageSize = CeilDiv(s) - CeilDiv(p)
      /\ s =< CeilAlign(p) => CeilDiv(s) = CeilDiv(p)
      /\ s > CeilAlign(p) =>
           /\ CeilDiv(p) =< s \div PageSize
           /\ FloorAlign(s) - CeilAlign(p) = (s \div PageSize - CeilDiv(p)) * PageSize
           /\ FloorAlign(s) - CeilAlign(p) \in Nat
           /\ (FloorAlign(s) - CeilAlign(p)) \div PageSize = s \div PageSize - CeilDiv(p)
           /\ CeilDiv(s) = s \div PageSize + IF s > FloorAlign(s) THEN 1 ELSE 0
  BY <1>1, RowArithmetic
<1>7. Num1(batch, b) = (IF s =< CeilAlign(p) THEN s ELSE CeilAlign(p)) - p
  <2>1. Min({s, CeilAlign(p)}) = IF s =< CeilAlign(p) THEN s ELSE CeilAlign(p)
    <3>1. /\ Min({s, CeilAlign(p)}) \in {s, CeilAlign(p)}
          /\ \A y \in {s, CeilAlign(p)} : Min({s, CeilAlign(p)}) =< y
      <4>1. {s, CeilAlign(p)} \in SUBSET Nat /\ {s, CeilAlign(p)} # {}
        BY <1>1, <1>5
      <4> QED
        BY <4>1, LeastNatural
    <3> QED
      BY <1>1, <1>5, <3>1
  <2> QED
    BY <2>1 DEF Num1
<1>8. DoneAfter1(batch, b) <=> s =< CeilAlign(p)
  BY <1>1, <1>5, <1>7 DEF DoneAfter1
<1>9. CASE s =< CeilAlign(p)
  <2>1. Num2(batch, b) = 0 /\ Num3(batch, b) = 0 /\ Num1(batch, b) = s - p
    BY <1>7, <1>8, <1>9 DEF Num2, Num3
  <2>2. 0 \div PageSize = 0
    BY PageSizeFacts
  <2>3. PagesOfRow(batch)[b] = 0 /\ PagesPerReq(batch)[b] = 0
    BY <1>3, <1>4, <1>6, <1>9, <2>1, <2>2
  <2> QED
    BY <1>1, <1>2, <1>8, <1>9, <2>1, <2>3
<1>10. CASE ~(s =< CeilAlign(p))
  <2>1. s > CeilAlign(p)
    BY <1>1, <1>5, <1>10
  <2>2. /\ Num1(batch, b) = CeilAlign(p) - p
        /\ Num2(batch, b) = FloorAlign(s) - CeilAlign(p)
        /\ Num3(batch, b) = s - FloorAlign(s)
    BY <1>7, <1>8, <1>10 DEF Num2, Num3
  <2>a. FloorAlign(s) - CeilAlign(p) \in Nat
    BY <1>6, <2>1
  <2>3. /\ Num1(batch, b) \in Nat /\ Num2(batch, b) \in Nat /\ Num3(batch, b) \in Nat
        /\ Num1(batch, b) + Num2(batch, b) + Num3(batch, b) = s - p
        /\ Num3(batch, b) < PageSize
        /\ Num3(batch, b) > 0 <=> s > FloorAlign(s)
    <3> DEFINE c == CeilAlign(p)
               f == FloorAlign(s)
    <3>1. /\ p \in Nat /\ s \in Nat /\ c \in Nat /\ f \in Nat /\ PageSize \in Nat
          /\ p =< c /\ f =< s /\ s < f + PageSize
      BY <1>1, <1>5, PageSizeFacts
    <3> HIDE DEF p, s, c, f
    <3>2. c - p \in Nat /\ s - f \in Nat /\ (c - p) + (f - c) + (s - f) = s - p
      BY <3>1
    <3>3. s - f < PageSize /\ (s - f > 0 <=> s > f)
      BY <3>1
    <3> QED
      BY <2>a, <2>2, <3>2, <3>3 DEF c, f
  <2>4. /\ Num2(batch, b) \div PageSize = s \div PageSize - CeilDiv(p)
        /\ Num2(batch, b) \div PageSize \in Nat
        /\ Num2(batch, b) = (Num2(batch, b) \div PageSize) * PageSize
    BY <1>6, <2>1, <2>2
  <2>5. PagesOfRow(batch)[b]
          = Num2(batch, b) \div PageSize + IF Num3(batch, b) > 0 THEN 1 ELSE 0
    BY <1>3, <1>6, <2>1, <2>3, <2>4
  <2> QED
    BY <1>2, <1>4, <1>8, <1>10, <2>1, <2>2, <2>3, <2>4, <2>5
<1> QED
  BY <1>9, <1>10

-----------------------------------------------------------------------------
(* Offsets *)

\* The three sums: tokens and pages before a row, the totals, and the row a
\* slot belongs to.
LEMMA OffsetFacts ==
  ASSUME NEW batch, NEW n, IsBatch(batch, n)
  PROVE  /\ Cumsum(Extends(batch), 0) = 0 /\ Cumsum(PagesOfRow(batch), 0) = 0
         /\ \A b \in 0..n : /\ Cumsum(Extends(batch), b) \in Nat
                            /\ Cumsum(PagesOfRow(batch), b) \in Nat
         /\ \A b \in 1..n :
              /\ Cumsum(Extends(batch), b) - Extends(batch)[b]
                   = Cumsum(Extends(batch), b - 1)
              /\ Cumsum(PagesOfRow(batch), b) - PagesOfRow(batch)[b]
                   = Cumsum(PagesOfRow(batch), b - 1)
         /\ \A a, b \in 0..n : a =< b =>
              /\ Cumsum(Extends(batch), a) =< Cumsum(Extends(batch), b)
              /\ Cumsum(PagesOfRow(batch), a) =< Cumsum(PagesOfRow(batch), b)
         /\ SumFunction(Extends(batch)) = Cumsum(Extends(batch), n)
         /\ GetNumNewPages(batch) = Cumsum(PagesOfRow(batch), n)
         /\ PagesPerReq(batch) = PagesOfRow(batch)
<1>1. n \in Nat /\ n >= 1 /\ Rows(batch) = 1..n
  BY BatchFacts
<1>2. \A b \in 1..n : Extends(batch)[b] \in Nat /\ PagesOfRow(batch)[b] \in Nat
  BY RowShape
<1>3. /\ Cumsum(Extends(batch), 0) = 0
      /\ \A b \in 0..n : Cumsum(Extends(batch), b) \in Nat
      /\ \A b \in 1..n : Cumsum(Extends(batch), b)
                           = Extends(batch)[b] + Cumsum(Extends(batch), b - 1)
      /\ \A a, b \in 0..n : a =< b =>
           Cumsum(Extends(batch), a) =< Cumsum(Extends(batch), b)
  BY <1>1, <1>2, PrefixSum DEF Cumsum
<1>4. /\ Cumsum(PagesOfRow(batch), 0) = 0
      /\ \A b \in 0..n : Cumsum(PagesOfRow(batch), b) \in Nat
      /\ \A b \in 1..n : Cumsum(PagesOfRow(batch), b)
                           = PagesOfRow(batch)[b] + Cumsum(PagesOfRow(batch), b - 1)
      /\ \A a, b \in 0..n : a =< b =>
           Cumsum(PagesOfRow(batch), a) =< Cumsum(PagesOfRow(batch), b)
  BY <1>1, <1>2, PrefixSum DEF Cumsum
<1>5. DOMAIN Extends(batch) = 1..n /\ DOMAIN PagesOfRow(batch) = 1..n
  BY <1>1 DEF Extends, PagesOfRow
<1>6. /\ SumFunction(Extends(batch)) = Cumsum(Extends(batch), n)
      /\ GetNumNewPages(batch) = Cumsum(PagesOfRow(batch), n)
  BY <1>5 DEF SumFunction, Cumsum, GetNumNewPages
<1>7. PagesPerReq(batch) = PagesOfRow(batch)
  <2>1. \A b \in 1..n : PagesPerReq(batch)[b] = PagesOfRow(batch)[b]
    BY RowShape
  <2>2. PagesPerReq(batch) = [b \in 1..n |-> PagesPerReq(batch)[b]]
    BY <1>1 DEF PagesPerReq
  <2>3. PagesOfRow(batch) = [b \in 1..n |-> PagesOfRow(batch)[b]]
    BY <1>1 DEF PagesOfRow
  <2> QED
    BY <2>1, <2>2, <2>3
<1>8. ASSUME NEW b \in 1..n
      PROVE  /\ Cumsum(Extends(batch), b) - Extends(batch)[b]
                  = Cumsum(Extends(batch), b - 1)
             /\ Cumsum(PagesOfRow(batch), b) - PagesOfRow(batch)[b]
                  = Cumsum(PagesOfRow(batch), b - 1)
  <2>1. b - 1 \in 0..n
    BY <1>1
  <2>2. Cumsum(Extends(batch), b - 1) \in Nat /\ Extends(batch)[b] \in Nat
    BY <1>2, <1>3, <2>1
  <2>3. Cumsum(PagesOfRow(batch), b - 1) \in Nat /\ PagesOfRow(batch)[b] \in Nat
    BY <1>2, <1>4, <2>1
  <2>4. Cumsum(Extends(batch), b) = Extends(batch)[b] + Cumsum(Extends(batch), b - 1)
    BY <1>3
  <2>5. Cumsum(PagesOfRow(batch), b)
          = PagesOfRow(batch)[b] + Cumsum(PagesOfRow(batch), b - 1)
    BY <1>4
  <2> QED
    BY <2>2, <2>3, <2>4, <2>5
<1> QED
  BY <1>3, <1>4, <1>6, <1>7, <1>8

\* A slot has one owner, the row whose stretch of the output it lies in.
LEMMA OwnerFacts ==
  ASSUME NEW batch, NEW n, IsBatch(batch, n),
         NEW j \in 0..(Cumsum(Extends(batch), n) - 1)
  PROVE  /\ Owner(batch, j) \in 1..n
         /\ Cumsum(Extends(batch), Owner(batch, j) - 1) =< j
         /\ j < Cumsum(Extends(batch), Owner(batch, j))
         /\ \A b \in 1..n : /\ Cumsum(Extends(batch), b - 1) =< j
                            /\ j < Cumsum(Extends(batch), b)
                            => b = Owner(batch, j)
<1>1. n \in Nat /\ n >= 1 /\ Rows(batch) = 1..n
  BY BatchFacts
<1>2. \A b \in 1..n : Extends(batch)[b] \in Nat
  BY RowShape
<1>3. j \in Nat /\ j < SumFunctionOnSet(Extends(batch), 1..n)
  <2>1. Cumsum(Extends(batch), n) \in Nat
    BY <1>1, OffsetFacts
  <2> QED
    BY <2>1 DEF Cumsum
<1>4. Owner(batch, j) = Min({b \in 1..n : SumFunctionOnSet(Extends(batch), 1..b) > j})
  BY <1>1 DEF Owner, Cumsum
<1> QED
  BY <1>1, <1>2, <1>3, <1>4, PrefixSumOwner DEF Cumsum

-----------------------------------------------------------------------------
(* The two implementations *)

\* Token l of the extension of row b: the rest of the old page, then the
\* whole new pages, then the last one.
RowSlot(batch, b, l) ==
  IF l < Num1(batch, b) THEN batch.last_loc[b] + 1 + l
  ELSE IF l < Num1(batch, b) + Num2(batch, b)
  THEN FreePages[Cumsum(PagesOfRow(batch), b - 1)
                   + (l - Num1(batch, b)) \div PageSize + 1] * PageSize
         + ((l - Num1(batch, b)) % PageSize)
  ELSE FreePages[Cumsum(PagesOfRow(batch), b)] * PageSize
         + (l - Num1(batch, b) - Num2(batch, b))

\* Slots of the output and tokens of the rows are the same thing.
LEMMA SlotOfRow ==
  ASSUME NEW batch, NEW n, IsBatch(batch, n), NEW b \in 1..n,
         NEW j \in Int, Cumsum(Extends(batch), b - 1) =< j,
         j < Cumsum(Extends(batch), b)
  PROVE  /\ j \in 0..(Cumsum(Extends(batch), n) - 1)
         /\ Owner(batch, j) = b
         /\ j - Cumsum(Extends(batch), b - 1) \in 0..(Extends(batch)[b] - 1)
         /\ NaiveSlot(batch, j) = RowSlot(batch, b, j - Cumsum(Extends(batch), b - 1))
<1> DEFINE before == Cumsum(Extends(batch), b - 1)
           l == j - before
<1>1. n \in Nat /\ n >= 1
  BY BatchFacts
<1>2. b \in 0..n /\ b - 1 \in 0..n /\ n \in 0..n
  BY <1>1
<1>3. /\ before \in Nat /\ Cumsum(Extends(batch), b) \in Nat
      /\ Cumsum(Extends(batch), b) =< Cumsum(Extends(batch), n)
      /\ Cumsum(Extends(batch), n) \in Nat
      /\ Cumsum(Extends(batch), b) - Extends(batch)[b] = before
      /\ Cumsum(PagesOfRow(batch), b) - PagesOfRow(batch)[b]
           = Cumsum(PagesOfRow(batch), b - 1)
      /\ PagesPerReq(batch) = PagesOfRow(batch)
  BY <1>1, <1>2, OffsetFacts
<1>4. /\ Extends(batch)[b] \in Nat
      /\ Num1(batch, b) \in Nat /\ Num2(batch, b) \in Nat
  BY RowShape
<1>5. j \in 0..(Cumsum(Extends(batch), n) - 1)
  BY <1>3
<1>6. Owner(batch, j) = b
  BY <1>5, OwnerFacts
<1>7. l \in 0..(Extends(batch)[b] - 1)
  BY <1>3, <1>4
<1>8. NaiveSlot(batch, j) =
        CASE l < Num1(batch, b) -> batch.last_loc[b] + 1 + l
          [] l >= Num1(batch, b) /\ l < Num1(batch, b) + Num2(batch, b) ->
               FreePages[Cumsum(PagesOfRow(batch), b - 1)
                           + (l - Num1(batch, b)) \div PageSize + 1] * PageSize
                 + ((l - Num1(batch, b)) % PageSize)
          [] l >= Num1(batch, b) + Num2(batch, b) ->
               FreePages[Cumsum(PagesOfRow(batch), b)] * PageSize
                 + (l - Num1(batch, b) - Num2(batch, b))
  BY <1>3, <1>6, Zenon DEF NaiveSlot
<1> HIDE DEF l
<1>9. NaiveSlot(batch, j) = RowSlot(batch, b, l)
  <2>1. l \in Int
    BY <1>7
  <2>2. CASE l < Num1(batch, b)
    BY <1>4, <1>8, <2>1, <2>2 DEF RowSlot
  <2>3. CASE l >= Num1(batch, b) /\ l < Num1(batch, b) + Num2(batch, b)
    BY <1>4, <1>8, <2>1, <2>3 DEF RowSlot
  <2>4. CASE l >= Num1(batch, b) + Num2(batch, b)
    BY <1>4, <1>8, <2>1, <2>4 DEF RowSlot
  <2> QED
    BY <1>4, <2>1, <2>2, <2>3, <2>4
<1> QED
  BY <1>5, <1>6, <1>7, <1>9 DEF l

\* What one program of the kernel stores belongs to its own row and is what
\* the row is to have there.
LEMMA StoreFacts ==
  ASSUME NEW batch, NEW n, IsBatch(batch, n), NEW pid \in 1..n,
         NEW q \in Stores(batch, pid), NEW j \in DOMAIN q
  PROVE  /\ j \in Int
         /\ Cumsum(Extends(batch), pid - 1) =< j /\ j < Cumsum(Extends(batch), pid)
         /\ q[j] = RowSlot(batch, pid, j - Cumsum(Extends(batch), pid - 1))
<1> DEFINE before == Cumsum(Extends(batch), pid - 1)
           n1 == Num1(batch, pid)
           n2 == Num2(batch, pid)
           n3 == Num3(batch, pid)
<1>1. n \in Nat /\ n >= 1 /\ pid - 1 \in 0..n /\ pid \in 0..n
  BY BatchFacts
<1>2. /\ before \in Nat /\ Cumsum(Extends(batch), pid) \in Nat
      /\ Cumsum(Extends(batch), pid) - Extends(batch)[pid] = before
      /\ Cumsum(PagesOfRow(batch), pid) \in Nat
      /\ Cumsum(PagesOfRow(batch), pid) - PagesOfRow(batch)[pid]
           = Cumsum(PagesOfRow(batch), pid - 1)
  BY <1>1, OffsetFacts
<1>3. /\ n1 \in Nat /\ n2 \in Nat /\ n3 \in Nat
      /\ n1 + n2 + n3 = Extends(batch)[pid]
      /\ Extends(batch)[pid] \in Nat /\ PagesOfRow(batch)[pid] \in Nat
  BY RowShape
<1>4. KernelStart(batch, pid) = before
  BY <1>2 DEF KernelStart
<1>5. KernelPageStart(batch, pid) = Cumsum(PagesOfRow(batch), pid - 1)
  BY <1>2 DEF KernelPageStart
<1>6. ASSUME q = Part1(batch, pid)
      PROVE  /\ j \in Int /\ before =< j /\ j < before + n1
             /\ q[j] = batch.last_loc[pid] + 1 + (j - before)
  BY <1>2, <1>3, <1>4, <1>6 DEF Part1
<1>7. ASSUME ~DoneAfter1(batch, pid), q = Part2(batch, pid)
      PROVE  /\ j \in Int /\ before + n1 =< j /\ j < before + n1 + n2
             /\ q[j] = FreePages[Cumsum(PagesOfRow(batch), pid - 1)
                                   + (j - (before + n1)) \div PageSize + 1] * PageSize
                         + ((j - (before + n1)) % PageSize)
  <2>1. n2 = FloorAlign(batch.seq_lens[pid]) - CeilAlign(batch.prefix_lens[pid])
    BY <1>7, RowShape
  <2>2. q = [o \in (before + n1)..(before + n1 + n2 - 1) |->
               FreePages[Cumsum(PagesOfRow(batch), pid - 1)
                           + (o - (before + n1)) \div PageSize + 1] * PageSize
                 + ((o - (before + n1)) % PageSize)]
    BY <1>4, <1>5, <1>7, <2>1, Zenon DEF Part2
  <2>3. j \in (before + n1)..(before + n1 + n2 - 1)
    BY <2>2, Zenon
  <2>4. q[j] = FreePages[Cumsum(PagesOfRow(batch), pid - 1)
                           + (j - (before + n1)) \div PageSize + 1] * PageSize
                 + ((j - (before + n1)) % PageSize)
    BY <2>2, <2>3, Zenon
  <2> QED
    BY <1>2, <1>3, <2>3, <2>4
<1>8. ASSUME ~DoneAfter1(batch, pid), q = Part3(batch, pid)
      PROVE  /\ j \in Int /\ before + n1 + n2 =< j /\ j < before + n1 + n2 + n3
             /\ q[j] = FreePages[Cumsum(PagesOfRow(batch), pid)] * PageSize
                         + (j - (before + n1 + n2))
  <2>1. /\ n2 = FloorAlign(batch.seq_lens[pid]) - CeilAlign(batch.prefix_lens[pid])
        /\ n3 = batch.seq_lens[pid] - FloorAlign(batch.seq_lens[pid])
    BY <1>8, RowShape
  <2>2. KernelStart(batch, pid) + n1 + FloorAlign(batch.seq_lens[pid])
          - CeilAlign(batch.prefix_lens[pid]) = before + n1 + n2
    <3>1. batch.seq_lens[pid] \in Nat /\ batch.prefix_lens[pid] \in Nat
      BY BatchFacts
    <3>2. /\ FloorAlign(batch.seq_lens[pid]) \in Nat
          /\ CeilAlign(batch.prefix_lens[pid]) \in Nat
      BY <3>1, AlignFacts
    <3> QED
      BY <1>2, <1>3, <1>4, <2>1, <3>2
  <2>3. KernelPageStart(batch, pid) + PagesOfRow(batch)[pid]
          = Cumsum(PagesOfRow(batch), pid)
    BY <1>2, <1>3, <1>5
  <2>4. q = [o \in (before + n1 + n2)..(before + n1 + n2 + n3 - 1) |->
               FreePages[Cumsum(PagesOfRow(batch), pid)] * PageSize
                 + (o - (before + n1 + n2))]
    BY <1>8, <2>1, <2>2, <2>3, Zenon DEF Part3
  <2>5. j \in (before + n1 + n2)..(before + n1 + n2 + n3 - 1)
    BY <2>4, Zenon
  <2>6. q[j] = FreePages[Cumsum(PagesOfRow(batch), pid)] * PageSize
                 + (j - (before + n1 + n2))
    BY <2>4, <2>5, Zenon
  <2> QED
    BY <1>2, <1>3, <2>5, <2>6
<1>9. \/ q = Part1(batch, pid)
      \/ ~DoneAfter1(batch, pid) /\ q = Part2(batch, pid)
      \/ ~DoneAfter1(batch, pid) /\ q = Part3(batch, pid)
  BY DEF Stores
<1> HIDE DEF before, n1, n2, n3
<1>10. Cumsum(Extends(batch), pid) = before + n1 + n2 + n3
  BY <1>2, <1>3
<1>11. CASE q = Part1(batch, pid)
  <2>1. /\ j \in Int /\ before =< j /\ j < before + n1
        /\ q[j] = batch.last_loc[pid] + 1 + (j - before)
    BY <1>6, <1>11
  <2>2. j - before < n1
    BY <1>2, <1>3, <2>1
  <2>3. q[j] = RowSlot(batch, pid, j - before)
    BY <2>1, <2>2 DEF RowSlot, n1
  <2> QED
    BY <1>2, <1>3, <1>10, <2>1, <2>3 DEF before
<1>12. CASE ~DoneAfter1(batch, pid) /\ q = Part2(batch, pid)
  <2>1. /\ j \in Int /\ before + n1 =< j /\ j < before + n1 + n2
        /\ q[j] = FreePages[Cumsum(PagesOfRow(batch), pid - 1)
                              + (j - (before + n1)) \div PageSize + 1] * PageSize
                    + ((j - (before + n1)) % PageSize)
    BY <1>7, <1>12
  <2>2. /\ ~(j - before < n1) /\ j - before < n1 + n2
        /\ j - (before + n1) = j - before - n1
    BY <1>2, <1>3, <2>1
  <2>3. q[j] = RowSlot(batch, pid, j - before)
    BY <2>1, <2>2 DEF RowSlot, n1, n2
  <2> QED
    BY <1>2, <1>3, <1>10, <2>1, <2>3 DEF before
<1>13. CASE ~DoneAfter1(batch, pid) /\ q = Part3(batch, pid)
  <2>1. /\ j \in Int /\ before + n1 + n2 =< j /\ j < before + n1 + n2 + n3
        /\ q[j] = FreePages[Cumsum(PagesOfRow(batch), pid)] * PageSize
                    + (j - (before + n1 + n2))
    BY <1>8, <1>13
  <2>2. /\ ~(j - before < n1) /\ ~(j - before < n1 + n2)
        /\ j - (before + n1 + n2) = j - before - n1 - n2
    BY <1>2, <1>3, <2>1
  <2>3. q[j] = RowSlot(batch, pid, j - before)
    BY <2>1, <2>2 DEF RowSlot, n1, n2
  <2> QED
    BY <1>2, <1>3, <1>10, <2>1, <2>3 DEF before
<1> QED
  BY <1>9, <1>11, <1>12, <1>13

\* Every token of a row is stored by the program of the row.
LEMMA StoreCovers ==
  ASSUME NEW batch, NEW n, IsBatch(batch, n), NEW b \in 1..n,
         NEW j \in Int, Cumsum(Extends(batch), b - 1) =< j,
         j < Cumsum(Extends(batch), b)
  PROVE  \E q \in Stores(batch, b) : j \in DOMAIN q
<1> DEFINE before == Cumsum(Extends(batch), b - 1)
           n1 == Num1(batch, b)
           n2 == Num2(batch, b)
           n3 == Num3(batch, b)
<1>1. n \in Nat /\ n >= 1 /\ b - 1 \in 0..n /\ b \in 0..n
  BY BatchFacts
<1>2. /\ before \in Nat /\ Cumsum(Extends(batch), b) \in Nat
      /\ Cumsum(Extends(batch), b) - Extends(batch)[b] = before
  BY <1>1, OffsetFacts
<1>3. /\ n1 \in Nat /\ n2 \in Nat /\ n3 \in Nat
      /\ n1 + n2 + n3 = Extends(batch)[b]
      /\ Extends(batch)[b] \in Nat
  BY RowShape
<1>4. KernelStart(batch, b) = before
  BY <1>2 DEF KernelStart
<1>5. j < before + n1 + n2 + n3
  BY <1>2, <1>3
<1>6. DOMAIN Part1(batch, b) = before..(before + n1 - 1)
  BY <1>4, Zenon DEF Part1
<1>7. ASSUME ~DoneAfter1(batch, b)
      PROVE  /\ DOMAIN Part2(batch, b) = (before + n1)..(before + n1 + n2 - 1)
             /\ DOMAIN Part3(batch, b) = (before + n1 + n2)..(before + n1 + n2 + n3 - 1)
  <2>1. /\ n2 = FloorAlign(batch.seq_lens[b]) - CeilAlign(batch.prefix_lens[b])
        /\ n3 = batch.seq_lens[b] - FloorAlign(batch.seq_lens[b])
    BY <1>7, RowShape
  <2>2. KernelStart(batch, b) + n1 + FloorAlign(batch.seq_lens[b])
          - CeilAlign(batch.prefix_lens[b]) = before + n1 + n2
    <3>1. batch.seq_lens[b] \in Nat /\ batch.prefix_lens[b] \in Nat
      BY BatchFacts
    <3>2. /\ FloorAlign(batch.seq_lens[b]) \in Nat
          /\ CeilAlign(batch.prefix_lens[b]) \in Nat
      BY <3>1, AlignFacts
    <3> QED
      BY <1>2, <1>3, <1>4, <2>1, <3>2
  <2>3. DOMAIN Part2(batch, b) = (before + n1)..(before + n1 + n2 - 1)
    BY <1>4, <2>1, Zenon DEF Part2
  <2>4. DOMAIN Part3(batch, b) = (before + n1 + n2)..(before + n1 + n2 + n3 - 1)
    BY <2>1, <2>2, Zenon DEF Part3
  <2> QED
    BY <2>3, <2>4
<1>8. DoneAfter1(batch, b) => n2 = 0 /\ n3 = 0
  BY RowShape
<1>9. Part1(batch, b) \in Stores(batch, b)
  BY DEF Stores
<1>10. ~DoneAfter1(batch, b) =>
         Part2(batch, b) \in Stores(batch, b) /\ Part3(batch, b) \in Stores(batch, b)
  BY DEF Stores
<1> HIDE DEF before, n1, n2, n3
<1>11. before =< j
  BY DEF before
<1>12. CASE j < before + n1
  <2>1. j \in DOMAIN Part1(batch, b)
    BY <1>2, <1>3, <1>6, <1>11, <1>12
  <2> QED
    BY <1>9, <2>1
<1>13. CASE ~(j < before + n1)
  <2>1. ~DoneAfter1(batch, b)
    BY <1>2, <1>3, <1>5, <1>8, <1>13
  <2>2. CASE j < before + n1 + n2
    <3>1. j \in DOMAIN Part2(batch, b)
      BY <1>2, <1>3, <1>7, <1>13, <2>1, <2>2
    <3> QED
      BY <1>10, <2>1, <3>1
  <2>3. CASE ~(j < before + n1 + n2)
    <3>1. j \in DOMAIN Part3(batch, b)
      BY <1>2, <1>3, <1>5, <1>7, <2>1, <2>3
    <3> QED
      BY <1>10, <2>1, <3>1
  <2> QED
    BY <2>2, <2>3
<1> QED
  BY <1>12, <1>13

-----------------------------------------------------------------------------
(* The specification *)

\* The call is a batch, and its output is what the naive code computes.
BatchInv ==
  /\ \E n \in 1..MaxBatch : IsBatch(call, n)
  /\ Called => out = AllocExtendNaive(call)

LEMMA BatchAlways == Spec => []BatchInv
<1>1. Init => BatchInv
  <2> SUFFICES ASSUME Init PROVE BatchInv
    OBVIOUS
  <2>1. PICK n \in 1..MaxBatch : \E p, s \in [1..n -> 0..MaxSeqLen] :
          /\ \A b \in 1..n : p[b] =< s[b]
          /\ call = [prefix_lens |-> p, seq_lens |-> s,
                     last_loc |-> [b \in 1..n |-> LastLoc(b, p[b])]]
    BY DEF Init
  <2>2. PICK p \in [1..n -> 0..MaxSeqLen], s \in [1..n -> 0..MaxSeqLen] :
          /\ \A b \in 1..n : p[b] =< s[b]
          /\ call = [prefix_lens |-> p, seq_lens |-> s,
                     last_loc |-> [b \in 1..n |-> LastLoc(b, p[b])]]
    BY <2>1
  <2>3. call.prefix_lens = p /\ call.seq_lens = s
        /\ call.last_loc = [b \in 1..n |-> LastLoc(b, p[b])]
    BY <2>2
  <2>4. IsBatch(call, n)
    BY <2>2, <2>3 DEF IsBatch
  <2> QED
    BY <2>4 DEF BatchInv, Init, Called
<1>2. BatchInv /\ [Next]_vars => BatchInv'
  BY DEF BatchInv, Next, Extend, vars, Called
<1> QED
  BY <1>1, <1>2, PTL DEF Spec

\* A slot is in the stretch of its owner.
LEMMA SlotFacts ==
  ASSUME NEW batch, NEW n, IsBatch(batch, n), NEW j \in DOMAIN AllocExtendNaive(batch)
  PROVE  /\ j \in 0..(Cumsum(Extends(batch), n) - 1) /\ j \in Int
         /\ Owner(batch, j) \in 1..n
         /\ Cumsum(Extends(batch), Owner(batch, j) - 1) =< j
         /\ j < Cumsum(Extends(batch), Owner(batch, j))
         /\ AllocExtendNaive(batch)[j]
              = RowSlot(batch, Owner(batch, j),
                        j - Cumsum(Extends(batch), Owner(batch, j) - 1))
<1>1. DOMAIN AllocExtendNaive(batch) = 0..(Cumsum(Extends(batch), n) - 1)
  BY OffsetFacts DEF AllocExtendNaive
<1>2. j \in 0..(Cumsum(Extends(batch), n) - 1) /\ j \in Int
  <2>1. Cumsum(Extends(batch), n) \in Nat
    BY BatchFacts, OffsetFacts
  <2> QED
    BY <1>1, <2>1
<1>3. /\ Owner(batch, j) \in 1..n
      /\ Cumsum(Extends(batch), Owner(batch, j) - 1) =< j
      /\ j < Cumsum(Extends(batch), Owner(batch, j))
  BY <1>2, OwnerFacts
<1>4. AllocExtendNaive(batch)[j] = NaiveSlot(batch, j)
  BY DEF AllocExtendNaive
<1> QED
  BY <1>2, <1>3, <1>4, SlotOfRow

\* The Triton kernel writes every slot of the output, no two programs write
\* the same one, and what is written is what the torch reference computes.
THEOREM KernelIsNaive == Spec => []KernelAgreesWithNaive
<1>1. ASSUME BatchInv PROVE KernelAgreesWithNaive
  <2> SUFFICES ASSUME Called PROVE KernelAgreesWithNaive
    BY DEF KernelAgreesWithNaive
  <2>1. PICK n \in 1..MaxBatch : IsBatch(call, n)
    BY <1>1 DEF BatchInv
  <2>2. out = AllocExtendNaive(call)
    BY <1>1 DEF BatchInv
  <2>3. DOMAIN out = 0..(Cumsum(Extends(call), n) - 1)
    BY <2>1, <2>2, OffsetFacts DEF AllocExtendNaive
  <2>4. Rows(call) = 1..n
    BY <2>1, BatchFacts
  <2>5. ASSUME NEW q \in AllStores(call), NEW j \in DOMAIN q
        PROVE  j \in DOMAIN out /\ q[j] = out[j]
    <3>1. PICK pid \in 1..n : q \in Stores(call, pid)
      BY <2>4 DEF AllStores
    <3>2. /\ j \in Int
          /\ Cumsum(Extends(call), pid - 1) =< j /\ j < Cumsum(Extends(call), pid)
          /\ q[j] = RowSlot(call, pid, j - Cumsum(Extends(call), pid - 1))
      BY <2>1, <3>1, StoreFacts
    <3>3. /\ j \in 0..(Cumsum(Extends(call), n) - 1)
          /\ NaiveSlot(call, j) = RowSlot(call, pid, j - Cumsum(Extends(call), pid - 1))
      BY <2>1, <3>2, SlotOfRow
    <3>4. j \in DOMAIN out
      BY <2>3, <3>3
    <3>5. out[j] = NaiveSlot(call, j)
      BY <2>2, <3>4 DEF AllocExtendNaive
    <3> QED
      BY <3>2, <3>3, <3>4, <3>5
  <2>6. ASSUME NEW j \in DOMAIN out
        PROVE  \E q \in AllStores(call) : j \in DOMAIN q
    <3>1. /\ j \in Int /\ Owner(call, j) \in 1..n
          /\ Cumsum(Extends(call), Owner(call, j) - 1) =< j
          /\ j < Cumsum(Extends(call), Owner(call, j))
      BY <2>1, <2>2, SlotFacts
    <3>2. PICK q \in Stores(call, Owner(call, j)) : j \in DOMAIN q
      BY <2>1, <3>1, StoreCovers
    <3>3. q \in AllStores(call)
      BY <2>4, <3>1, <3>2 DEF AllStores
    <3> QED
      BY <3>2, <3>3
  <2>7. ASSUME NEW j \in DOMAIN out
        PROVE  KernelSlot(call, j) = {out[j]}
    BY <2>5, <2>6, <2>7 DEF KernelSlot
  <2>8. UNION {DOMAIN p : p \in AllStores(call)} = DOMAIN out
    BY <2>5, <2>6
  <2> QED
    BY <2>7, <2>8 DEF KernelAgreesWithNaive
<1> QED
  BY <1>1, BatchAlways, PTL

\* The pages a batch needs are bounded by what alloc_extend compares with the
\* free list before it merges the staged pages.
THEOREM MergeBoundHolds == Spec => []MergeBoundCoversDemand
<1>1. ASSUME BatchInv PROVE MergeBoundCoversDemand
  <2>1. PICK n \in 1..MaxBatch : IsBatch(call, n)
    BY <1>1 DEF BatchInv
  <2> DEFINE w == PagesOfRow(call)
             v == Extends(call)
             W == SumFunctionOnSet(w, 1..n)
             V == SumFunctionOnSet(v, 1..n)
  <2>2. n \in Nat /\ n >= 1 /\ Rows(call) = 1..n
    BY <2>1, BatchFacts
  <2>3. IsFiniteSet(1..n) /\ Cardinality(1..n) = n
    BY <2>2, FS_Interval
  <2>4. ASSUME NEW b \in 1..n
        PROVE  w[b] \in Nat /\ v[b] \in Nat /\ PageSize * w[b] =< v[b] + (PageSize - 1)
    <3> DEFINE p == call.prefix_lens[b]
               s == call.seq_lens[b]
    <3>1. p \in Nat /\ s \in Nat /\ p =< s
      BY <2>1, BatchFacts
    <3>2. w[b] \in Nat /\ v[b] \in Nat /\ v[b] = s - p
      BY <2>1, RowShape
    <3>3. w[b] = CeilDiv(s) - CeilDiv(p)
      <4>1. (CeilAlign(s) - CeilAlign(p)) \div PageSize = CeilDiv(s) - CeilDiv(p)
        BY <3>1, RowArithmetic
      <4> QED
        BY <2>2, <4>1 DEF PagesOfRow
    <3>4. /\ CeilDiv(s) \in Nat /\ CeilDiv(p) \in Nat
          /\ CeilAlign(s) = CeilDiv(s) * PageSize /\ CeilAlign(s) \in Nat
          /\ CeilAlign(p) = CeilDiv(p) * PageSize /\ CeilAlign(p) \in Nat
          /\ p =< CeilAlign(p) /\ CeilAlign(s) < s + PageSize
      BY <3>1, AlignFacts
    <3> HIDE DEF p, s, w, v
    <3>5. PageSize * w[b] = CeilAlign(s) - CeilAlign(p)
      <4>1. w[b] * PageSize = CeilAlign(s) - CeilAlign(p)
        BY <3>3, <3>4, Cancel
      <4> QED
        BY <3>2, <4>1, PageSizeFacts
    <3> QED
      BY <3>1, <3>2, <3>4, <3>5, PageSizeFacts
  <2>5. PageSize * W =< V + (PageSize - 1) * n
    <3>1. PageSize \in Nat /\ PageSize - 1 \in Nat
      BY PageSizeFacts
    <3> HIDE DEF w, v
    <3> QED
      BY <2>3, <2>4, <3>1, SumBound
  <2>6. W \in Nat /\ V \in Nat
    <3> HIDE DEF w, v
    <3> QED
      BY <2>3, <2>4, SumInNat
  <2>7. GetNumNewPages(call) = W /\ SumFunction(Extends(call)) = V
    BY <2>1, OffsetFacts DEF Cumsum
  <2>8. Len(call.seq_lens) = n
    BY <2>1, <2>2 DEF IsBatch
  <2> HIDE DEF W, V
  <2>9. W =< V \div PageSize + n
    <3>1. /\ V \div PageSize \in Nat /\ (V % PageSize) \in 0..(PageSize - 1)
          /\ V = (V \div PageSize) * PageSize + (V % PageSize)
      BY <2>6, DivFacts
    <3>2. W * PageSize < (V \div PageSize + n + 1) * PageSize
      <4>1. /\ (V \div PageSize + n) * PageSize
                 = (V \div PageSize) * PageSize + n * PageSize
            /\ (V \div PageSize + n + 1) * PageSize
                 = (V \div PageSize + n) * PageSize + PageSize
            /\ (V \div PageSize) * PageSize \in Int /\ n * PageSize \in Int
            /\ W * PageSize \in Int
        <5>1. V \div PageSize \in Int /\ V \div PageSize + n \in Int /\ n \in Int /\ W \in Int
          BY <2>2, <2>6, <3>1
        <5> QED
          BY <5>1, Cancel
      <4>2. PageSize * W = W * PageSize /\ (PageSize - 1) * n = n * PageSize - n
        BY <2>2, <2>6, PageSizeFacts
      <4> QED
        BY <2>2, <2>5, <2>6, <3>1, <4>1, <4>2, PageSizeFacts
    <3>3. W < V \div PageSize + n + 1
      <4>1. V \div PageSize + n + 1 \in Int /\ W \in Int
        BY <2>2, <2>6, <3>1
      <4> QED
        BY <3>2, <4>1, Cancel
    <3> QED
      BY <2>2, <2>6, <3>1, <3>3
  <2> QED
    BY <2>7, <2>8, <2>9 DEF MergeBoundCoversDemand
<1> QED
  BY <1>1, BatchAlways, PTL

-----------------------------------------------------------------------------
(* The free list *)

\* Every page the rows count is there, and the list holds page numbers.
LEMMA EnoughPages ==
  ASSUME NEW batch, NEW n, IsBatch(batch, n)
  PROVE  /\ Len(FreePages) \in Nat
         /\ \A b \in 0..n : Cumsum(PagesOfRow(batch), b) =< Len(FreePages)
         /\ \A i \in 1..Len(FreePages) : FreePages[i] \in Nat
<1> DEFINE w == PagesOfRow(batch)
           d == MaxSeqLen \div PageSize + 1
           zero == [b \in 1..n |-> 0]
<1>1. n \in Nat /\ n >= 1 /\ Rows(batch) = 1..n /\ n =< MaxBatch /\ MaxBatch \in Nat
  <2>1. n \in 1..MaxBatch /\ MaxBatch \in Nat
    BY AllocExtendAssumption DEF IsBatch
  <2> QED
    BY <2>1, BatchFacts
<1>2. Len(FreePages) \in Nat /\ \A i \in 1..Len(FreePages) : FreePages[i] \in Nat
  <2>1. FreePages \in Seq(Nat)
    BY AllocExtendAssumption
  <2> QED
    BY <2>1
<1>3. /\ MaxSeqLen \in Nat /\ MaxSeqLen \div PageSize \in Nat /\ d \in Nat
      /\ MaxSeqLen < (MaxSeqLen \div PageSize) * PageSize + PageSize
      /\ (MaxSeqLen \div PageSize) * PageSize \in Nat
  <2>1. MaxSeqLen \in Nat
    BY AllocExtendAssumption
  <2> QED
    BY <2>1, DivFacts, PageSizeFacts
<1>4. ASSUME NEW b \in 1..n
      PROVE  w[b] \in Nat /\ zero[b] \in Nat /\ 1 * w[b] =< zero[b] + d
  <2> DEFINE p == batch.prefix_lens[b]
             s == batch.seq_lens[b]
  <2>1. p \in Nat /\ s \in Nat /\ p =< s /\ s =< MaxSeqLen
    BY BatchFacts
  <2>2. w[b] = CeilDiv(s) - CeilDiv(p) /\ CeilDiv(s) \in Nat /\ CeilDiv(p) \in Nat
    <3>1. /\ (CeilAlign(s) - CeilAlign(p)) \div PageSize = CeilDiv(s) - CeilDiv(p)
          /\ CeilDiv(s) \in Nat /\ CeilDiv(p) \in Nat
      BY <2>1, RowArithmetic
    <3> QED
      BY <1>1, <3>1 DEF PagesOfRow
  <2>3. CeilAlign(s) = CeilDiv(s) * PageSize /\ CeilAlign(s) < s + PageSize
    BY <2>1, AlignFacts
  <2>4. w[b] \in Nat
    BY RowShape
  <2>5. zero[b] = 0
    OBVIOUS
  <2> HIDE DEF p, s, w, zero
  <2>6. CeilDiv(s) * PageSize < (d + 1) * PageSize
    <3>1. MaxSeqLen \div PageSize \in Int /\ d \in Int
      BY <1>3
    <3>2. /\ (d + 1) * PageSize = d * PageSize + PageSize
          /\ d * PageSize = (MaxSeqLen \div PageSize) * PageSize + PageSize
      BY <3>1, Cancel
    <3>3. CeilDiv(s) * PageSize \in Int
      BY <2>2, Cancel
    <3> HIDE DEF d
    <3> QED
      BY <1>3, <2>1, <2>3, <3>1, <3>2, <3>3, PageSizeFacts
  <2>7. CeilDiv(s) < d + 1
    <3>1. CeilDiv(s) \in Int /\ d + 1 \in Int
      BY <1>3, <2>2
    <3> HIDE DEF d
    <3> QED
      BY <2>6, <3>1, Cancel
  <2> QED
    BY <1>3, <2>2, <2>4, <2>5, <2>7
<1>5. IsFiniteSet(1..n) /\ Cardinality(1..n) = n
  BY <1>1, FS_Interval
<1>6. SumFunctionOnSet(zero, 1..n) = 0
  <2>1. \A b \in 1..n : zero[b] = 0
    OBVIOUS
  <2> HIDE DEF zero
  <2>2. SumFunctionOnSet(zero, 1..n) = SumFunctionOnSet(zero, {})
    <3>1. /\ \A b \in 1..n : zero[b] \in Nat
          /\ \A b \in (1..n) \ {} : zero[b] = 0
          /\ {} \in SUBSET (1..n)
      BY <2>1
    <3> QED
      BY <1>5, <3>1, SumSupport
  <2> QED
    BY <2>2, SumEmpty
<1> HIDE DEF w, d, zero
<1>7. 1 * SumFunctionOnSet(w, 1..n) =< SumFunctionOnSet(zero, 1..n) + d * Cardinality(1..n)
  BY <1>3, <1>4, <1>5, SumBound
<1>8. SumFunctionOnSet(w, 1..n) \in Nat
  BY <1>4, <1>5, SumInNat
<1>9. MaxBatch * d =< Len(FreePages)
  BY AllocExtendAssumption DEF d
<1>10. d * n =< MaxBatch * d
  <2>1. ASSUME NEW x \in Nat, NEW m \in Nat, NEW k \in Nat, k =< m
        PROVE  x * k =< m * x
    BY <2>1
  <2> QED
    BY <1>1, <1>3, <2>1
<1>11. Cumsum(PagesOfRow(batch), n) =< Len(FreePages)
  <2>1. d * n \in Nat /\ MaxBatch * d \in Nat
    BY <1>1, <1>3
  <2>2. SumFunctionOnSet(w, 1..n) =< d * n
    BY <1>5, <1>6, <1>7, <1>8, <2>1
  <2>3. SumFunctionOnSet(w, 1..n) =< Len(FreePages)
    BY <1>2, <1>8, <1>9, <1>10, <2>1, <2>2
  <2> QED
    BY <2>3 DEF Cumsum, w
<1>12. ASSUME NEW b \in 0..n
       PROVE  Cumsum(PagesOfRow(batch), b) =< Len(FreePages)
  <2>1. /\ Cumsum(PagesOfRow(batch), b) \in Nat /\ Cumsum(PagesOfRow(batch), n) \in Nat
        /\ Cumsum(PagesOfRow(batch), b) =< Cumsum(PagesOfRow(batch), n)
    <3>1. n \in 0..n /\ b =< n
      BY <1>1
    <3> QED
      BY <3>1, OffsetFacts
  <2> QED
    BY <1>2, <1>11, <2>1
<1> QED
  BY <1>2, <1>12

-----------------------------------------------------------------------------
(* Decoding *)

\* A row that grows by one token either fills a slot of its old page or, when
\* the new length is 1 modulo the page size, opens a page.
LEMMA DecodeRow ==
  ASSUME NEW batch, NEW n, IsBatch(batch, n), NEW b \in 1..n,
         Extends(batch)[b] = 1
  PROVE  /\ batch.seq_lens[b] % PageSize = 1 =>
              /\ Num1(batch, b) = 0 /\ Num2(batch, b) = 0
              /\ PagesOfRow(batch)[b] = 1
         /\ batch.seq_lens[b] % PageSize # 1 =>
              Num1(batch, b) = 1 /\ PagesOfRow(batch)[b] = 0
<1> DEFINE p == batch.prefix_lens[b]
           s == batch.seq_lens[b]
           C == CeilAlign(p)
           n1 == Num1(batch, b)
           n2 == Num2(batch, b)
           n3 == Num3(batch, b)
           Done == DoneAfter1(batch, b)
<1>1. p \in Nat /\ s \in Nat /\ s = p + 1
  <2>1. p \in Nat /\ s \in Nat /\ Extends(batch)[b] = s - p
    BY BatchFacts, RowShape
  <2> QED
    BY <2>1
<1>2. /\ n1 \in Nat /\ n2 \in Nat /\ n3 \in Nat /\ n1 + n2 + n3 = 1
      /\ Done => s =< C /\ n2 = 0 /\ n3 = 0 /\ PagesOfRow(batch)[b] = 0
      /\ ~Done => /\ s > C /\ n1 = C - p
                  /\ n2 \div PageSize \in Nat
                  /\ n2 = (n2 \div PageSize) * PageSize
                  /\ PagesOfRow(batch)[b] = n2 \div PageSize + IF n3 > 0 THEN 1 ELSE 0
  BY RowShape
<1>3. /\ p \div PageSize \in Nat /\ (p % PageSize) \in 0..(PageSize - 1)
      /\ p = (p \div PageSize) * PageSize + (p % PageSize)
  BY <1>1, DivFacts
<1>4. /\ CeilDiv(p) \in Nat /\ C = CeilDiv(p) * PageSize /\ C \in Nat
      /\ p =< C /\ C < p + PageSize
  BY <1>1, AlignFacts
<1> HIDE DEF p, s, C, n1, n2, n3, Done
<1> DEFINE q == p \div PageSize
           r == p % PageSize
           c == CeilDiv(p)
<1>5. /\ q \in Nat /\ r \in 0..(PageSize - 1) /\ p = q * PageSize + r
      /\ c \in Nat /\ C = c * PageSize /\ q * PageSize \in Int
  <2>1. (p \div PageSize) * PageSize \in Int
    BY <1>3, Cancel
  <2> QED
    BY <1>3, <1>4, <2>1
<1> HIDE DEF q, r, c
<1>6. CASE r = 0
  <2>1. s % PageSize = 1
    <3>1. 1 \in 0..(PageSize - 1) /\ q \in Int /\ s = q * PageSize + 1
      BY <1>1, <1>5, <1>6, PageSizeFacts
    <3> QED
      BY <3>1, PageAndOffset
  <2>2. C = p
    <3>1. q * PageSize =< c * PageSize
      BY <1>1, <1>4, <1>5, <1>6
    <3>2. c * PageSize < (q + 1) * PageSize
      <4>1. (q + 1) * PageSize = q * PageSize + PageSize
        BY <1>5, Cancel
      <4> QED
        BY <1>1, <1>4, <1>5, <1>6, <4>1, PageSizeFacts
    <3>3. q =< c /\ c < q + 1
      BY <1>5, <3>1, <3>2, Cancel
    <3> QED
      BY <1>5, <1>6, <3>3
  <2>3. ~Done
    BY <1>1, <1>2, <2>2
  <2>4. n1 = 0
    BY <1>1, <1>2, <2>2, <2>3
  <2>5. n2 \div PageSize = 0 /\ n2 = 0
    <3> DEFINE k == n2 \div PageSize
    <3>1. k \in Nat /\ n2 = k * PageSize
      BY <1>2, <2>3
    <3> HIDE DEF k
    <3>2. n2 < 2
      BY <1>2
    <3>3. k = 0
      <4>1. k * PageSize < 1 * PageSize
        BY <1>2, <3>1, <3>2, PageSizeFacts
      <4>2. k < 1
        BY <3>1, <4>1, Cancel
      <4> QED
        BY <3>1, <4>2
    <3>4. n2 = 0
      BY <3>1, <3>3, PageSizeFacts
    <3> QED
      BY <3>3, <3>4 DEF k
  <2>6. n3 = 1
    BY <1>2, <2>4, <2>5
  <2>7. PagesOfRow(batch)[b] = 1
    BY <1>2, <2>3, <2>5, <2>6
  <2> QED
    BY <2>1, <2>4, <2>5, <2>7 DEF s, n1, n2
<1>7. CASE r # 0
  <2>1. q < c
    <3>1. q * PageSize < c * PageSize
      BY <1>1, <1>4, <1>5, <1>7, PageSizeFacts
    <3> QED
      BY <1>5, <3>1, Cancel
  <2>2. s =< C
    <3>1. (q + 1) * PageSize =< c * PageSize
      <4>1. q + 1 \in Int /\ c \in Int /\ q + 1 =< c
        BY <1>5, <2>1
      <4> QED
        BY <4>1, Cancel
    <3>2. (q + 1) * PageSize = q * PageSize + PageSize
      BY <1>5, Cancel
    <3> QED
      BY <1>1, <1>4, <1>5, <3>1, <3>2, PageSizeFacts
  <2>3. Done
    BY <1>1, <1>2, <1>4, <2>2
  <2>4. n1 = 1 /\ PagesOfRow(batch)[b] = 0
    BY <1>2, <2>3
  <2>5. s % PageSize # 1
    <3>1. CASE r + 1 < PageSize
      <4>1. r + 1 \in 0..(PageSize - 1) /\ q \in Int /\ s = q * PageSize + (r + 1)
        BY <1>1, <1>5, <3>1, PageSizeFacts
      <4>2. s % PageSize = r + 1
        BY <4>1, PageAndOffset
      <4> QED
        BY <1>5, <1>7, <4>2, PageSizeFacts
    <3>2. CASE ~(r + 1 < PageSize)
      <4>1. r + 1 = PageSize
        BY <1>5, <3>2, PageSizeFacts
      <4>2. (q + 1) * PageSize = q * PageSize + PageSize /\ (q + 1) * PageSize \in Int
        BY <1>5, Cancel
      <4>3. 0 \in 0..(PageSize - 1) /\ q + 1 \in Int /\ s = (q + 1) * PageSize + 0
        BY <1>1, <1>5, <4>1, <4>2, PageSizeFacts
      <4>4. s % PageSize = 0
        BY <4>3, PageAndOffset
      <4> QED
        BY <4>4
    <3> QED
      BY <3>1, <3>2
  <2> QED
    BY <2>4, <2>5 DEF s, n1
<1> QED
  BY <1>6, <1>7

\* alloc_decode_kernel and the count of rows at 1 modulo the page size give a
\* batch of one token per row what the extend path gives it.
THEOREM DecodeIsExtend == Spec => []DecodeAgreesWithExtend
<1>1. ASSUME BatchInv PROVE DecodeAgreesWithExtend
  <2> SUFFICES ASSUME Called,
                      \A b \in Rows(call) : Extends(call)[b] = 1 /\ call.prefix_lens[b] > 0
               PROVE  /\ \A b \in Rows(call) : AllocDecode(call)[b] = out[b - 1]
                      /\ GetNumNewPagesDecode(call) = GetNumNewPages(call)
    BY DEF DecodeAgreesWithExtend
  <2>1. PICK n \in 1..MaxBatch : IsBatch(call, n)
    BY <1>1 DEF BatchInv
  <2>2. out = AllocExtendNaive(call)
    BY <1>1 DEF BatchInv
  <2>3. n \in Nat /\ n >= 1 /\ Rows(call) = 1..n
    BY <2>1, BatchFacts
  <2>4. \A b \in 1..n : Extends(call)[b] = 1
    BY <2>3
  <2>5. ASSUME NEW b \in 0..n
        PROVE  Cumsum(Extends(call), b) = b
    <3> DEFINE P == [r \in 1..b |-> {r}]
    <3>1. IsFiniteSet(1..b) /\ Cardinality(1..b) = b
      BY FS_Interval
    <3>2. \A r \in 1..b : IsFiniteSet(P[r]) /\ Cardinality(P[r]) = 1
      BY FS_Singleton
    <3>3. Disjoint(P, 1..b)
      BY <3>2 DEF Disjoint
    <3>4. Members(P, 1..b) = 1..b
      BY DEF Members
    <3>5. \A r \in 1..b : Extends(call)[r] = Cardinality(P[r])
      BY <2>3, <2>4, <3>2
    <3> HIDE DEF P
    <3>6. SumFunctionOnSet(Extends(call), 1..b) = Count(P, 1..b)
      BY <3>1, <3>3, <3>5, SumIsCount
    <3> QED
      BY <3>1, <3>4, <3>6 DEF Count, Cumsum
  <2>6. ASSUME NEW b \in 1..n
        PROVE  AllocDecode(call)[b] = out[b - 1]
    <3>1. Cumsum(Extends(call), b - 1) = b - 1 /\ Cumsum(Extends(call), b) = b
      BY <2>3, <2>5
    <3>2. /\ b - 1 \in 0..(Cumsum(Extends(call), n) - 1)
          /\ NaiveSlot(call, b - 1)
               = RowSlot(call, b, (b - 1) - Cumsum(Extends(call), b - 1))
      <4>1. /\ b - 1 \in Int /\ Cumsum(Extends(call), b - 1) =< b - 1
            /\ b - 1 < Cumsum(Extends(call), b)
        BY <2>3, <3>1
      <4> QED
        BY <2>1, <4>1, SlotOfRow
    <3>3. out[b - 1] = RowSlot(call, b, 0)
      <4>1. (b - 1) - Cumsum(Extends(call), b - 1) = 0
        BY <2>3, <3>1
      <4>2. SumFunction(Extends(call)) = Cumsum(Extends(call), n)
        BY <2>1, OffsetFacts
      <4>3. out[b - 1] = NaiveSlot(call, b - 1)
        BY <2>2, <3>2, <4>2 DEF AllocExtendNaive
      <4> QED
        BY <3>2, <4>1, <4>3
    <3>4. AllocDecode(call)[b] =
            IF PagesOfRow(call)[b] = 0 THEN call.last_loc[b] + 1
            ELSE FreePages[KernelPageStart(call, b) + 1] * PageSize
      BY <2>3 DEF AllocDecode
    <3>5. CASE call.seq_lens[b] % PageSize = 1
      <4>1. Num1(call, b) = 0 /\ Num2(call, b) = 0 /\ PagesOfRow(call)[b] = 1
        BY <2>1, <2>4, <3>5, DecodeRow
      <4>2. /\ Cumsum(PagesOfRow(call), b - 1) \in Nat
            /\ Cumsum(PagesOfRow(call), b) \in Nat
            /\ Cumsum(PagesOfRow(call), b) - PagesOfRow(call)[b]
                 = Cumsum(PagesOfRow(call), b - 1)
            /\ Cumsum(PagesOfRow(call), b) =< Len(FreePages)
            /\ Len(FreePages) \in Nat
        <5>1. b \in 0..n /\ b - 1 \in 0..n
          BY <2>3
        <5> QED
          BY <2>1, <5>1, OffsetFacts, EnoughPages
      <4>3. KernelPageStart(call, b) + 1 = Cumsum(PagesOfRow(call), b)
        BY <4>1, <4>2 DEF KernelPageStart
      <4>4. FreePages[Cumsum(PagesOfRow(call), b)] \in Nat
        <5>1. Cumsum(PagesOfRow(call), b) \in 1..Len(FreePages)
          BY <4>1, <4>2
        <5> QED
          BY <2>1, <5>1, EnoughPages
      <4>5. FreePages[Cumsum(PagesOfRow(call), b)] * PageSize \in Int
        BY <4>4, PageSizeFacts
      <4>6. RowSlot(call, b, 0)
              = FreePages[Cumsum(PagesOfRow(call), b)] * PageSize + (0 - 0 - 0)
        BY <4>1 DEF RowSlot
      <4> QED
        BY <3>3, <3>4, <4>1, <4>3, <4>5, <4>6
    <3>6. CASE call.seq_lens[b] % PageSize # 1
      <4>1. Num1(call, b) = 1 /\ PagesOfRow(call)[b] = 0
        BY <2>1, <2>4, <3>6, DecodeRow
      <4>2. call.last_loc[b] \in Int
        <5>1. call.last_loc[b] = LastLoc(b, call.prefix_lens[b])
          BY <2>1 DEF IsBatch
        <5>2. call.prefix_lens[b] \in Nat /\ call.prefix_lens[b] > 0
          BY <2>1, <2>3, BatchFacts
        <5>3. call.prefix_lens[b] - 1 \in Nat
          BY <5>2
        <5>4. ((call.prefix_lens[b] - 1) % PageSize) \in 0..(PageSize - 1)
          BY <5>3, DivFacts
        <5>5. (100 + b) * PageSize \in Int
          BY <2>3, Cancel
        <5> QED
          BY <5>1, <5>2, <5>4, <5>5, PageSizeFacts DEF LastLoc
      <4>3. RowSlot(call, b, 0) = call.last_loc[b] + 1 + 0
        BY <4>1 DEF RowSlot
      <4> QED
        BY <3>3, <3>4, <4>1, <4>2, <4>3
    <3> QED
      BY <3>5, <3>6
  <2>7. GetNumNewPagesDecode(call) = GetNumNewPages(call)
    <3> DEFINE Opens == {b \in 1..n : call.seq_lens[b] % PageSize = 1}
               P == [b \in 1..n |-> IF b \in Opens THEN {b} ELSE {}]
    <3>1. IsFiniteSet(1..n)
      BY <2>3, FS_Interval
    <3>2. ASSUME NEW b \in 1..n
          PROVE  IsFiniteSet(P[b]) /\ PagesOfRow(call)[b] = Cardinality(P[b])
      <4>1. CASE b \in Opens
        <5>1. PagesOfRow(call)[b] = 1
          BY <2>1, <2>4, <4>1, DecodeRow
        <5> QED
          BY <4>1, <5>1, FS_Singleton
      <4>2. CASE b \notin Opens
        <5>1. PagesOfRow(call)[b] = 0
          BY <2>1, <2>4, <4>2, DecodeRow
        <5> QED
          BY <4>2, <5>1, FS_EmptySet
      <4> QED
        BY <4>1, <4>2
    <3>3. Disjoint(P, 1..n)
      <4>1. \A b, c \in 1..n : b # c => P[b] \cap P[c] = {}
        OBVIOUS
      <4> HIDE DEF P
      <4> QED
        BY <3>2, <4>1 DEF Disjoint
    <3>4. Members(P, 1..n) = Opens
      BY DEF Members
    <3>5. GetNumNewPagesDecode(call) = Cardinality(Opens)
      BY <2>3 DEF GetNumNewPagesDecode
    <3> HIDE DEF P, Opens
    <3>6. SumFunctionOnSet(PagesOfRow(call), 1..n) = Count(P, 1..n)
      BY <3>1, <3>2, <3>3, SumIsCount
    <3>7. GetNumNewPages(call) = SumFunctionOnSet(PagesOfRow(call), 1..n)
      BY <2>1, OffsetFacts DEF Cumsum
    <3> QED
      BY <3>4, <3>5, <3>6, <3>7 DEF Count
  <2> QED
    BY <2>3, <2>6, <2>7
<1> QED
  BY <1>1, BatchAlways, PTL

-----------------------------------------------------------------------------
(* Where the tokens of a row go *)

\* The page of a row that holds its tokens k * page_size and up: the old page
\* as long as that is not full, then the pages the row takes from the list.
RowPage(batch, b, k) ==
  IF k < CeilDiv(batch.prefix_lens[b]) THEN 100 + b
  ELSE FreePages[Cumsum(PagesOfRow(batch), b - 1)
                   + (k - CeilDiv(batch.prefix_lens[b])) + 1]

LEMMA Locate ==
  ASSUME NEW x \in Int, NEW q \in Int,
         q * PageSize =< x, x < q * PageSize + PageSize
  PROVE  x \div PageSize = q /\ x % PageSize = x - q * PageSize
<1>1. q * PageSize \in Int
  BY Cancel
<1>2. x - q * PageSize \in 0..(PageSize - 1) /\ q * PageSize + (x - q * PageSize) = x
  BY <1>1, PageSizeFacts
<1> QED
  BY <1>2, PageAndOffset

\* Which page of the row a position is on.
LEMMA PageOfPosition ==
  ASSUME NEW batch, NEW n, IsBatch(batch, n), NEW b \in 1..n,
         NEW pos \in Int, batch.prefix_lens[b] =< pos, pos < batch.seq_lens[b]
  PROVE  LET c == CeilDiv(batch.prefix_lens[b])
             k == pos \div PageSize
         IN  /\ c \in Nat /\ k \in Nat
             /\ pos < CeilAlign(batch.prefix_lens[b]) <=> k < c
             /\ c =< k + 1
             /\ k < c + PagesOfRow(batch)[b]
<1> DEFINE p == batch.prefix_lens[b]
           s == batch.seq_lens[b]
           c == CeilDiv(p)
           cs == CeilDiv(s)
           k == pos \div PageSize
<1>1. p \in Nat /\ s \in Nat /\ p =< s /\ Rows(batch) = 1..n
  BY BatchFacts
<1>2. pos \in Nat /\ p =< pos /\ pos < s
  BY <1>1
<1>3. /\ c \in Nat /\ CeilAlign(p) = c * PageSize /\ c * PageSize < p + PageSize
      /\ c * PageSize \in Int
      /\ cs \in Nat /\ s =< cs * PageSize /\ cs * PageSize \in Int
  <2>1. /\ c \in Nat /\ CeilAlign(p) = c * PageSize /\ CeilAlign(p) < p + PageSize
        /\ CeilAlign(p) \in Nat
        /\ cs \in Nat /\ CeilAlign(s) = cs * PageSize /\ s =< CeilAlign(s)
        /\ CeilAlign(s) \in Nat
    BY <1>1, AlignFacts
  <2> QED
    BY <2>1
<1>4. /\ k \in Nat /\ k * PageSize =< pos /\ pos < (k + 1) * PageSize
      /\ k * PageSize \in Int /\ (k + 1) * PageSize \in Int
      /\ (k + 1) * PageSize = k * PageSize + PageSize
  <2>1. /\ k \in Nat /\ (pos % PageSize) \in 0..(PageSize - 1)
        /\ pos = k * PageSize + (pos % PageSize)
    BY <1>2, DivFacts
  <2> HIDE DEF k
  <2>2. (k + 1) * PageSize = k * PageSize + PageSize /\ k * PageSize \in Int
    BY <2>1, Cancel
  <2> QED
    BY <1>2, <2>1, <2>2, PageSizeFacts
<1>5. PagesOfRow(batch)[b] = cs - c
  <2>1. (CeilAlign(s) - CeilAlign(p)) \div PageSize = cs - c
    BY <1>1, RowArithmetic
  <2> QED
    BY <1>1, <2>1 DEF PagesOfRow
<1> HIDE DEF p, s, c, cs, k
<1>6. ASSUME pos < c * PageSize PROVE k < c
  <2>1. k * PageSize < c * PageSize
    BY <1>2, <1>3, <1>4, <1>6
  <2> QED
    BY <1>3, <1>4, <2>1, Cancel
<1>7. ASSUME ~(pos < c * PageSize) PROVE ~(k < c)
  <2>1. c * PageSize < (k + 1) * PageSize
    BY <1>2, <1>3, <1>4, <1>7
  <2>2. c < k + 1
    BY <1>3, <1>4, <2>1, Cancel
  <2> QED
    BY <1>3, <1>4, <2>2
<1>8. c =< k + 1
  <2>1. c * PageSize < (k + 1 + 1) * PageSize
    <3>1. (k + 1 + 1) * PageSize = (k + 1) * PageSize + PageSize
      BY <1>4, Cancel
    <3> QED
      BY <1>1, <1>2, <1>3, <1>4, <3>1, PageSizeFacts
  <2>2. c < k + 1 + 1
    BY <1>3, <1>4, <2>1, Cancel
  <2> QED
    BY <1>3, <1>4, <2>2
<1>9. k < cs
  <2>1. k * PageSize < cs * PageSize
    BY <1>1, <1>2, <1>3, <1>4
  <2> QED
    BY <1>3, <1>4, <2>1, Cancel
<1>10. k < c + PagesOfRow(batch)[b]
  BY <1>3, <1>4, <1>5, <1>9
<1>11. pos < CeilAlign(p) <=> k < c
  BY <1>3, <1>6, <1>7
<1> QED
  BY <1>3, <1>4, <1>8, <1>10, <1>11 DEF p, c, k

\* A token goes to its offset on the page of its row that its position names.
LEMMA TokenPlace ==
  ASSUME NEW batch, NEW n, IsBatch(batch, n), NEW b \in 1..n,
         NEW l \in 0..(Extends(batch)[b] - 1)
  PROVE  RowSlot(batch, b, l)
           = RowPage(batch, b, (batch.prefix_lens[b] + l) \div PageSize) * PageSize
               + ((batch.prefix_lens[b] + l) % PageSize)
<1> DEFINE p == batch.prefix_lens[b]
           s == batch.seq_lens[b]
           pos == p + l
           c == CeilDiv(p)
           k == pos \div PageSize
           fs == s \div PageSize
           n1 == Num1(batch, b)
           n2 == Num2(batch, b)
           n3 == Num3(batch, b)
           L == PagesOfRow(batch)[b]
           from == Cumsum(PagesOfRow(batch), b - 1)
           to == Cumsum(PagesOfRow(batch), b)
           Done == DoneAfter1(batch, b)
           last == batch.last_loc[b]
<1>1. p \in Nat /\ s \in Nat /\ p =< s
  BY BatchFacts
<1>2. /\ Extends(batch)[b] = s - p
      /\ n1 \in Nat /\ n2 \in Nat /\ n3 \in Nat /\ n1 + n2 + n3 = s - p
      /\ Done => n2 = 0 /\ n3 = 0 /\ s =< CeilAlign(p)
      /\ ~Done => /\ s > CeilAlign(p)
                  /\ n1 = CeilAlign(p) - p
                  /\ n2 = FloorAlign(s) - CeilAlign(p)
                  /\ n3 = s - FloorAlign(s)
                  /\ L = n2 \div PageSize + IF n3 > 0 THEN 1 ELSE 0
  BY RowShape
<1>3. l \in Nat /\ pos \in Nat /\ p =< pos /\ pos < s
  BY <1>1, <1>2
<1>4. /\ c \in Nat /\ CeilAlign(p) = c * PageSize /\ c * PageSize \in Int
      /\ p =< c * PageSize /\ c * PageSize < p + PageSize
      /\ FloorAlign(s) = fs * PageSize /\ fs * PageSize \in Int /\ fs \in Nat
      /\ fs * PageSize =< s /\ s < fs * PageSize + PageSize
  <2>1. /\ c \in Nat /\ CeilAlign(p) = c * PageSize /\ CeilAlign(p) < p + PageSize
        /\ CeilAlign(p) \in Nat /\ p =< CeilAlign(p)
        /\ FloorAlign(s) = fs * PageSize /\ FloorAlign(s) \in Nat
        /\ FloorAlign(s) =< s /\ s < FloorAlign(s) + PageSize
    BY <1>1, AlignFacts
  <2>2. fs \in Nat
    BY <1>1, DivFacts
  <2> QED
    BY <2>1, <2>2
<1>5. k < c <=> pos < c * PageSize
  <2>1. pos < CeilAlign(p) <=> k < c
    <3>1. pos \in Int
      BY <1>3
    <3> QED
      BY <1>3, <3>1, PageOfPosition
  <2> QED
    BY <1>4, <2>1
<1>6. /\ k \in Nat /\ (pos % PageSize) \in 0..(PageSize - 1)
      /\ pos = k * PageSize + (pos % PageSize) /\ k * PageSize \in Int
  <2>1. /\ k \in Nat /\ (pos % PageSize) \in 0..(PageSize - 1)
        /\ pos = k * PageSize + (pos % PageSize)
    BY <1>3, DivFacts
  <2> HIDE DEF k
  <2> QED
    BY <2>1, Cancel
<1>7. from \in Nat /\ to \in Nat /\ to - L = from /\ L \in Nat
  <2>1. b \in 0..n /\ b - 1 \in 0..n
    BY BatchFacts
  <2> QED
    BY <2>1, OffsetFacts, RowShape
<1>8. last = IF p = 0 THEN -1 ELSE (100 + b) * PageSize + ((p - 1) % PageSize)
  BY DEF IsBatch, LastLoc
<1>9. RowSlot(batch, b, l) =
        IF l < n1 THEN last + 1 + l
        ELSE IF l < n1 + n2
        THEN FreePages[from + (l - n1) \div PageSize + 1] * PageSize
               + ((l - n1) % PageSize)
        ELSE FreePages[to] * PageSize + (l - n1 - n2)
  BY Zenon DEF RowSlot
<1>10. RowPage(batch, b, k) = IF k < c THEN 100 + b ELSE FreePages[from + (k - c) + 1]
  BY Zenon DEF RowPage
<1>11. b \in Int
  OBVIOUS
<1>12. ~Done => n2 \div PageSize = fs - c
  <2>1. s > CeilAlign(p) => (FloorAlign(s) - CeilAlign(p)) \div PageSize = fs - c
    BY <1>1, RowArithmetic
  <2> QED
    BY <1>2, <2>1
<1> HIDE DEF p, s, pos, c, k, fs, n1, n2, n3, L, from, to, Done, last
<1>13. pos = p + l
  BY DEF pos
<1>14. CASE l < n1
  <2>1. pos < c * PageSize
    <3>1. CASE Done
      BY <1>1, <1>2, <1>3, <1>4, <3>1
    <3>2. CASE ~Done
      BY <1>1, <1>2, <1>3, <1>4, <1>13, <1>14, <3>2
    <3> QED
      BY <3>1, <3>2
  <2>2. /\ (c - 1) * PageSize = c * PageSize - PageSize
        /\ (c - 1) * PageSize \in Int /\ c - 1 \in Int
    <3>1. c \in Int /\ 1 \in Int /\ c - 1 \in Int
      BY <1>4
    <3>2. (c - 1) * PageSize = c * PageSize - 1 * PageSize /\ (c - 1) * PageSize \in Int
      BY <3>1, Cancel
    <3> QED
      BY <3>1, <3>2, PageSizeFacts
  <2>3. pos % PageSize = pos - (c - 1) * PageSize
    <3>1. /\ pos \in Int /\ (c - 1) * PageSize =< pos
          /\ pos < (c - 1) * PageSize + PageSize
      BY <1>1, <1>3, <1>4, <2>1, <2>2, PageSizeFacts
    <3> QED
      BY <2>2, <3>1, Locate
  <2>4. (p - 1) % PageSize = p - 1 - (c - 1) * PageSize
    <3>1. /\ p - 1 \in Int /\ (c - 1) * PageSize =< p - 1
          /\ p - 1 < (c - 1) * PageSize + PageSize
      BY <1>1, <1>3, <1>4, <2>1, <2>2, PageSizeFacts
    <3> QED
      BY <2>2, <3>1, Locate
  <2>5. p # 0
    <3>1. ASSUME p = 0 PROVE FALSE
      <4>1. c * PageSize < 1 * PageSize
        BY <1>4, <3>1, PageSizeFacts
      <4>2. c < 1
        BY <1>4, <4>1, Cancel
      <4>3. c * PageSize = 0
        BY <1>4, <4>2, PageSizeFacts
      <4> QED
        BY <1>3, <2>1, <4>3
    <3> QED
      BY <3>1
  <2>6. last = (100 + b) * PageSize + (p - 1 - (c - 1) * PageSize)
    BY <1>8, <2>4, <2>5
  <2>7. (100 + b) * PageSize \in Int
    BY <1>11, Cancel
  <2>8. last + 1 + l = (100 + b) * PageSize + (pos - (c - 1) * PageSize)
    BY <1>1, <1>3, <1>13, <2>2, <2>6, <2>7
  <2>9. RowPage(batch, b, k) = 100 + b
    BY <1>5, <1>10, <2>1
  <2>10. RowSlot(batch, b, l) = RowPage(batch, b, k) * PageSize + (pos % PageSize)
    BY <1>9, <1>14, <2>3, <2>8, <2>9
  <2> QED
    BY <2>10 DEF k, pos, p
<1>15. CASE ~(l < n1)
  <2>1. ~Done
    BY <1>1, <1>2, <1>3, <1>13, <1>15
  <2>2. /\ n1 = c * PageSize - p /\ n2 = fs * PageSize - c * PageSize
        /\ n3 = s - fs * PageSize
    BY <1>2, <1>4, <2>1
  <2>3. c * PageSize =< pos /\ l - n1 = pos - c * PageSize
    BY <1>1, <1>3, <1>4, <1>13, <1>15, <2>2
  <2>4. RowPage(batch, b, k) = FreePages[from + (k - c) + 1]
    BY <1>3, <1>4, <1>5, <1>10, <2>3
  <2>5. CASE l < n1 + n2
    <3>1. (k - c) * PageSize = k * PageSize - c * PageSize /\ k - c \in Int
      BY <1>4, <1>6, Cancel
    <3>2. /\ l - n1 \in Int
          /\ (k - c) * PageSize =< l - n1 /\ l - n1 < (k - c) * PageSize + PageSize
          /\ l - n1 - (k - c) * PageSize = pos % PageSize
      BY <1>3, <1>4, <1>6, <2>3, <3>1, PageSizeFacts
    <3>3. (l - n1) \div PageSize = k - c /\ (l - n1) % PageSize = pos % PageSize
      BY <3>1, <3>2, Locate
    <3>4. RowSlot(batch, b, l)
            = FreePages[from + (k - c) + 1] * PageSize + (pos % PageSize)
      BY <1>9, <1>15, <2>5, <3>3
    <3> QED
      BY <2>4, <3>4 DEF k, pos, p
  <2>6. CASE ~(l < n1 + n2)
    <3>1. fs * PageSize =< pos /\ pos < fs * PageSize + PageSize
      <4>1. n2 =< l - n1
        BY <1>2, <1>3, <2>6
      <4>2. fs * PageSize - c * PageSize =< pos - c * PageSize
        BY <2>2, <2>3, <4>1
      <4>3. fs * PageSize =< pos
        BY <1>3, <1>4, <4>2
      <4> QED
        BY <1>1, <1>3, <1>4, <4>3, PageSizeFacts
    <3>2. k = fs /\ pos % PageSize = pos - fs * PageSize
      <4>1. pos \in Int /\ fs \in Int
        BY <1>3, <1>4
      <4> QED
        BY <3>1, <4>1, Locate DEF k
    <3>3. l - n1 - n2 = pos % PageSize
      BY <1>3, <1>4, <2>2, <2>3, <3>2
    <3>4. n3 > 0
      BY <1>1, <1>3, <1>4, <2>2, <3>1
    <3>5. L = fs - c + 1
      BY <1>2, <1>12, <2>1, <3>4
    <3>6. to = from + (k - c) + 1
      BY <1>4, <1>7, <3>2, <3>5
    <3>7. RowSlot(batch, b, l)
            = FreePages[from + (k - c) + 1] * PageSize + (pos % PageSize)
      BY <1>9, <1>15, <2>6, <3>3, <3>6
    <3> QED
      BY <2>4, <3>7 DEF k, pos, p
  <2> QED
    BY <2>5, <2>6
<1> QED
  BY <1>14, <1>15

\* Page i of a row, counted from its first new page c, in the free list.
LEMMA IndexInList ==
  ASSUME NEW f \in Nat, NEW i \in Nat, NEW c \in Nat, NEW L \in Nat, NEW T \in Nat,
         NEW F \in Nat, T - L = f, T =< F, c =< i, i < c + L
  PROVE  /\ f + (i - c) + 1 \in 1..F
         /\ f < f + (i - c) + 1 /\ f + (i - c) + 1 =< T
OBVIOUS

\* What a slot is given, seen from its row.
LEMMA SlotPlace ==
  ASSUME NEW batch, NEW n, IsBatch(batch, n), NEW j \in DOMAIN AllocExtendNaive(batch)
  PROVE  LET o == Owner(batch, j)
             pos == Position(batch, j)
             page == RowPage(batch, o, pos \div PageSize)
         IN  /\ o \in 1..n /\ pos \in Int /\ page \in Nat
             /\ batch.prefix_lens[o] =< pos /\ pos < batch.seq_lens[o]
             /\ AllocExtendNaive(batch)[j] \div PageSize = page
             /\ AllocExtendNaive(batch)[j] % PageSize = pos % PageSize
<1> DEFINE o == Owner(batch, j)
           from == Cumsum(Extends(batch), o - 1)
           p == batch.prefix_lens[o]
           pos == Position(batch, j)
           k == pos \div PageSize
           page == RowPage(batch, o, k)
           first == Cumsum(PagesOfRow(batch), o - 1)
           L == PagesOfRow(batch)[o]
<1>1. /\ j \in Int /\ o \in 1..n /\ from =< j /\ j < Cumsum(Extends(batch), o)
      /\ AllocExtendNaive(batch)[j] = RowSlot(batch, o, j - from)
  BY SlotFacts
<1>2. /\ from \in Nat /\ Cumsum(Extends(batch), o) - Extends(batch)[o] = from
      /\ Cumsum(Extends(batch), o) \in Nat
      /\ first \in Nat /\ Cumsum(PagesOfRow(batch), o) - L = first
      /\ Cumsum(PagesOfRow(batch), o) \in Nat
      /\ Cumsum(PagesOfRow(batch), o) =< Len(FreePages) /\ Len(FreePages) \in Nat
  <2>1. o \in 0..n /\ o - 1 \in 0..n
    BY <1>1, BatchFacts
  <2> QED
    BY <1>1, <2>1, OffsetFacts, EnoughPages
<1>3. /\ p \in Nat /\ batch.seq_lens[o] \in Nat
      /\ Extends(batch)[o] = batch.seq_lens[o] - p /\ L \in Nat
  BY <1>1, BatchFacts, RowShape
<1>4. pos = p + j - from
  BY <1>2, Zenon DEF Position
<1>5. pos = p + (j - from) /\ pos \in Nat /\ p =< pos /\ pos < batch.seq_lens[o]
      /\ j - from \in 0..(Extends(batch)[o] - 1)
  <2> DEFINE e == Extends(batch)[o]
             s == batch.seq_lens[o]
             to == Cumsum(Extends(batch), o)
  <2>1. /\ j \in Int /\ from \in Nat /\ p \in Nat /\ s \in Nat /\ to \in Nat
        /\ from =< j /\ j < to /\ to - e = from /\ e = s - p /\ pos = p + j - from
    BY <1>1, <1>2, <1>3, <1>4
  <2> HIDE DEF o, from, p, pos, e, s, to
  <2>2. pos = p + (j - from) /\ pos \in Nat /\ p =< pos /\ pos < s /\ j - from \in 0..(e - 1)
    BY <2>1
  <2> QED
    BY <2>2 DEF e, s
<1>6. AllocExtendNaive(batch)[j] = page * PageSize + (pos % PageSize)
  <2>1. RowSlot(batch, o, j - from)
          = RowPage(batch, o, (p + (j - from)) \div PageSize) * PageSize
              + ((p + (j - from)) % PageSize)
    BY <1>1, <1>5, TokenPlace
  <2> HIDE DEF o, from, p, pos
  <2> QED
    BY <1>1, <1>5, <2>1
<1>7. /\ CeilDiv(p) \in Nat /\ k \in Nat /\ k < CeilDiv(p) + L
  BY <1>1, <1>5, PageOfPosition
<1>8. page \in Nat
  <2>1. page = IF k < CeilDiv(p) THEN 100 + o ELSE FreePages[first + (k - CeilDiv(p)) + 1]
    BY Zenon DEF RowPage
  <2>2. CASE k < CeilDiv(p)
    BY <1>1, <2>1, <2>2
  <2>3. CASE ~(k < CeilDiv(p))
    <3>1. first + (k - CeilDiv(p)) + 1 \in 1..Len(FreePages)
      <4> DEFINE c == CeilDiv(p)
                 T == Cumsum(PagesOfRow(batch), o)
                 F == Len(FreePages)
      <4>1. /\ first \in Nat /\ k \in Nat /\ c \in Nat /\ L \in Nat /\ T \in Nat
            /\ F \in Nat /\ T - L = first /\ T =< F /\ k < c + L /\ ~(k < c)
        BY <1>2, <1>3, <1>7, <2>3
      <4> HIDE DEF first, k, p, L, c, T, F
      <4>2. c =< k
        BY <4>1
      <4>3. first + (k - c) + 1 \in 1..F
        BY <4>1, <4>2, IndexInList
      <4> QED
        BY <4>3 DEF c, F
    <3> QED
      BY <2>1, <2>3, <3>1, EnoughPages
  <2> QED
    BY <2>2, <2>3
<1>9. (pos % PageSize) \in 0..(PageSize - 1)
  BY <1>5, DivFacts
<1> HIDE DEF page, pos
<1>10. /\ AllocExtendNaive(batch)[j] \div PageSize = page
       /\ AllocExtendNaive(batch)[j] % PageSize = pos % PageSize
  <2>1. page \in Int
    BY <1>8
  <2> QED
    BY <1>6, <1>9, <2>1, PageAndOffset
<1> QED
  BY <1>1, <1>5, <1>8, <1>10 DEF page, pos

\* Two rows, or two stretches of one row, are never on the same page.
LEMMA PagesApart ==
  ASSUME NEW batch, NEW n, IsBatch(batch, n), NEW a \in 1..n, NEW b \in 1..n,
         NEW x \in Int, batch.prefix_lens[a] =< x, x < batch.seq_lens[a],
         NEW y \in Int, batch.prefix_lens[b] =< y, y < batch.seq_lens[b],
         RowPage(batch, a, x \div PageSize) = RowPage(batch, b, y \div PageSize)
  PROVE  a = b /\ x \div PageSize = y \div PageSize
<1> DEFINE c(r) == CeilDiv(batch.prefix_lens[r])
           S(r) == Cumsum(PagesOfRow(batch), r)
           L(r) == PagesOfRow(batch)[r]
           k == x \div PageSize
           m == y \div PageSize
<1>1. /\ c(a) \in Nat /\ k \in Nat /\ c(a) =< k + 1 /\ k < c(a) + L(a)
      /\ c(b) \in Nat /\ m \in Nat /\ c(b) =< m + 1 /\ m < c(b) + L(b)
  BY PageOfPosition
<1>2. ASSUME NEW r \in 1..n
      PROVE  /\ S(r - 1) \in Nat /\ S(r) \in Nat /\ S(r) - L(r) = S(r - 1)
             /\ L(r) \in Nat /\ S(r) =< Len(FreePages) /\ Len(FreePages) \in Nat
  <2>1. r \in 0..n /\ r - 1 \in 0..n
    BY BatchFacts
  <2> QED
    BY <2>1, OffsetFacts, RowShape, EnoughPages
<1>3. \A r, q \in 0..n : r =< q => S(r) =< S(q)
  BY OffsetFacts
<1>4. /\ RowPage(batch, a, k) = IF k < c(a) THEN 100 + a
                               ELSE FreePages[S(a - 1) + (k - c(a)) + 1]
      /\ RowPage(batch, b, m) = IF m < c(b) THEN 100 + b
                               ELSE FreePages[S(b - 1) + (m - c(b)) + 1]
  BY Zenon DEF RowPage
<1>5. RowPage(batch, a, k) = RowPage(batch, b, m)
  OBVIOUS
<1>6. a \in Int /\ b \in Int /\ n \in Nat
  BY BatchFacts
<1> HIDE DEF c, S, L, k, m
<1>7. ASSUME NEW r \in 1..n, NEW i \in Nat, c(r) =< i, i < c(r) + L(r), c(r) \in Nat
      PROVE  /\ S(r - 1) + (i - c(r)) + 1 \in 1..Len(FreePages)
             /\ S(r - 1) < S(r - 1) + (i - c(r)) + 1
             /\ S(r - 1) + (i - c(r)) + 1 =< S(r)
  <2>1. /\ S(r - 1) \in Nat /\ S(r) \in Nat /\ S(r) - L(r) = S(r - 1)
        /\ L(r) \in Nat /\ S(r) =< Len(FreePages) /\ Len(FreePages) \in Nat
    BY <1>2
  <2>2. c(r) \in Nat /\ c(r) =< i /\ i < c(r) + L(r)
    BY <1>7
  <2> QED
    BY <2>1, <2>2, IndexInList
<1>8. \A r \in 1..n : \A i \in 1..Len(FreePages) : FreePages[i] # 100 + r
  <2>1. \A r \in 1..MaxBatch : 100 + r \notin Range(FreePages)
    BY AllocExtendAssumption
  <2>2. \A r \in 1..n : r \in 1..MaxBatch
    <3>1. n \in 1..MaxBatch /\ MaxBatch \in Nat
      BY AllocExtendAssumption DEF IsBatch
    <3> QED
      BY <3>1
  <2>3. DOMAIN FreePages = 1..Len(FreePages)
    BY AllocExtendAssumption
  <2> QED
    BY <2>1, <2>2, <2>3 DEF Range
<1>9. CASE k < c(a) /\ m < c(b)
  <2>1. 100 + a = 100 + b
    BY <1>4, <1>5, <1>9
  <2>2. a = b
    BY <1>6, <2>1
  <2> QED
    BY <1>1, <1>9, <2>2 DEF k, m
<1>10. CASE k < c(a) /\ ~(m < c(b))
  <2>1. S(b - 1) + (m - c(b)) + 1 \in 1..Len(FreePages)
    BY <1>1, <1>7, <1>10
  <2> QED
    BY <1>4, <1>5, <1>8, <1>10, <2>1
<1>11. CASE ~(k < c(a)) /\ m < c(b)
  <2>1. S(a - 1) + (k - c(a)) + 1 \in 1..Len(FreePages)
    BY <1>1, <1>7, <1>11
  <2> QED
    BY <1>4, <1>5, <1>8, <1>11, <2>1
<1>12. CASE ~(k < c(a)) /\ ~(m < c(b))
  <2> DEFINE i == S(a - 1) + (k - c(a)) + 1
             h == S(b - 1) + (m - c(b)) + 1
  <2>1. /\ i \in 1..Len(FreePages) /\ S(a - 1) < i /\ i =< S(a)
    BY <1>1, <1>7, <1>12
  <2>2. /\ h \in 1..Len(FreePages) /\ S(b - 1) < h /\ h =< S(b)
    BY <1>1, <1>7, <1>12
  <2>3. FreePages[i] = FreePages[h]
    BY <1>4, <1>5, <1>12
  <2>4. i = h
    <3>1. DOMAIN FreePages = 1..Len(FreePages) /\ IsInjective(FreePages)
      BY AllocExtendAssumption
    <3> HIDE DEF i, h
    <3> QED
      BY <2>1, <2>2, <2>3, <3>1 DEF IsInjective
  <2>5. S(a) \in Nat /\ S(b) \in Nat /\ S(a - 1) \in Nat /\ S(b - 1) \in Nat
    BY <1>2
  <2>6. a = b
    <3> HIDE DEF i, h
    <3>1. ASSUME a < b PROVE FALSE
      <4>1. S(a) =< S(b - 1)
        BY <1>3, <1>6, <3>1
      <4> QED
        BY <1>2, <2>1, <2>2, <2>4, <2>5, <4>1
    <3>2. ASSUME b < a PROVE FALSE
      <4>1. S(b) =< S(a - 1)
        BY <1>3, <1>6, <3>2
      <4> QED
        BY <1>2, <2>1, <2>2, <2>4, <2>5, <4>1
    <3> QED
      BY <1>6, <3>1, <3>2
  <2>7. k = m
    BY <1>1, <2>4, <2>5, <2>6
  <2> QED
    BY <2>6, <2>7 DEF k, m
<1> QED
  BY <1>9, <1>10, <1>11, <1>12

\* Every token of a batch lies at its own offset of a page, a row stays on its
\* old page until that is full, no page serves two rows or two stretches of
\* one, and the pages taken are exactly those the caller drops from the list.
THEOREM ExtendSound == Spec => []ExtendIsSound
<1>1. ASSUME BatchInv PROVE ExtendIsSound
  <2> SUFFICES ASSUME Called PROVE ExtendIsSound
    BY DEF ExtendIsSound
  <2>1. PICK n \in 1..MaxBatch : IsBatch(call, n)
    BY <1>1 DEF BatchInv
  <2>2. out = AllocExtendNaive(call)
    BY <1>1 DEF BatchInv
  <2>3. ASSUME NEW j \in DOMAIN out
        PROVE  /\ Owner(call, j) \in 1..n /\ Position(call, j) \in Int
               /\ call.prefix_lens[Owner(call, j)] =< Position(call, j)
               /\ Position(call, j) < call.seq_lens[Owner(call, j)]
               /\ out[j] \div PageSize
                    = RowPage(call, Owner(call, j), Position(call, j) \div PageSize)
               /\ out[j] % PageSize = Position(call, j) % PageSize
    BY <2>1, <2>2, SlotPlace
  <2>4. ASSUME NEW i \in DOMAIN out, NEW j \in DOMAIN out
        PROVE  out[i] \div PageSize = out[j] \div PageSize <=>
                 /\ Owner(call, i) = Owner(call, j)
                 /\ Position(call, i) \div PageSize = Position(call, j) \div PageSize
    <3>1. ASSUME out[i] \div PageSize = out[j] \div PageSize
          PROVE  /\ Owner(call, i) = Owner(call, j)
                 /\ Position(call, i) \div PageSize = Position(call, j) \div PageSize
      <4>1. RowPage(call, Owner(call, i), Position(call, i) \div PageSize)
              = RowPage(call, Owner(call, j), Position(call, j) \div PageSize)
        BY <2>3, <3>1
      <4> QED
        BY <2>1, <2>3, <4>1, PagesApart
    <3> QED
      BY <2>3, <3>1
  <2>5. ASSUME NEW j \in DOMAIN out,
               Position(call, j) < CeilAlign(call.prefix_lens[Owner(call, j)])
        PROVE  out[j] \div PageSize = call.last_loc[Owner(call, j)] \div PageSize
    <3> DEFINE o == Owner(call, j)
               p == call.prefix_lens[o]
    <3>1. o \in 1..n /\ p \in Nat /\ o \in Int
      BY <2>1, <2>3, BatchFacts
    <3>2. Position(call, j) \div PageSize < CeilDiv(p)
      BY <2>1, <2>3, <2>5, PageOfPosition
    <3>3. out[j] \div PageSize = 100 + o
      BY <2>3, <3>2 DEF RowPage
    <3>4. p # 0
      <4>1. ASSUME p = 0 PROVE FALSE
        <5>1. /\ CeilAlign(p) = CeilDiv(p) * PageSize /\ CeilDiv(p) \in Nat
              /\ CeilAlign(p) < p + PageSize /\ CeilAlign(p) \in Nat
          BY <3>1, AlignFacts
        <5>2. CeilDiv(p) * PageSize < 1 * PageSize
          BY <4>1, <5>1, PageSizeFacts
        <5>3. CeilDiv(p) < 1
          BY <5>1, <5>2, Cancel
        <5>4. CeilAlign(p) = 0
          BY <5>1, <5>3, PageSizeFacts
        <5>5. p =< Position(call, j) /\ Position(call, j) \in Int
          BY <2>3
        <5> QED
          BY <2>5, <4>1, <5>4, <5>5
      <4> QED
        BY <4>1
    <3>5. call.last_loc[o] = (100 + o) * PageSize + ((p - 1) % PageSize)
      BY <2>1, <3>1, <3>4 DEF IsBatch, LastLoc
    <3>6. ((p - 1) % PageSize) \in 0..(PageSize - 1)
      <4>1. p - 1 \in Nat
        BY <3>1, <3>4
      <4> QED
        BY <4>1, DivFacts
    <3>7. 100 + o \in Int
      BY <3>1
    <3>8. call.last_loc[o] \div PageSize = 100 + o
      BY <3>5, <3>6, <3>7, PageAndOffset
    <3> QED
      BY <3>3, <3>8
  <2> DEFINE New == {k \in DOMAIN out :
                       Position(call, k) >= CeilAlign(call.prefix_lens[Owner(call, k)])}
             S(b) == Cumsum(PagesOfRow(call), b)
             c(b) == CeilDiv(call.prefix_lens[b])
  <2>6. n \in Nat /\ n >= 1 /\ n \in 0..n
    BY <2>1, BatchFacts
  <2>7. ASSUME NEW b \in 1..n
        PROVE  /\ S(b - 1) \in Nat /\ S(b) \in Nat /\ S(n) \in Nat
               /\ S(b) - PagesOfRow(call)[b] = S(b - 1)
               /\ S(b) =< S(n) /\ PagesOfRow(call)[b] \in Nat
    <3>1. b \in 0..n /\ b - 1 \in 0..n /\ b =< n
      BY <2>6
    <3> QED
      BY <2>1, <2>6, <3>1, OffsetFacts, RowShape
  <2>8. GetNumNewPages(call) = S(n)
    BY <2>1, OffsetFacts
  <2>9. ASSUME NEW j \in New
        PROVE  out[j] \div PageSize \in FreedHead(call)
    <3> DEFINE o == Owner(call, j)
               k == Position(call, j) \div PageSize
    <3>1. o \in 1..n /\ Position(call, j) \in Int /\ j \in DOMAIN out
      BY <2>3
    <3>2. /\ c(o) \in Nat /\ k \in Nat /\ k < c(o) + PagesOfRow(call)[o]
          /\ Position(call, j) < CeilAlign(call.prefix_lens[o]) <=> k < c(o)
      BY <2>1, <2>3, PageOfPosition
    <3>3. ~(k < c(o))
      <4>1. Position(call, j) >= CeilAlign(call.prefix_lens[o])
        OBVIOUS
      <4>2. CeilAlign(call.prefix_lens[o]) \in Nat
        BY <2>1, <3>1, BatchFacts, AlignFacts
      <4> HIDE DEF o, k, c, New
      <4> QED
        BY <3>1, <3>2, <4>1, <4>2
    <3>4. out[j] \div PageSize = FreePages[S(o - 1) + (k - c(o)) + 1]
      BY <2>3, <3>1, <3>3 DEF RowPage
    <3>5. S(o - 1) + (k - c(o)) + 1 \in 1..S(n)
      <4>1. /\ S(o - 1) \in Nat /\ S(o) \in Nat /\ S(n) \in Nat
            /\ S(o) - PagesOfRow(call)[o] = S(o - 1)
            /\ S(o) =< S(n) /\ PagesOfRow(call)[o] \in Nat
        BY <2>7, <3>1
      <4> HIDE DEF o, k, c, S
      <4> QED
        BY <3>2, <3>3, <4>1
    <3> QED
      BY <2>8, <3>4, <3>5 DEF FreedHead
  <2>10. ASSUME NEW i \in 1..S(n)
         PROVE  \E j \in New : out[j] \div PageSize = FreePages[i]
    <3>1. S(n) \in Nat /\ i \in Int
      BY <2>1, <2>6, OffsetFacts
    <3>2. PICK b \in 1..n : S(b - 1) =< i - 1 /\ i - 1 < S(b)
      <4>1. i - 1 \in Nat /\ i - 1 < SumFunctionOnSet(PagesOfRow(call), 1..n)
        BY <3>1 DEF Cumsum
      <4>2. \A b \in 1..n : PagesOfRow(call)[b] \in Nat
        BY <2>7
      <4> DEFINE o == Min({b \in 1..n : SumFunctionOnSet(PagesOfRow(call), 1..b) > i - 1})
      <4>3. /\ o \in 1..n /\ SumFunctionOnSet(PagesOfRow(call), 1..(o - 1)) =< i - 1
            /\ i - 1 < SumFunctionOnSet(PagesOfRow(call), 1..o)
        BY <2>6, <4>1, <4>2, PrefixSumOwner
      <4> HIDE DEF o
      <4> QED
        BY <4>3 DEF Cumsum
    <3> DEFINE p == call.prefix_lens[b]
               s == call.seq_lens[b]
               k == c(b) + (i - 1 - S(b - 1))
               pos == k * PageSize
               from == Cumsum(Extends(call), b - 1)
               j == from + (pos - p)
    <3>3. p \in Nat /\ s \in Nat /\ p =< s /\ Rows(call) = 1..n
      BY <2>1, BatchFacts
    <3>4. PagesOfRow(call)[b] = CeilDiv(s) - CeilDiv(p)
      <4>1. (CeilAlign(s) - CeilAlign(p)) \div PageSize = CeilDiv(s) - CeilDiv(p)
        BY <3>3, RowArithmetic
      <4> QED
        BY <3>3, <4>1 DEF PagesOfRow
    <3>5. /\ CeilDiv(p) \in Nat /\ CeilAlign(p) = CeilDiv(p) * PageSize
          /\ CeilAlign(p) \in Nat /\ p =< CeilAlign(p)
          /\ CeilDiv(s) \in Nat /\ CeilAlign(s) = CeilDiv(s) * PageSize
          /\ CeilAlign(s) \in Nat /\ CeilAlign(s) < s + PageSize
      BY <3>3, AlignFacts
    <3>6. k \in Int /\ CeilDiv(p) =< k /\ k + 1 =< CeilDiv(s)
      <4>1. /\ S(b - 1) \in Nat /\ S(b) \in Nat
            /\ S(b) - PagesOfRow(call)[b] = S(b - 1) /\ PagesOfRow(call)[b] \in Nat
        BY <2>7
      <4>2. c(b) = CeilDiv(p)
        OBVIOUS
      <4> HIDE DEF p, s, S, c
      <4> QED
        BY <3>1, <3>2, <3>4, <3>5, <4>1, <4>2
    <3>7. pos \in Int /\ CeilAlign(p) =< pos /\ p =< pos /\ pos < s
      <4> HIDE DEF k, p, s
      <4>1. /\ pos \in Int /\ CeilDiv(p) * PageSize =< pos
            /\ (k + 1) * PageSize =< CeilDiv(s) * PageSize
            /\ (k + 1) * PageSize = pos + PageSize
        <5>1. k \in Int /\ k + 1 \in Int /\ CeilDiv(p) \in Int /\ CeilDiv(s) \in Int
          BY <3>5, <3>6
        <5> QED
          BY <3>6, <5>1, Cancel
      <4> HIDE DEF pos
      <4> QED
        BY <3>3, <3>5, <4>1, PageSizeFacts
    <3>8. /\ from \in Nat /\ Cumsum(Extends(call), b) - Extends(call)[b] = from
          /\ Cumsum(Extends(call), b) \in Nat /\ Extends(call)[b] = s - p
          /\ Extends(call)[b] \in Nat
      <4>1. b \in 0..n /\ b - 1 \in 0..n
        BY <2>6
      <4> QED
        BY <2>1, <4>1, OffsetFacts, RowShape
    <3>9. j \in Int /\ from =< j /\ j < Cumsum(Extends(call), b) /\ p + j - from = pos
      <4> HIDE DEF from, pos, p, s
      <4> QED
        BY <3>3, <3>7, <3>8
    <3>10. j \in 0..(Cumsum(Extends(call), n) - 1) /\ Owner(call, j) = b
      <4> HIDE DEF j, p, s
      <4> QED
        BY <2>1, <3>9, SlotOfRow
    <3>11. j \in DOMAIN out
      <4>1. SumFunction(Extends(call)) = Cumsum(Extends(call), n)
        BY <2>1, OffsetFacts
      <4> QED
        BY <2>2, <3>10, <4>1 DEF AllocExtendNaive
    <3>12. Position(call, j) = pos
      <4>1. Position(call, j) = p + j - from
        <5> HIDE DEF j
        <5> QED
          BY <3>8, <3>10, Zenon DEF Position
      <4> QED
        BY <3>9, <4>1
    <3>13. j \in New
      <4>1. pos >= CeilAlign(p)
        <5> HIDE DEF pos, p
        <5> QED
          BY <3>5, <3>7
      <4> HIDE DEF j, pos
      <4> QED
        BY <3>10, <3>11, <3>12, <4>1
    <3>14. pos \div PageSize = k
      <4>1. pos \in Int /\ k * PageSize =< pos /\ pos < k * PageSize + PageSize
        <5> HIDE DEF k
        <5> QED
          BY <3>6, <3>7, PageSizeFacts
      <4> HIDE DEF k, pos
      <4> QED
        BY <3>6, <4>1, Locate
    <3>15. out[j] \div PageSize = FreePages[i]
      <4>1. out[j] \div PageSize = RowPage(call, b, k)
        <5> HIDE DEF j, pos, k
        <5> QED
          BY <2>3, <3>10, <3>11, <3>12, <3>14
      <4>2. ~(k < CeilDiv(p)) /\ S(b - 1) + (k - CeilDiv(p)) + 1 = i
        <5>1. S(b - 1) \in Nat
          BY <2>7
        <5>2. k = CeilDiv(p) + (i - 1 - S(b - 1))
          OBVIOUS
        <5> HIDE DEF k, p, S
        <5> QED
          BY <3>1, <3>5, <3>6, <5>1, <5>2
      <4>3. RowPage(call, b, k) = FreePages[S(b - 1) + (k - CeilDiv(p)) + 1]
        <5> HIDE DEF k
        <5> QED
          BY <4>2 DEF RowPage
      <4> QED
        BY <4>1, <4>2, <4>3
    <3> HIDE DEF j, New
    <3> QED
      BY <3>13, <3>15
  <2>11. FreedHead(call) = {out[j] \div PageSize : j \in New}
    <3> HIDE DEF New, S
    <3> QED
      BY <2>8, <2>9, <2>10 DEF FreedHead
  <2>12. \A j \in DOMAIN out : out[j] % PageSize = Position(call, j) % PageSize
    BY <2>3
  <2> QED
    BY <2>4, <2>5, <2>11, <2>12 DEF ExtendIsSound
<1> QED
  BY <1>1, BatchAlways, PTL
=============================================================================
