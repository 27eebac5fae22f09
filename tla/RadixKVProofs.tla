---------------------------- MODULE RadixKVProofs ----------------------------
(***************************************************************************)
(* The safety properties of module RadixKV hold for every page size, pool, *)
(* chunk size, number of requests and set of prompts, with and without the *)
(* overlap scheduler.                                                      *)
(*                                                                         *)
(* The invariant is about a state s and a queue Q.  Good(s) says what      *)
(* every cache operation keeps: the tree is in order (TreeOK, module       *)
(* RadixTreeProofs), a row covers its tokens, and the pages are            *)
(* partitioned into free ones, the tree's and the rows' own, each with the *)
(* KV of the tokens it stands for.  On top of that Sound(s, Q) says what   *)
(* the scheduler keeps between its steps: a request that does not run      *)
(* holds nothing, the tokens a request has are those it knows and those    *)
(* its batches in flight will tell, a chunked prefill has its remaining    *)
(* pages set aside, and no fault was met.                                  *)
(*                                                                         *)
(* First the page partition is shown to survive an eviction, a hand-over   *)
(* to the tree and a growing row (PagesEvict, PagesSettle, PagesGrow);     *)
(* then each cache operation keeps Good (EvictOK, CacheOK,                 *)
(* ReleaseInsertOK, ExtendedOK, DecodedOK, ...); then the budget is        *)
(* accounted for (Accounting, BudgetCache, BudgetRelease, BudgetGrow,      *)
(* BudgetAlone); then each action keeps Sound (the lemmas whose names end  *)
(* in Step).                                                               *)
(***************************************************************************)
EXTENDS RadixKV, RadixTreeProofs

\* A request, and the state the cache operations work on.
ReqType ==
  [st : {"idle", "waiting", "chunked", "running"}, plen : Nat, max_new : Nat,
   toks : Path, known : Nat, row : Seq(Pages), kv_len : Nat,
   cache_protected_len : Nat, last_node : Path, fill : Nat]

StateType ==
  [tree : TreeType, free : SUBSET Pages, req : [Reqs -> ReqType],
   kv : [Pages -> Path], fault : SUBSET STRING]

\* Who holds which node.
Hold(rq) == [r \in Reqs |-> rq[r].last_node]

\* Tokens the row of a request has pages for.
Covered(q) ==
  IF q.kv_len < q.cache_protected_len THEN q.cache_protected_len ELSE q.kv_len

\* The positions of a row whose pages are the request's own.
OwnAt(q) == (q.cache_protected_len \div PageSize + 1)..Len(q.row)

\* The tokens page i of a row was computed from.
Content(q, i) == SubSeq(q.toks, 1, Min({i * PageSize, q.kv_len}))

\* A row has the pages of its tokens, the protected ones first.
RowShape(q) ==
  /\ q.cache_protected_len % PageSize = 0
  /\ Covered(q) =< Len(q.toks)
  /\ Len(q.row) * PageSize = CeilAlign(Covered(q))
  /\ q.last_node = SubSeq(q.toks, 1, q.cache_protected_len)

\* The pages of the tree are in use, and hold what their path says.
TreePagesOK(v, f, k) == \A p \in DOMAIN v : v[p] \in Pages \ f /\ k[v[p]] = p

\* The protected pages of a row are the tree's.
ReadsTree(v, q) ==
  \A i \in 1..(q.cache_protected_len \div PageSize) :
    PagePrefix(q.toks, i) \in DOMAIN v /\ q.row[i] = v[PagePrefix(q.toks, i)]

\* The others are its own.
OwnsRest(v, f, q, k) ==
  \A i \in OwnAt(q) :
    /\ q.row[i] \notin f
    /\ \A p \in DOMAIN v : q.row[i] # v[p]
    /\ k[q.row[i]] = Content(q, i)

\* No page is in two rows, or twice in one.
NoSharing(rq) ==
  \A r, s \in Reqs : \A i \in OwnAt(rq[r]), j \in OwnAt(rq[s]) :
    rq[r].row[i] = rq[s].row[j] => r = s /\ i = j

\* A page is free, in the tree or in a row.
Conserved(v, f, rq) ==
  \A p \in Pages \ f :
    \/ \E x \in DOMAIN v : v[x] = p
    \/ \E r \in Reqs : \E i \in OwnAt(rq[r]) : rq[r].row[i] = p

\* The partition of the pages.
PagesOK(v, f, rq, k) ==
  /\ TreePagesOK(v, f, k)
  /\ \A r \in Reqs : ReadsTree(v, rq[r]) /\ OwnsRest(v, f, rq[r], k)
  /\ NoSharing(rq)
  /\ Conserved(v, f, rq)

\* What every cache operation keeps.
Good(s) ==
  /\ s \in StateType
  /\ TreeOK(s.tree, Hold(s.req))
  /\ \A r \in Reqs : RowShape(s.req[r])
  /\ PagesOK(s.tree.value, s.free, s.req, s.kv)

\* A request without KV.
Empty(q) ==
  /\ q.row = <<>> /\ q.kv_len = 0 /\ q.cache_protected_len = 0
  /\ q.last_node = Root /\ q.fill = 0

\* A request the scheduler runs has prefilled what it protects; others hold nothing.
Settled(q) ==
  IF q.st \in {"chunked", "running"}
    THEN /\ q.cache_protected_len =< q.fill
         /\ q.fill =< q.kv_len /\ q.fill =< q.known
    ELSE Empty(q)

\* The tokens that are free or can be evicted: what no request holds.
Budget(rq) ==
  (NumPages - Cardinality(PagePaths({rq[r].last_node : r \in Reqs}))
     - SumFunctionOnSet([r \in Reqs |-> Cardinality(OwnAt(rq[r]))], Reqs)) * PageSize

\* One if batch i of the queue carries a token of r.
Carries(Q, i, r) ==
  IF i =< Len(Q) /\ r \in DOMAIN Q[i] /\ Q[i][r] # "chunk" THEN 1 ELSE 0

\* The tokens of r that are sampled and not yet processed.
Due(Q, r) == Carries(Q, 1, r) + Carries(Q, 2, r)

\* A waiting or chunked request knows its tokens; a running one lacks those that are
\* due, and has KV for all but the last.  It ends before the pool would be full.
TokensOK(q, Q, r) ==
  /\ q.st = "idle" => q = NoReq
  /\ q.st \in {"waiting", "chunked"} => Len(q.toks) = q.known
  /\ q.st = "chunked" => q.fill = q.kv_len /\ q.kv_len < Len(q.toks) /\ Due(Q, r) = 0
  /\ q.st = "running" => Len(q.toks) = q.known + Due(Q, r) /\ q.kv_len = Len(q.toks) - 1
  /\ q.st # "idle" => /\ q.plen > 0 /\ q.plen =< q.known /\ q.known < q.plen + q.max_new
                      /\ q.plen + q.max_new + PageSize < NumPages * PageSize

\* The pages a chunked request still needs are there.
Reserve(rq) ==
  \A r \in Reqs : rq[r].st = "chunked" =>
    /\ CeilAlign(Len(rq[r].toks)) - CeilAlign(rq[r].kv_len) =< Budget(rq)
    /\ \A s \in Reqs : rq[s].st = "chunked" => s = r

\* What a batch ran, for each of its requests.
Batches == UNION {[B -> {"extend", "chunk", "decode"}] : B \in SUBSET Reqs}

\* The inductive invariant, on a state and a queue of results.
Sound(s, Q) ==
  /\ Good(s) /\ s.fault = {}
  /\ \A r \in Reqs : Settled(s.req[r]) /\ TokensOK(s.req[r], Q, r)
  /\ Q \in Seq(Batches) /\ Len(Q) =< Depth
  /\ Reserve(s.req)

KVInv == Sound(State, queue)

-----------------------------------------------------------------------------
(* Arithmetic                                                              *)

\* The smaller of two numbers.
LEMMA MinPair ==
  ASSUME NEW a \in Int, NEW b \in Int
  PROVE  Min({a, b}) = IF a =< b THEN a ELSE b
<1> DEFINE m == IF a =< b THEN a ELSE b
<1>1. m \in {a, b} /\ \A y \in {a, b} : m =< y
  OBVIOUS
<1>2. ASSUME NEW x \in {a, b}, \A y \in {a, b} : x =< y
      PROVE  x = m
  <2>1. x =< m /\ m =< x /\ x \in Int /\ m \in Int
    BY <1>1, <1>2
  <2> HIDE DEF m
  <2> QED
    BY <2>1
<1>3. (CHOOSE x \in {a, b} : \A y \in {a, b} : x =< y) = m
  <2> HIDE DEF m
  <2> QED
    BY <1>1, <1>2
<1> QED
  BY <1>3 DEF Min

\* Two aligned lengths are a page apart.
LEMMA AlignedGap ==
  ASSUME NEW a \in Nat, NEW b \in Nat, a % PageSize = 0, b % PageSize = 0, a < b
  PROVE  a + PageSize =< b
<1> DEFINE i == a \div PageSize
           j == b \div PageSize
<1>1. i \in Nat /\ j \in Nat /\ a = i * PageSize /\ b = j * PageSize
  BY PageDivision
<1> HIDE DEF i, j
<1>2. i < j
  BY <1>1, PageMonotone
<1>3. i + 1 =< j /\ i + 1 \in Int
  BY <1>1, <1>2
<1>4. (i + 1) * PageSize =< j * PageSize
  BY <1>1, <1>3, PageMonotone
<1>5. (i + 1) * PageSize = i * PageSize + PageSize
  BY <1>1, PageMonotone
<1> QED
  BY <1>1, <1>4, <1>5

\* FloorAlign is the largest aligned length below.
LEMMA FloorFacts ==
  ASSUME NEW x \in Nat
  PROVE  /\ FloorAlign(x) \in Nat /\ FloorAlign(x) % PageSize = 0
         /\ FloorAlign(x) =< x /\ x < FloorAlign(x) + PageSize
         /\ FloorAlign(x) \div PageSize = x \div PageSize
         /\ \A y \in Nat : y % PageSize = 0 /\ y =< x => y =< FloorAlign(x)
<1> DEFINE k == x \div PageSize
<1>1. /\ k \in Nat /\ k * PageSize \in Nat /\ k * PageSize =< x
      /\ x < k * PageSize + PageSize
  BY PageDivision
<1>2. FloorAlign(x) = k * PageSize
  BY DEF FloorAlign
<1> HIDE DEF k
<1>3. (k * PageSize) % PageSize = 0 /\ (k * PageSize) \div PageSize = k
  BY <1>1, PageMultiple
<1>4. ASSUME NEW y \in Nat, y % PageSize = 0, y =< x
      PROVE  y =< k * PageSize
  <2>1. CASE k * PageSize < y
    <3>1. k * PageSize + PageSize =< y
      BY <1>1, <1>3, <1>4, <2>1, AlignedGap
    <3> QED
      BY <1>1, <1>4, <3>1, PageSizeFacts
  <2> QED
    BY <1>1, <2>1
<1> QED
  BY <1>1, <1>2, <1>3, <1>4 DEF k

\* CeilAlign is the smallest aligned length above.
LEMMA CeilFacts ==
  ASSUME NEW x \in Nat
  PROVE  /\ CeilAlign(x) \in Nat /\ CeilAlign(x) % PageSize = 0
         /\ x =< CeilAlign(x) /\ CeilAlign(x) < x + PageSize
         /\ CeilAlign(x) \div PageSize \in Nat
         /\ CeilAlign(x) = (CeilAlign(x) \div PageSize) * PageSize
         /\ \A y \in Nat : y % PageSize = 0 /\ x =< y => CeilAlign(x) =< y
<1> DEFINE z == x + PageSize - 1
           k == z \div PageSize
<1>1. z \in Nat
  BY PageSizeFacts
<1>2. CeilAlign(x) = k * PageSize
  BY DEF CeilAlign
<1>3. /\ k \in Nat /\ k * PageSize \in Nat /\ k * PageSize =< z
      /\ z < k * PageSize + PageSize
  <2> HIDE DEF z
  <2> QED
    BY <1>1, PageDivision
<1> HIDE DEF k
<1>4. (k * PageSize) % PageSize = 0 /\ (k * PageSize) \div PageSize = k
  BY <1>3, PageMultiple
<1>5. x =< k * PageSize /\ k * PageSize < x + PageSize
  BY <1>3, PageSizeFacts
<1>6. ASSUME NEW y \in Nat, y % PageSize = 0, x =< y
      PROVE  k * PageSize =< y
  <2>1. CASE y < k * PageSize
    <3>1. y + PageSize =< k * PageSize
      BY <1>3, <1>4, <1>6, <2>1, AlignedGap
    <3> QED
      BY <1>3, <1>5, <1>6, <3>1, PageSizeFacts
  <2> QED
    BY <1>3, <2>1
<1> QED
  BY <1>2, <1>3, <1>4, <1>5, <1>6

\* An aligned length is its own CeilAlign, and CeilAlign grows.
LEMMA CeilOrder ==
  ASSUME NEW x \in Nat, NEW y \in Nat
  PROVE  /\ x % PageSize = 0 => CeilAlign(x) = x
         /\ x =< y => CeilAlign(x) =< CeilAlign(y)
<1>1. /\ CeilAlign(x) \in Nat /\ x =< CeilAlign(x)
      /\ \A z \in Nat : z % PageSize = 0 /\ x =< z => CeilAlign(x) =< z
  BY CeilFacts
<1>2. CeilAlign(y) \in Nat /\ CeilAlign(y) % PageSize = 0 /\ y =< CeilAlign(y)
  BY CeilFacts
<1>3. x % PageSize = 0 => CeilAlign(x) = x
  BY <1>1
<1>4. x =< y => CeilAlign(x) =< CeilAlign(y)
  BY <1>1, <1>2
<1> QED
  BY <1>3, <1>4

\* Position i of a row lies beyond an aligned length when its end does.
LEMMA PagePosition ==
  ASSUME NEW i \in Int, NEW c \in Nat, c % PageSize = 0
  PROVE  /\ i >= c \div PageSize + 1 <=> c < i * PageSize
         /\ i =< c \div PageSize <=> i * PageSize =< c
         /\ c \div PageSize \in Nat /\ i * PageSize \in Int
<1> DEFINE k == c \div PageSize
<1>1. k \in Nat /\ c = k * PageSize
  BY PageDivision
<1> HIDE DEF k
<1>2. k < i <=> k * PageSize < i * PageSize
  BY <1>1, PageMonotone
<1>3. i =< k <=> i * PageSize =< k * PageSize
  BY <1>1, PageMonotone
<1>4. i * PageSize \in Int
  BY PageSizeFacts
<1> QED
  BY <1>1, <1>2, <1>3, <1>4 DEF k

-----------------------------------------------------------------------------
(* Pages in order                                                          *)

\* The numbers of S up to x.
UpTo(S, x) == {y \in S : y =< x}

\* Counting the numbers up to x numbers the members of S from 1.
LEMMA Ranks ==
  ASSUME NEW S \in SUBSET Nat, IsFiniteSet(S)
  PROVE  /\ Cardinality(S) \in Nat
         /\ \A x \in S : /\ Cardinality(UpTo(S, x)) \in 1..Cardinality(S)
                         /\ Cardinality({y \in S : y < x}) = Cardinality(UpTo(S, x)) - 1
         /\ \A x, z \in S : Cardinality(UpTo(S, x)) = Cardinality(UpTo(S, z)) => x = z
         /\ \A i \in 1..Cardinality(S) : \E x \in S : Cardinality(UpTo(S, x)) = i
<1> DEFINE n == Cardinality(S)
           rk == [x \in S |-> Cardinality(UpTo(S, x))]
<1>1. n \in Nat
  BY FS_CardinalityType
<1>2. ASSUME NEW x \in S
      PROVE  /\ IsFiniteSet(UpTo(S, x)) /\ Cardinality(UpTo(S, x)) \in 1..n
             /\ Cardinality({y \in S : y < x}) = Cardinality(UpTo(S, x)) - 1
  <2>1. UpTo(S, x) \in SUBSET S /\ x \in UpTo(S, x)
    BY DEF UpTo
  <2>2. IsFiniteSet(UpTo(S, x)) /\ Cardinality(UpTo(S, x)) =< n
    BY <2>1, FS_Subset
  <2>3. UpTo(S, x) \ {x} = {y \in S : y < x}
    <3>1. ASSUME NEW y \in S
          PROVE  y =< x /\ y # x <=> y < x
      <4>1. x \in Nat /\ y \in Nat
        OBVIOUS
      <4> QED
        BY <4>1
    <3> QED
      BY <3>1 DEF UpTo
  <2>4. Cardinality(UpTo(S, x) \ {x}) = Cardinality(UpTo(S, x)) - 1
        /\ IsFiniteSet(UpTo(S, x) \ {x})
    BY <2>1, <2>2, FS_RemoveElement
  <2>5. Cardinality(UpTo(S, x) \ {x}) \in Nat /\ Cardinality(UpTo(S, x)) \in Nat
    BY <2>2, <2>4, FS_CardinalityType
  <2>6. Cardinality(UpTo(S, x)) \in 1..n
    BY <1>1, <2>2, <2>4, <2>5
  <2> QED
    BY <2>2, <2>3, <2>4, <2>6
<1>3. ASSUME NEW x \in S, NEW z \in S, x < z
      PROVE  Cardinality(UpTo(S, x)) # Cardinality(UpTo(S, z))
  <2>1. UpTo(S, x) \in SUBSET UpTo(S, z) /\ z \in UpTo(S, z) /\ z \notin UpTo(S, x)
    <3>1. ASSUME NEW y \in S
          PROVE  y =< x => y =< z
      <4>1. x \in Nat /\ y \in Nat /\ z \in Nat
        OBVIOUS
      <4> QED
        BY <1>3, <4>1
    <3>2. z =< z /\ ~(z =< x)
      <4>1. x \in Nat /\ z \in Nat
        OBVIOUS
      <4> QED
        BY <1>3, <4>1
    <3> QED
      BY <3>1, <3>2 DEF UpTo
  <2>2. IsFiniteSet(UpTo(S, z))
    BY <1>2
  <2> QED
    BY <2>1, <2>2, FS_Subset
<1>4. ASSUME NEW x \in S, NEW z \in S, Cardinality(UpTo(S, x)) = Cardinality(UpTo(S, z))
      PROVE  x = z
  <2>1. x \in Nat /\ z \in Nat /\ ~(x < z) /\ ~(z < x)
    BY <1>3, <1>4
  <2> QED
    BY <2>1
<1>5. rk \in [S -> 1..n] /\ \A x, z \in S : rk[x] = rk[z] => x = z
  BY <1>2, <1>4
<1> DEFINE T == {i \in 1..n : \E x \in S : rk[x] = i}
<1>6. rk \in [S -> T] /\ \A i \in T : \E x \in S : rk[x] = i
  <2> HIDE DEF rk
  <2> QED
    BY <1>5
<1>7. Cardinality(T) = n
  <2> HIDE DEF T, rk
  <2> QED
    BY <1>5, <1>6, SameSize
<1>8. T = 1..n
  <2>1. IsFiniteSet(1..n) /\ Cardinality(1..n) = n
    BY <1>1, FS_Interval
  <2>2. T \in SUBSET (1..n)
    OBVIOUS
  <2> HIDE DEF T, n
  <2> QED
    BY <1>7, <2>1, <2>2, FS_Subset
<1>9. ASSUME NEW i \in 1..n
      PROVE  \E x \in S : Cardinality(UpTo(S, x)) = i
  <2>1. i \in T
    BY <1>8
  <2>2. PICK x \in S : rk[x] = i
    BY <2>1
  <2> QED
    BY <2>2
<1> QED
  BY <1>1, <1>2, <1>4, <1>9

\* Ascending lists every member of a finite set once.
LEMMA AscendingFacts ==
  ASSUME NEW S \in SUBSET Nat, IsFiniteSet(S)
  PROVE  /\ Cardinality(S) \in Nat
         /\ Ascending(S) \in Seq(S) /\ Len(Ascending(S)) = Cardinality(S)
         /\ \A i, j \in 1..Cardinality(S) : Ascending(S)[i] = Ascending(S)[j] => i = j
         /\ \A x \in S : \E i \in 1..Cardinality(S) : Ascending(S)[i] = x
<1> DEFINE n == Cardinality(S)
           at(i) == CHOOSE x \in S : Cardinality({y \in S : y < x}) = i - 1
<1>1. /\ n \in Nat
      /\ \A x \in S : /\ Cardinality(UpTo(S, x)) \in 1..n
                      /\ Cardinality({y \in S : y < x}) = Cardinality(UpTo(S, x)) - 1
      /\ \A x, z \in S : Cardinality(UpTo(S, x)) = Cardinality(UpTo(S, z)) => x = z
      /\ \A i \in 1..n : \E x \in S : Cardinality(UpTo(S, x)) = i
  BY Ranks
<1> HIDE DEF n
<1>2. ASSUME NEW i \in 1..n
      PROVE  at(i) \in S /\ Cardinality(UpTo(S, at(i))) = i
  <2>1. \E x \in S : Cardinality({y \in S : y < x}) = i - 1
    <3>1. PICK x \in S : Cardinality(UpTo(S, x)) = i
      BY Zenon, <1>1
    <3>2. Cardinality({y \in S : y < x}) = Cardinality(UpTo(S, x)) - 1
      BY Zenon, <1>1
    <3> QED
      BY Zenon, <3>1, <3>2
  <2>2. at(i) \in S /\ Cardinality({y \in S : y < at(i)}) = i - 1
    BY <2>1
  <2>3. Cardinality(UpTo(S, at(i))) \in 1..n
        /\ Cardinality({y \in S : y < at(i)}) = Cardinality(UpTo(S, at(i))) - 1
    BY <1>1, <2>2
  <2> HIDE DEF at
  <2> QED
    BY <1>1, <2>2, <2>3
<1>3. Ascending(S) = [i \in 1..n |-> at(i)]
  BY DEF Ascending, n
<1> HIDE DEF at
<1>4. Ascending(S) \in [1..n -> S] /\ \A i \in 1..n : Ascending(S)[i] = at(i)
  BY <1>2, <1>3
<1>5. Ascending(S) \in Seq(S) /\ Len(Ascending(S)) = n
  BY <1>1, <1>4
<1>6. ASSUME NEW i \in 1..n, NEW j \in 1..n, Ascending(S)[i] = Ascending(S)[j]
      PROVE  i = j
  BY <1>2, <1>4, <1>6
<1>7. ASSUME NEW x \in S
      PROVE  \E i \in 1..n : Ascending(S)[i] = x
  <2> DEFINE i == Cardinality(UpTo(S, x))
  <2>1. i \in 1..n
    BY <1>1
  <2>2. at(i) \in S /\ Cardinality(UpTo(S, at(i))) = i
    BY <1>2, <2>1
  <2>3. at(i) = x
    BY <1>1, <2>2
  <2> QED
    BY <1>4, <2>1, <2>3
<1> QED
  BY <1>1, <1>5, <1>6, <1>7 DEF n

\* The first n elements of a sequence.
LEMMA FirstOf ==
  ASSUME NEW X, NEW s \in Seq(X), NEW n \in 0..Len(s)
  PROVE  /\ SubSeq(s, 1, n) \in Seq(X) /\ Len(SubSeq(s, 1, n)) = n
         /\ \A i \in 1..n : SubSeq(s, 1, n)[i] = s[i]
OBVIOUS

\* TakePages hands out n different pages of the pool.
LEMMA TakePagesFacts ==
  ASSUME NEW s \in StateType, NEW n \in 0..Cardinality(s.free)
  PROVE  LET taken == TakePages(s, n)
         IN  /\ taken \in Seq(Pages) /\ Len(taken) = n
             /\ \A i \in 1..n : taken[i] \in s.free
             /\ \A i, j \in 1..n : taken[i] = taken[j] => i = j
             /\ \A p : p \in ToSet(taken) <=> \E i \in 1..n : taken[i] = p
<1> DEFINE asc == Ascending(s.free)
           m == Cardinality(s.free)
<1>1. s.free \in SUBSET Nat /\ IsFiniteSet(s.free) /\ s.free \in SUBSET Pages
  <2>1. s.free \in SUBSET Pages
    BY DEF StateType
  <2>2. IsFiniteSet(Pages) /\ Pages \subseteq Nat
    BY PoolAssumption, FS_Interval DEF Pages
  <2> QED
    BY <2>1, <2>2, FS_Subset
<1>2. /\ m \in Nat /\ asc \in Seq(s.free) /\ Len(asc) = m
      /\ \A i, j \in 1..m : asc[i] = asc[j] => i = j
  BY <1>1, AscendingFacts
<1>3. TakePages(s, n) = SubSeq(asc, 1, n)
  BY DEF TakePages
<1> HIDE DEF asc, m
<1>4. n \in Nat /\ n =< m
  BY <1>2 DEF m
<1> DEFINE taken == SubSeq(asc, 1, n)
<1>5. taken \in Seq(s.free) /\ Len(taken) = n /\ \A i \in 1..n : taken[i] = asc[i]
  <2>1. n \in 0..Len(asc)
    BY <1>2, <1>4
  <2> QED
    BY <1>2, <2>1, FirstOf
<1> HIDE DEF taken
<1>6. taken \in Seq(Pages) /\ \A i \in 1..n : taken[i] \in s.free
  BY <1>1, <1>4, <1>5
<1>7. \A i, j \in 1..n : taken[i] = taken[j] => i = j
  BY <1>2, <1>4, <1>5
<1>8. \A p : p \in ToSet(taken) <=> \E i \in 1..n : taken[i] = p
  <2>1. DOMAIN taken = 1..n
    BY <1>4, <1>5
  <2> QED
    BY <2>1 DEF ToSet
<1> QED
  BY <1>3, <1>5, <1>6, <1>7, <1>8 DEF taken

-----------------------------------------------------------------------------
(* Who has which page                                                      *)

\* A request with a row of the right length.
RowsOK(rq) == \A r \in Reqs : rq[r] \in ReqType /\ RowShape(rq[r])

\* What a row of the right length is.
LEMMA RowFacts ==
  ASSUME NEW q \in ReqType, RowShape(q)
  PROVE  /\ q.toks \in Path /\ Len(q.toks) \in Nat /\ q.row \in Seq(Pages)
         /\ Len(q.row) \in Nat /\ q.kv_len \in Nat /\ q.cache_protected_len \in Nat
         /\ q.known \in Nat /\ q.plen \in Nat /\ q.max_new \in Nat /\ q.fill \in Nat
         /\ q.cache_protected_len % PageSize = 0
         /\ q.cache_protected_len \div PageSize \in 0..Len(q.row)
         /\ q.cache_protected_len =< Len(q.toks) /\ q.kv_len =< Len(q.toks)
         /\ Len(q.row) * PageSize = CeilAlign(Covered(q)) /\ Covered(q) \in Nat
         /\ q.last_node \in Path /\ Len(q.last_node) = q.cache_protected_len
         /\ IsPrefix(q.last_node, q.toks)
         /\ q.last_node = SubSeq(q.toks, 1, q.cache_protected_len)
<1>1. /\ q.toks \in Path /\ q.row \in Seq(Pages) /\ q.kv_len \in Nat
      /\ q.cache_protected_len \in Nat /\ q.last_node \in Path
      /\ q.known \in Nat /\ q.plen \in Nat /\ q.max_new \in Nat /\ q.fill \in Nat
  BY DEF ReqType
<1>2. Len(q.toks) \in Nat /\ Len(q.row) \in Nat
  BY <1>1 DEF Path
<1>3. /\ q.cache_protected_len % PageSize = 0 /\ Covered(q) =< Len(q.toks)
      /\ Len(q.row) * PageSize = CeilAlign(Covered(q))
      /\ q.last_node = SubSeq(q.toks, 1, q.cache_protected_len)
  BY DEF RowShape
<1>4. Covered(q) \in Nat /\ q.kv_len =< Covered(q) /\ q.cache_protected_len =< Covered(q)
  BY <1>1 DEF Covered
<1>5. q.cache_protected_len \in 0..Len(q.toks) /\ q.kv_len =< Len(q.toks)
  BY <1>1, <1>2, <1>3, <1>4
<1>6. Len(q.last_node) = q.cache_protected_len /\ IsPrefix(q.last_node, q.toks)
  BY <1>1, <1>3, <1>5, Cut
<1>7. q.cache_protected_len \div PageSize \in 0..Len(q.row)
  <2> DEFINE c == q.cache_protected_len
             k == c \div PageSize
             n == Len(q.row)
  <2>1. k \in Nat /\ c = k * PageSize
    BY <1>1, <1>3, PageDivision
  <2>2. Covered(q) =< CeilAlign(Covered(q)) /\ CeilAlign(Covered(q)) \in Nat
    BY <1>4, CeilFacts
  <2>3. c =< n * PageSize
    BY <1>1, <1>3, <1>4, <2>2
  <2>4. n \in Nat
    BY <1>2
  <2> HIDE DEF k, c, n
  <2>5. k * PageSize =< n * PageSize
    BY <2>1, <2>3
  <2>6. k =< n
    BY <2>1, <2>4, <2>5, PageMonotone
  <2> QED
    BY <2>1, <2>4, <2>6 DEF k, c, n
<1> QED
  BY <1>1, <1>2, <1>3, <1>4, <1>5, <1>6, <1>7

\* The own positions of a row are those past the protected length.
LEMMA OwnPosition ==
  ASSUME NEW q \in ReqType, RowShape(q)
  PROVE  \A i : i \in OwnAt(q) <=> i \in 1..Len(q.row) /\ q.cache_protected_len < i * PageSize
<1>1. /\ q.cache_protected_len \in Nat /\ q.cache_protected_len % PageSize = 0
      /\ Len(q.row) \in Nat /\ q.cache_protected_len \div PageSize \in Nat
  BY RowFacts
<1>2. ASSUME NEW i, i \in OwnAt(q)
      PROVE  i \in 1..Len(q.row) /\ q.cache_protected_len < i * PageSize
  <2>1. i \in Int /\ i >= q.cache_protected_len \div PageSize + 1 /\ i =< Len(q.row)
    BY <1>1, <1>2 DEF OwnAt
  <2> QED
    BY <1>1, <2>1, PagePosition
<1>3. ASSUME NEW i \in 1..Len(q.row), q.cache_protected_len < i * PageSize
      PROVE  i \in OwnAt(q)
  <2>1. i \in Int /\ i >= q.cache_protected_len \div PageSize + 1
    BY <1>1, <1>3, PagePosition
  <2> QED
    BY <1>1, <2>1 DEF OwnAt
<1> QED
  BY <1>2, <1>3

\* The pages S go back to the pool and their contents are gone.
Freed(f, k, S, f2, k2) ==
  /\ f2 = f \cup S
  /\ \A p \in Pages : k2[p] = IF p \in S THEN <<>> ELSE k[p]

\* The values V are dropped.
Drops(v, V, w) ==
  /\ V \subseteq DOMAIN v /\ DOMAIN w = DOMAIN v \ V
  /\ \A p \in DOMAIN w : w[p] = v[p]

\* Pages of own positions are pages.
LEMMA OwnPage ==
  ASSUME NEW q \in ReqType, RowShape(q), NEW i \in OwnAt(q)
  PROVE  q.row[i] \in Pages
<1>1. i \in 1..Len(q.row) /\ q.row \in Seq(Pages)
  BY OwnPosition, RowFacts
<1> QED
  BY <1>1

\* Eviction of values no request reads: their pages become free.
LEMMA PagesEvict ==
  ASSUME NEW v, NEW f, NEW rq, NEW k, PagesOK(v, f, rq, k), RowsOK(rq),
         NEW V, NEW w, Drops(v, V, w), NEW f2, NEW k2,
         Freed(f, k, {v[p] : p \in V}, f2, k2),
         \A r \in Reqs : \A i \in 1..(rq[r].cache_protected_len \div PageSize) :
           PagePrefix(rq[r].toks, i) \in DOMAIN w
  PROVE  PagesOK(w, f2, rq, k2) /\ {v[p] : p \in V} \cap f = {}
<1> DEFINE S == {v[p] : p \in V}
<1>1. f2 = f \cup S /\ \A p \in Pages : k2[p] = IF p \in S THEN <<>> ELSE k[p]
  BY DEF Freed
<1>2. /\ \A p \in DOMAIN v : v[p] \in Pages \ f /\ k[v[p]] = p
      /\ \A r \in Reqs : ReadsTree(v, rq[r]) /\ OwnsRest(v, f, rq[r], k)
      /\ NoSharing(rq) /\ Conserved(v, f, rq)
  BY DEF PagesOK, TreePagesOK
<1>3. V \subseteq DOMAIN v /\ DOMAIN w = DOMAIN v \ V /\ \A p \in DOMAIN w : w[p] = v[p]
  BY DEF Drops
<1>4. \A p \in V : v[p] \in S
  OBVIOUS
<1>5. \A x \in S : \E p \in V : v[p] = x
  OBVIOUS
<1>6. S \cap f = {}
  BY <1>2, <1>3, <1>5
<1> HIDE DEF S
<1>7. TreePagesOK(w, f2, k2)
  <2>1. ASSUME NEW p \in DOMAIN w
        PROVE  w[p] \in Pages \ f2 /\ k2[w[p]] = p
    <3>1. p \in DOMAIN v /\ p \notin V /\ w[p] = v[p]
      BY <1>3
    <3>2. v[p] \in Pages \ f /\ k[v[p]] = p
      BY <1>2, <3>1
    <3>3. v[p] \notin S
      BY <1>2, <1>3, <1>5, <3>1, <3>2
    <3> QED
      BY <1>1, <3>1, <3>2, <3>3
  <2> QED
    BY <2>1 DEF TreePagesOK
<1>8. ASSUME NEW r \in Reqs
      PROVE  ReadsTree(w, rq[r]) /\ OwnsRest(w, f2, rq[r], k2)
  <2>1. rq[r] \in ReqType /\ RowShape(rq[r])
    BY DEF RowsOK
  <2>2. ReadsTree(w, rq[r])
    BY <1>2, <1>3 DEF ReadsTree
  <2>3. ASSUME NEW i \in OwnAt(rq[r])
        PROVE  /\ rq[r].row[i] \notin f2
               /\ \A p \in DOMAIN w : rq[r].row[i] # w[p]
               /\ k2[rq[r].row[i]] = Content(rq[r], i)
    <3>1. /\ rq[r].row[i] \notin f /\ \A p \in DOMAIN v : rq[r].row[i] # v[p]
          /\ k[rq[r].row[i]] = Content(rq[r], i)
      BY <1>2 DEF OwnsRest
    <3>2. rq[r].row[i] \in Pages
      BY <2>1, OwnPage
    <3>3. rq[r].row[i] \notin S
      BY <1>3, <1>5, <3>1
    <3> QED
      BY <1>1, <1>3, <3>1, <3>2, <3>3
  <2> QED
    BY <2>2, <2>3 DEF OwnsRest
<1>9. Conserved(w, f2, rq)
  <2>1. ASSUME NEW p \in Pages \ f2
        PROVE  \/ \E x \in DOMAIN w : w[x] = p
               \/ \E r \in Reqs : \E i \in OwnAt(rq[r]) : rq[r].row[i] = p
    <3>1. p \in Pages \ f /\ p \notin S
      BY <1>1
    <3>2. \/ \E x \in DOMAIN v : v[x] = p
          \/ \E r \in Reqs : \E i \in OwnAt(rq[r]) : rq[r].row[i] = p
      BY <1>2, <3>1 DEF Conserved
    <3>3. ASSUME NEW x \in DOMAIN v, v[x] = p
          PROVE  x \in DOMAIN w /\ w[x] = p
      BY <1>3, <1>4, <3>1, <3>3
    <3> QED
      BY <3>2, <3>3
  <2> QED
    BY <2>1 DEF Conserved
<1> QED
  BY <1>2, <1>6, <1>7, <1>8, <1>9 DEF PagesOK, S

\* Request q becomes q2, giving pages of its own to the tree and the pages S
\* back to the pool.
Settles(v, w, q, q2, S) ==
  /\ DOMAIN v \subseteq DOMAIN w /\ \A p \in DOMAIN v : w[p] = v[p]
  /\ \A p \in DOMAIN w \ DOMAIN v : \E i \in OwnAt(q) :
       i \notin OwnAt(q2) /\ w[p] = q.row[i] /\ Content(q, i) = p /\ w[p] \notin S
  /\ \A i \in OwnAt(q2) :
       /\ i \in OwnAt(q) /\ q2.row[i] = q.row[i] /\ Content(q2, i) = Content(q, i)
       /\ q.row[i] \notin S
  /\ \A i \in OwnAt(q) :
       \/ \E p \in DOMAIN w \ DOMAIN v : w[p] = q.row[i]
       \/ i \in OwnAt(q2)
       \/ q.row[i] \in S
  /\ \A p \in S : \E i \in OwnAt(q) : q.row[i] = p
  /\ ReadsTree(w, q2)

\* Every page of a request that settles has one owner afterwards.
LEMMA PagesSettle ==
  ASSUME NEW v, NEW f, NEW rq, NEW k, PagesOK(v, f, rq, k), RowsOK(rq),
         NEW r \in Reqs, NEW w, NEW rq2, NEW S, Settles(v, w, rq[r], rq2[r], S),
         \A x \in Reqs : x # r => rq2[x] = rq[x],
         NEW f2, NEW k2, Freed(f, k, S, f2, k2)
  PROVE  PagesOK(w, f2, rq2, k2)
<1> DEFINE q == rq[r]
           q2 == rq2[r]
<1>1. f2 = f \cup S /\ \A p \in Pages : k2[p] = IF p \in S THEN <<>> ELSE k[p]
  BY DEF Freed
<1>2. /\ \A p \in DOMAIN v : v[p] \in Pages \ f /\ k[v[p]] = p
      /\ \A x \in Reqs : ReadsTree(v, rq[x]) /\ OwnsRest(v, f, rq[x], k)
      /\ NoSharing(rq) /\ Conserved(v, f, rq)
  BY DEF PagesOK, TreePagesOK
<1>3. /\ DOMAIN v \subseteq DOMAIN w /\ \A p \in DOMAIN v : w[p] = v[p]
      /\ \A p \in DOMAIN w \ DOMAIN v : \E i \in OwnAt(q) :
           i \notin OwnAt(q2) /\ w[p] = q.row[i] /\ Content(q, i) = p /\ w[p] \notin S
      /\ \A i \in OwnAt(q2) :
           /\ i \in OwnAt(q) /\ q2.row[i] = q.row[i] /\ Content(q2, i) = Content(q, i)
           /\ q.row[i] \notin S
      /\ \A i \in OwnAt(q) :
           \/ \E p \in DOMAIN w \ DOMAIN v : w[p] = q.row[i]
           \/ i \in OwnAt(q2)
           \/ q.row[i] \in S
      /\ \A p \in S : \E i \in OwnAt(q) : q.row[i] = p
      /\ ReadsTree(w, q2)
  BY DEF Settles
<1>4. ASSUME NEW x \in Reqs, NEW i \in OwnAt(rq[x])
      PROVE  /\ rq[x].row[i] \in Pages \ f /\ \A p \in DOMAIN v : rq[x].row[i] # v[p]
             /\ k[rq[x].row[i]] = Content(rq[x], i)
             /\ x # r => \A j \in OwnAt(q) : rq[x].row[i] # q.row[j]
  <2>1. rq[x] \in ReqType /\ RowShape(rq[x])
    BY DEF RowsOK
  <2>2. rq[x].row[i] \in Pages
    BY <2>1, OwnPage
  <2>3. /\ rq[x].row[i] \notin f /\ \A p \in DOMAIN v : rq[x].row[i] # v[p]
        /\ k[rq[x].row[i]] = Content(rq[x], i)
    BY <1>2 DEF OwnsRest
  <2>4. x # r => \A j \in OwnAt(q) : rq[x].row[i] # q.row[j]
    BY <1>2 DEF NoSharing
  <2> QED
    BY <2>2, <2>3, <2>4
<1>5. \A i, j \in OwnAt(q) : q.row[i] = q.row[j] => i = j
  BY <1>2 DEF NoSharing
<1>6. \A x \in Reqs : x # r => rq2[x] = rq[x]
  OBVIOUS
<1>7. /\ \A i \in OwnAt(q) : /\ q.row[i] \in Pages \ f /\ k[q.row[i]] = Content(q, i)
                             /\ \A p \in DOMAIN v : q.row[i] # v[p]
  BY <1>4
<1> HIDE DEF q, q2
<1>8. TreePagesOK(w, f2, k2)
  <2>1. ASSUME NEW p \in DOMAIN w
        PROVE  w[p] \in Pages \ f2 /\ k2[w[p]] = p
    <3>1. CASE p \in DOMAIN v
      <4>1. w[p] = v[p] /\ v[p] \in Pages \ f /\ k[v[p]] = p
        BY <1>2, <1>3, <3>1
      <4>2. v[p] \notin S
        BY <1>3, <1>7, <3>1
      <4> QED
        BY <1>1, <4>1, <4>2
    <3>2. CASE p \notin DOMAIN v
      <4>1. PICK i \in OwnAt(q) : w[p] = q.row[i] /\ Content(q, i) = p /\ w[p] \notin S
        BY <1>3, <3>2
      <4>2. q.row[i] \in Pages \ f /\ k[q.row[i]] = p
        BY <1>7, <4>1
      <4> QED
        BY <1>1, <4>1, <4>2
    <3> QED
      BY <3>1, <3>2
  <2> QED
    BY <2>1 DEF TreePagesOK
<1>9. ASSUME NEW x \in Reqs, x # r
      PROVE  ReadsTree(w, rq2[x]) /\ OwnsRest(w, f2, rq2[x], k2)
  <2>1. rq2[x] = rq[x]
    BY <1>6, <1>9
  <2>2. ReadsTree(w, rq[x])
    BY <1>2, <1>3 DEF ReadsTree
  <2>3. ASSUME NEW i \in OwnAt(rq[x])
        PROVE  /\ rq[x].row[i] \notin f2
               /\ \A p \in DOMAIN w : rq[x].row[i] # w[p]
               /\ k2[rq[x].row[i]] = Content(rq[x], i)
    <3>1. /\ rq[x].row[i] \in Pages \ f /\ \A p \in DOMAIN v : rq[x].row[i] # v[p]
          /\ k[rq[x].row[i]] = Content(rq[x], i)
          /\ \A j \in OwnAt(q) : rq[x].row[i] # q.row[j]
      BY <1>4, <1>9
    <3>2. rq[x].row[i] \notin S
      BY <1>3, <3>1
    <3>3. ASSUME NEW p \in DOMAIN w
          PROVE  rq[x].row[i] # w[p]
      BY <1>3, <3>1
    <3> QED
      BY <1>1, <3>1, <3>2, <3>3
  <2>4. OwnsRest(w, f2, rq[x], k2)
    BY <2>3 DEF OwnsRest
  <2> QED
    BY <2>1, <2>2, <2>4
<1>10. OwnsRest(w, f2, q2, k2)
  <2>1. ASSUME NEW i \in OwnAt(q2)
        PROVE  /\ q2.row[i] \notin f2
               /\ \A p \in DOMAIN w : q2.row[i] # w[p]
               /\ k2[q2.row[i]] = Content(q2, i)
    <3>1. /\ i \in OwnAt(q) /\ q2.row[i] = q.row[i] /\ Content(q2, i) = Content(q, i)
          /\ q.row[i] \notin S
      BY <1>3
    <3>2. /\ q.row[i] \in Pages \ f /\ k[q.row[i]] = Content(q, i)
          /\ \A p \in DOMAIN v : q.row[i] # v[p]
      BY <1>7, <3>1
    <3>3. ASSUME NEW p \in DOMAIN w
          PROVE  q.row[i] # w[p]
      <4>1. CASE p \in DOMAIN v
        BY <1>3, <3>2, <4>1
      <4>2. CASE p \notin DOMAIN v
        <5>1. PICK j \in OwnAt(q) : j \notin OwnAt(q2) /\ w[p] = q.row[j]
          BY <1>3, <4>2
        <5> QED
          BY <1>5, <3>1, <5>1
      <4> QED
        BY <4>1, <4>2
    <3> QED
      BY <1>1, <3>1, <3>2, <3>3
  <2> QED
    BY <2>1 DEF OwnsRest
<1>11. ASSUME NEW x \in Reqs, NEW i \in OwnAt(rq2[x])
       PROVE  i \in OwnAt(rq[x]) /\ rq2[x].row[i] = rq[x].row[i]
  BY <1>3, <1>6 DEF q, q2
<1>12. NoSharing(rq2)
  <2>1. ASSUME NEW x \in Reqs, NEW y \in Reqs, NEW i \in OwnAt(rq2[x]), NEW j \in OwnAt(rq2[y]),
               rq2[x].row[i] = rq2[y].row[j]
        PROVE  x = y /\ i = j
    BY <1>2, <1>11, <2>1 DEF NoSharing
  <2> QED
    BY <2>1 DEF NoSharing
<1>13. Conserved(w, f2, rq2)
  <2>1. ASSUME NEW p \in Pages \ f2
        PROVE  \/ \E x \in DOMAIN w : w[x] = p
               \/ \E x \in Reqs : \E i \in OwnAt(rq2[x]) : rq2[x].row[i] = p
    <3>1. p \in Pages \ f /\ p \notin S
      BY <1>1
    <3>2. \/ \E x \in DOMAIN v : v[x] = p
          \/ \E x \in Reqs : \E i \in OwnAt(rq[x]) : rq[x].row[i] = p
      BY <1>2, <3>1 DEF Conserved
    <3>3. CASE \E x \in DOMAIN v : v[x] = p
      BY <1>3, <3>3
    <3>4. ASSUME NEW x \in Reqs, NEW i \in OwnAt(rq[x]), rq[x].row[i] = p, x # r
          PROVE  i \in OwnAt(rq2[x]) /\ rq2[x].row[i] = p
      BY <1>6, <3>4
    <3>5. ASSUME NEW i \in OwnAt(q), q.row[i] = p
          PROVE  \/ \E x \in DOMAIN w : w[x] = p
                 \/ i \in OwnAt(q2) /\ q2.row[i] = p
      BY <1>3, <3>1, <3>5
    <3> QED
      BY <3>2, <3>3, <3>4, <3>5 DEF q, q2
  <2> QED
    BY <2>1 DEF Conserved
<1>14. \A x \in Reqs : ReadsTree(w, rq2[x]) /\ OwnsRest(w, f2, rq2[x], k2)
  BY <1>3, <1>9, <1>10 DEF q2
<1> QED
  BY <1>8, <1>12, <1>13, <1>14 DEF PagesOK

\* The positions that a row has gained.
NewAt(q, q2) == OwnAt(q2) \ OwnAt(q)

\* A longer row: the protected part and the old pages stay.
Extends(q, q2) ==
  /\ q2.cache_protected_len = q.cache_protected_len
  /\ \A i \in 1..(q.cache_protected_len \div PageSize) :
       PagePrefix(q2.toks, i) = PagePrefix(q.toks, i)
  /\ \A i \in 1..Len(q.row) : i \in 1..Len(q2.row) /\ q2.row[i] = q.row[i]

\* The requests B get pages of the pool f, and f2 is left.
Takes(f, f2, rq, rq2, B) ==
  /\ f2 \subseteq f
  /\ \A r \in B : \A i \in NewAt(rq[r], rq2[r]) : rq2[r].row[i] \in f \ f2
  /\ \A r, s \in B : \A i \in NewAt(rq[r], rq2[r]), j \in NewAt(rq[s], rq2[s]) :
       rq2[r].row[i] = rq2[s].row[j] => r = s /\ i = j
  /\ \A p \in f \ f2 : \E r \in B : \E i \in NewAt(rq[r], rq2[r]) : rq2[r].row[i] = p

\* Their own pages hold what their rows say, and no other page is written.
Writes(k, k2, rq2, B) ==
  /\ \A r \in B : \A i \in OwnAt(rq2[r]) : k2[rq2[r].row[i]] = Content(rq2[r], i)
  /\ \A p \in Pages : (\A r \in B : \A i \in OwnAt(rq2[r]) : rq2[r].row[i] # p)
                        => k2[p] = k[p]

\* Requests that get different free pages keep the pages apart.
LEMMA PagesGrow ==
  ASSUME NEW v, NEW f, NEW rq, NEW k, PagesOK(v, f, rq, k), RowsOK(rq), f \subseteq Pages,
         NEW B \in SUBSET Reqs, NEW rq2, RowsOK(rq2),
         \A r \in B : Extends(rq[r], rq2[r]),
         \A x \in Reqs \ B : rq2[x] = rq[x],
         NEW f2, Takes(f, f2, rq, rq2, B),
         NEW k2, Writes(k, k2, rq2, B)
  PROVE  PagesOK(v, f2, rq2, k2)
<1>1. /\ \A p \in DOMAIN v : v[p] \in Pages \ f /\ k[v[p]] = p
      /\ \A x \in Reqs : ReadsTree(v, rq[x]) /\ OwnsRest(v, f, rq[x], k)
      /\ NoSharing(rq) /\ Conserved(v, f, rq)
  BY DEF PagesOK, TreePagesOK
<1>2. /\ f2 \subseteq f
      /\ \A r \in B : \A i \in NewAt(rq[r], rq2[r]) : rq2[r].row[i] \in f \ f2
      /\ \A r, s \in B : \A i \in NewAt(rq[r], rq2[r]), j \in NewAt(rq[s], rq2[s]) :
           rq2[r].row[i] = rq2[s].row[j] => r = s /\ i = j
      /\ \A p \in f \ f2 : \E r \in B : \E i \in NewAt(rq[r], rq2[r]) : rq2[r].row[i] = p
  BY DEF Takes
<1>3. /\ \A r \in B : \A i \in OwnAt(rq2[r]) : k2[rq2[r].row[i]] = Content(rq2[r], i)
      /\ \A p \in Pages : (\A r \in B : \A i \in OwnAt(rq2[r]) : rq2[r].row[i] # p)
                            => k2[p] = k[p]
  BY DEF Writes
<1>4. \A x \in Reqs : rq[x] \in ReqType /\ RowShape(rq[x])
                      /\ rq2[x] \in ReqType /\ RowShape(rq2[x])
  BY DEF RowsOK
<1>5. ASSUME NEW r \in B
      PROVE  /\ rq2[r].cache_protected_len = rq[r].cache_protected_len
             /\ \A i \in 1..(rq[r].cache_protected_len \div PageSize) :
                  PagePrefix(rq2[r].toks, i) = PagePrefix(rq[r].toks, i)
             /\ \A i \in 1..Len(rq[r].row) : i \in 1..Len(rq2[r].row)
                                             /\ rq2[r].row[i] = rq[r].row[i]
  BY DEF Extends
<1>6. ASSUME NEW x \in Reqs, NEW i \in OwnAt(rq[x])
      PROVE  i \in OwnAt(rq2[x]) /\ rq2[x].row[i] = rq[x].row[i]
  <2>1. CASE x \in B
    <3>1. i \in 1..Len(rq[x].row) /\ rq[x].cache_protected_len < i * PageSize
      BY <1>4, OwnPosition
    <3>2. i \in 1..Len(rq2[x].row) /\ rq2[x].row[i] = rq[x].row[i]
          /\ rq2[x].cache_protected_len = rq[x].cache_protected_len
      BY <1>5, <2>1, <3>1
    <3>3. i \in OwnAt(rq2[x])
      BY <1>4, <3>1, <3>2, OwnPosition
    <3> QED
      BY <3>2, <3>3
  <2>2. CASE x \notin B
    BY <2>2
  <2> QED
    BY <2>1, <2>2
\* An own page is an old one, or was free.
<1>7. ASSUME NEW x \in Reqs, NEW i \in OwnAt(rq2[x])
      PROVE  \/ i \in OwnAt(rq[x]) /\ rq2[x].row[i] = rq[x].row[i]
             \/ x \in B /\ i \in NewAt(rq[x], rq2[x]) /\ rq2[x].row[i] \in f \ f2
  <2>1. CASE i \in OwnAt(rq[x])
    BY <1>6, <2>1
  <2>2. CASE i \notin OwnAt(rq[x])
    <3>1. x \in B /\ i \in NewAt(rq[x], rq2[x])
      BY <2>2 DEF NewAt
    <3> QED
      BY <1>2, <3>1
  <2> QED
    BY <2>1, <2>2
<1>8. ASSUME NEW x \in Reqs, NEW i \in OwnAt(rq[x])
      PROVE  /\ rq[x].row[i] \in Pages /\ rq[x].row[i] \notin f
             /\ k[rq[x].row[i]] = Content(rq[x], i)
             /\ \A p \in DOMAIN v : rq[x].row[i] # v[p]
  <2>1. rq[x].row[i] \in Pages
    BY <1>4, OwnPage
  <2> QED
    BY <1>1, <2>1 DEF OwnsRest
<1>9. ASSUME NEW x \in Reqs, NEW i \in OwnAt(rq2[x])
      PROVE  /\ rq2[x].row[i] \notin f2 /\ \A p \in DOMAIN v : rq2[x].row[i] # v[p]
  BY <1>1, <1>2, <1>7, <1>8
<1>10. NoSharing(rq2)
  <2>1. ASSUME NEW x \in Reqs, NEW y \in Reqs, NEW i \in OwnAt(rq2[x]), NEW j \in OwnAt(rq2[y]),
               rq2[x].row[i] = rq2[y].row[j]
        PROVE  x = y /\ i = j
    <3>1. CASE i \in OwnAt(rq[x]) /\ j \in OwnAt(rq[y])
      BY <1>1, <1>6, <2>1, <3>1 DEF NoSharing
    <3>2. CASE i \in OwnAt(rq[x]) /\ j \notin OwnAt(rq[y])
      BY <1>6, <1>7, <1>8, <2>1, <3>2
    <3>3. CASE i \notin OwnAt(rq[x]) /\ j \in OwnAt(rq[y])
      BY <1>6, <1>7, <1>8, <2>1, <3>3
    <3>4. CASE i \notin OwnAt(rq[x]) /\ j \notin OwnAt(rq[y])
      <4>1. x \in B /\ i \in NewAt(rq[x], rq2[x]) /\ y \in B /\ j \in NewAt(rq[y], rq2[y])
        BY <1>7, <3>4
      <4> QED
        BY <1>2, <2>1, <4>1
    <3> QED
      BY <3>1, <3>2, <3>3, <3>4
  <2> QED
    BY <2>1 DEF NoSharing
<1>11. TreePagesOK(v, f2, k2)
  <2>1. ASSUME NEW p \in DOMAIN v
        PROVE  v[p] \in Pages \ f2 /\ k2[v[p]] = p
    <3>1. v[p] \in Pages \ f /\ k[v[p]] = p
      BY <1>1
    <3>2. \A r \in B : \A i \in OwnAt(rq2[r]) : rq2[r].row[i] # v[p]
      BY <1>9
    <3> QED
      BY <1>2, <1>3, <3>1, <3>2
  <2> QED
    BY <2>1 DEF TreePagesOK
<1>12. ASSUME NEW x \in Reqs
       PROVE  ReadsTree(v, rq2[x]) /\ OwnsRest(v, f2, rq2[x], k2)
  <2>1. ReadsTree(v, rq[x])
    BY <1>1
  <2>2. CASE x \in B
    <3>1. /\ rq2[x].cache_protected_len = rq[x].cache_protected_len
          /\ \A i \in 1..(rq[x].cache_protected_len \div PageSize) :
                  PagePrefix(rq2[x].toks, i) = PagePrefix(rq[x].toks, i)
      BY <1>5, <2>2
    <3>2. ASSUME NEW i \in 1..(rq[x].cache_protected_len \div PageSize)
          PROVE  rq2[x].row[i] = rq[x].row[i]
      <4>1. rq[x].cache_protected_len \div PageSize \in 0..Len(rq[x].row)
            /\ Len(rq[x].row) \in Nat
        BY <1>4, RowFacts
      <4>2. i \in 1..Len(rq[x].row)
        BY <4>1
      <4> QED
        BY <1>5, <2>2, <4>2
    <3>3. ReadsTree(v, rq2[x])
      BY <2>1, <3>1, <3>2 DEF ReadsTree
    <3>4. OwnsRest(v, f2, rq2[x], k2)
      BY <1>3, <1>9, <2>2 DEF OwnsRest
    <3> QED
      BY <3>3, <3>4
  <2>3. CASE x \notin B
    <3>1. rq2[x] = rq[x]
      BY <2>3
    <3>2. ASSUME NEW i \in OwnAt(rq[x])
          PROVE  k2[rq[x].row[i]] = Content(rq[x], i)
      <4>1. rq[x].row[i] \in Pages /\ k[rq[x].row[i]] = Content(rq[x], i)
        BY <1>8
      <4>2. ASSUME NEW r \in B, NEW j \in OwnAt(rq2[r]), rq2[r].row[j] = rq[x].row[i]
            PROVE  FALSE
        <5>1. r = x
          BY <1>6, <1>10, <3>1, <4>2 DEF NoSharing
        <5> QED
          BY <2>3, <5>1
      <4> QED
        BY <1>3, <4>1, <4>2
    <3>3. OwnsRest(v, f2, rq[x], k2)
      BY <1>9, <3>1, <3>2 DEF OwnsRest
    <3> QED
      BY <2>1, <3>1, <3>3
  <2> QED
    BY <2>2, <2>3
<1>13. Conserved(v, f2, rq2)
  <2>1. ASSUME NEW p \in Pages \ f2
        PROVE  \/ \E x \in DOMAIN v : v[x] = p
               \/ \E x \in Reqs : \E i \in OwnAt(rq2[x]) : rq2[x].row[i] = p
    <3>1. CASE p \in f
      <4>1. PICK r \in B : \E i \in NewAt(rq[r], rq2[r]) : rq2[r].row[i] = p
        BY <1>2, <3>1
      <4> QED
        BY <4>1 DEF NewAt
    <3>2. CASE p \notin f
      <4>1. \/ \E x \in DOMAIN v : v[x] = p
            \/ \E x \in Reqs : \E i \in OwnAt(rq[x]) : rq[x].row[i] = p
        BY <1>1, <3>2 DEF Conserved
      <4> QED
        BY <1>6, <4>1
    <3> QED
      BY <3>1, <3>2
  <2> QED
    BY <2>1 DEF Conserved
<1> QED
  BY <1>10, <1>11, <1>12, <1>13 DEF PagesOK

-----------------------------------------------------------------------------
(* Freeing and eviction                                                    *)

\* The parts of a state.
LEMMA StateFacts ==
  ASSUME NEW s \in StateType
  PROVE  /\ s.tree \in TreeType /\ s.free \in SUBSET Pages /\ s.req \in [Reqs -> ReqType]
         /\ s.kv \in [Pages -> Path] /\ s.fault \in SUBSET STRING
         /\ IsFiniteSet(s.free) /\ IsFiniteSet(Pages) /\ Cardinality(Pages) = NumPages
         /\ Pages \subseteq Nat
<1>1. IsFiniteSet(Pages) /\ Cardinality(Pages) = NumPages /\ Pages \subseteq Nat
  BY PoolAssumption, FS_Interval DEF Pages
<1>2. /\ s.tree \in TreeType /\ s.free \in SUBSET Pages /\ s.req \in [Reqs -> ReqType]
      /\ s.kv \in [Pages -> Path] /\ s.fault \in SUBSET STRING
  BY DEF StateType
<1> QED
  BY <1>1, <1>2, FS_Subset

\* u is s with the pages S freed.
FreedIn(s, u, S) ==
  /\ u \in StateType /\ u.tree = s.tree /\ u.req = s.req /\ u.fault = s.fault
  /\ Freed(s.free, s.kv, S, u.free, u.kv)

\* Pages that are in use can be freed.
LEMMA FreeFields ==
  ASSUME NEW s \in StateType, NEW S \in SUBSET Pages, S \cap s.free = {}
  PROVE  FreedIn(s, FreePages(s, S), S)
<1> DEFINE f == s.free \cup S
           k == [p \in Pages |-> IF p \in S THEN <<>> ELSE s.kv[p]]
<1>1. FreePages(s, S) = [s EXCEPT !.free = f, !.kv = k, !.fault = s.fault]
  <2> DEFINE e == s.fault \cup IF S \cap s.free # {} THEN {"double free"} ELSE {}
  <2>1. FreePages(s, S) = [s EXCEPT !.free = f, !.kv = k, !.fault = e]
    BY DEF FreePages, StateType
  <2>2. e = s.fault
    OBVIOUS
  <2> HIDE DEF f, k, e
  <2> QED
    BY <2>1, <2>2, Zenon
<1>2. f \in SUBSET Pages /\ k \in [Pages -> Path] /\ s.fault \in SUBSET STRING
  <2>1. s.free \in SUBSET Pages /\ s.kv \in [Pages -> Path] /\ s.fault \in SUBSET STRING
    BY StateFacts
  <2>2. <<>> \in Path
    BY DEF Path
  <2> QED
    BY <2>1, <2>2
<1>3. \A p \in Pages : k[p] = IF p \in S THEN <<>> ELSE s.kv[p]
  OBVIOUS
<1> HIDE DEF k
<1>4. /\ FreePages(s, S) \in StateType /\ FreePages(s, S).tree = s.tree
      /\ FreePages(s, S).req = s.req /\ FreePages(s, S).free = f
      /\ FreePages(s, S).kv = k /\ FreePages(s, S).fault = s.fault
  <2> HIDE DEF f
  <2> QED
    BY <1>1, <1>2 DEF StateType
<1> QED
  BY <1>3, <1>4 DEF FreedIn, Freed

\* The pages of a segment.
Segment(row, start, end) ==
  {row[i] : i \in (start \div PageSize + 1)..(CeilAlign(end) \div PageSize)}

\* Which positions those are.
LEMMA SegmentPositions ==
  ASSUME NEW row \in Seq(Pages), NEW start \in Nat, start % PageSize = 0, NEW end \in Nat,
         CeilAlign(end) =< Len(row) * PageSize
  PROVE  /\ \A p : p \in Segment(row, start, end) <=>
              \E i \in 1..Len(row) :
                start < i * PageSize /\ i * PageSize =< CeilAlign(end) /\ row[i] = p
         /\ Segment(row, start, end) \in SUBSET Pages
<1> DEFINE a == start \div PageSize
           b == CeilAlign(end) \div PageSize
           n == Len(row)
<1>1. n \in Nat
  OBVIOUS
<1>2. a \in Nat
  BY PageDivision
<1>3. b \in Nat /\ CeilAlign(end) \in Nat /\ CeilAlign(end) % PageSize = 0
      /\ CeilAlign(end) = b * PageSize
  BY CeilFacts
<1>4. b =< n
  <2> HIDE DEF b, n
  <2>1. b * PageSize =< n * PageSize
    BY <1>3 DEF n
  <2> QED
    BY <1>1, <1>3, <2>1, PageMonotone
<1>5. ASSUME NEW i \in Int
      PROVE  i \in (a + 1)..b <=>
               i \in 1..n /\ start < i * PageSize /\ i * PageSize =< CeilAlign(end)
  <2>1. i >= a + 1 <=> start < i * PageSize
    BY PagePosition
  <2>2. i =< b <=> i * PageSize =< CeilAlign(end)
    BY <1>3, PagePosition
  <2> HIDE DEF a, b, n
  <2> QED
    BY <1>1, <1>2, <1>3, <1>4, <2>1, <2>2
<1>6. ASSUME NEW p
      PROVE  p \in Segment(row, start, end) <=>
              \E i \in 1..n :
                start < i * PageSize /\ i * PageSize =< CeilAlign(end) /\ row[i] = p
  <2>1. p \in Segment(row, start, end) <=> \E i \in (a + 1)..b : row[i] = p
    BY DEF Segment
  <2>2. (a + 1)..b \subseteq Int /\ 1..n \subseteq Int
    BY <1>1, <1>2, <1>3
  <2> HIDE DEF a, b, n
  <2> QED
    BY <1>5, <2>1, <2>2
<1>7. \A i \in 1..n : row[i] \in Pages
  OBVIOUS
<1> QED
  BY <1>6, <1>7

\* free_segment of a page-aligned start frees the pages of the segment.
LEMMA SegmentFields ==
  ASSUME NEW s \in StateType, NEW row \in Seq(Pages), NEW start \in Nat,
         start % PageSize = 0, NEW end \in Nat, CeilAlign(end) =< Len(row) * PageSize,
         Segment(row, start, end) \cap s.free = {}
  PROVE  FreedIn(s, FreeSegment(s, row, start, end), Segment(row, start, end))
<1> DEFINE S == Segment(row, start, end)
<1>1. S \in SUBSET Pages
  BY SegmentPositions
<1>2. CASE start >= end
  <2>1. FreeSegment(s, row, start, end) = s
    BY <1>2 DEF FreeSegment
  <2>2. CeilAlign(end) =< start /\ CeilAlign(end) \in Nat
    BY <1>2, CeilFacts
  <2>3. S = {}
    <3>1. ASSUME NEW p \in S
          PROVE  FALSE
      <4>1. PICK i \in 1..Len(row) : start < i * PageSize /\ i * PageSize =< CeilAlign(end)
        BY <3>1, SegmentPositions
      <4>2. i * PageSize \in Int
        BY PageSizeFacts
      <4> QED
        BY <2>2, <4>1, <4>2
    <3> QED
      BY <3>1
  <2>4. Freed(s.free, s.kv, {}, s.free, s.kv)
    BY DEF Freed
  <2> HIDE DEF S
  <2>5. FreedIn(s, s, S)
    BY <2>3, <2>4 DEF FreedIn
  <2> QED
    BY <2>1, <2>5 DEF S
<1>3. CASE start < end
  <2> DEFINE e == s.fault \cup IF start % PageSize # 0 THEN {"unaligned segment"} ELSE {}
  <2>1. e = s.fault
    OBVIOUS
  <2>2. [s EXCEPT !.fault = e] = s
    <3> HIDE DEF e
    <3> QED
      BY <2>1 DEF StateType
  <2>3. FreeSegment(s, row, start, end) = FreePages([s EXCEPT !.fault = e], S)
    <3>1. ~(start >= end)
      BY <1>3
    <3> QED
      BY <3>1, Zenon DEF FreeSegment, Segment
  <2>4. FreeSegment(s, row, start, end) = FreePages(s, S)
    <3> HIDE DEF e
    <3> QED
      BY <2>2, <2>3
  <2> HIDE DEF S
  <2>5. S \cap s.free = {}
    BY DEF S
  <2> QED
    BY <1>1, <2>4, <2>5, FreeFields DEF S
<1> QED
  BY <1>2, <1>3

\* What Good says.
LEMMA GoodFacts ==
  ASSUME NEW s, Good(s)
  PROVE  /\ s \in StateType /\ RowsOK(s.req) /\ TreeOK(s.tree, Hold(s.req))
         /\ TreeShape(s.tree) /\ PagesOK(s.tree.value, s.free, s.req, s.kv)
         /\ DOMAIN Hold(s.req) = Reqs
         /\ \A r \in Reqs : /\ Hold(s.req)[r] = s.req[r].last_node
                            /\ s.req[r].last_node \in s.tree.nodes \cup {Root}
                            /\ s.req[r] \in ReqType /\ RowShape(s.req[r])
<1>1. s \in StateType /\ TreeOK(s.tree, Hold(s.req))
      /\ (\A r \in Reqs : RowShape(s.req[r])) /\ PagesOK(s.tree.value, s.free, s.req, s.kv)
  BY DEF Good
<1>2. s.req \in [Reqs -> ReqType]
  BY <1>1, StateFacts
<1>3. RowsOK(s.req)
  BY <1>1, <1>2 DEF RowsOK
<1>4. TreeShape(s.tree) /\ Locked(s.tree, Hold(s.req))
  BY <1>1 DEF TreeOK
<1>5. DOMAIN Hold(s.req) = Reqs /\ \A r \in Reqs : Hold(s.req)[r] = s.req[r].last_node
  BY DEF Hold
<1>6. \A r \in Reqs : s.req[r].last_node \in s.tree.nodes \cup {Root}
  BY <1>4, <1>5 DEF Locked
<1> QED
  BY <1>1, <1>2, <1>3, <1>4, <1>5, <1>6

\* The tree has the pages of the prefix that a request holds.
LEMMA HeldPaths ==
  ASSUME NEW t, TreeShape(t), NEW q \in ReqType, RowShape(q),
         q.last_node \in t.nodes \cup {Root}
  PROVE  \A i \in 1..(q.cache_protected_len \div PageSize) :
           PagePrefix(q.toks, i) \in DOMAIN t.value
<1>1. /\ q.toks \in Path /\ Len(q.toks) \in Nat /\ q.cache_protected_len \in Nat
      /\ q.cache_protected_len % PageSize = 0 /\ q.cache_protected_len =< Len(q.toks)
      /\ q.last_node \in Path /\ Len(q.last_node) = q.cache_protected_len
      /\ IsPrefix(q.last_node, q.toks)
  BY RowFacts
<1>2. ASSUME NEW i \in 1..(q.cache_protected_len \div PageSize)
      PROVE  PagePrefix(q.toks, i) \in DOMAIN t.value
  <2> DEFINE p == PagePrefix(q.toks, i)
  <2>1. i \in Int /\ i =< q.cache_protected_len \div PageSize
        /\ q.cache_protected_len \div PageSize \in Nat
    BY <1>1, PageDivision
  <2>2. i * PageSize =< q.cache_protected_len /\ i * PageSize \in Int
    BY <1>1, <2>1, PagePosition
  <2>3. i \in 0..(Len(q.toks) \div PageSize)
    <3> DEFINE a == q.cache_protected_len \div PageSize
               b == Len(q.toks) \div PageSize
    <3>1. a \in Nat /\ b \in Nat /\ a * PageSize = q.cache_protected_len
          /\ Len(q.toks) < b * PageSize + PageSize
      BY <1>1, PageDivision
    <3> HIDE DEF a, b
    <3>2. (b + 1) * PageSize = b * PageSize + PageSize
      BY <3>1, PageMonotone
    <3>3. b * PageSize \in Int /\ a * PageSize < (b + 1) * PageSize
      BY <1>1, <3>1, <3>2, PageSizeFacts
    <3>4. a < b + 1
      BY <3>1, <3>3, PageMonotone
    <3> QED
      BY <3>1, <3>4 DEF a, b
  <2>4. /\ p \in Path /\ Len(p) = i * PageSize /\ Len(p) % PageSize = 0
        /\ IsPrefix(p, q.toks) /\ p # Root
    BY <1>1, <2>3, PagePrefixFacts
  <2> HIDE DEF p
  <2>5. IsPrefix(p, q.last_node)
    BY <1>1, <2>2, <2>4, PrefixOrder
  <2>6. q.last_node \in t.nodes
    BY <2>4, <2>5, OnlyRootAboveRoot
  <2>7. IsPagePath(p)
    BY <2>4 DEF IsPagePath
  <2> QED
    BY <2>5, <2>6, <2>7, ShapeFacts DEF p
<1> QED
  BY <1>2

\* evict keeps the state good, and makes as many tokens available as it pops.
LEMMA EvictOK ==
  ASSUME NEW s, Good(s), NEW E, Cuttable(s.tree, E)
  PROVE  /\ Good(Evict(s, E))
         /\ Evict(s, E).req = s.req /\ Evict(s, E).fault = s.fault
         /\ Evict(s, E).tree = DeleteLeaves(s.tree, E)
         /\ Available(Evict(s, E)) = Available(s) + SizeOf(s.tree, E)
         /\ Available(s) \in Nat /\ SizeOf(s.tree, E) \in Nat
<1> DEFINE t == s.tree
           v == t.value
           V == ValuesOf(t, E)
           S == {v[p] : p \in V}
           x == FreePages(s, S)
           u == Evict(s, E)
           d == DeleteLeaves(t, E)
<1>1. /\ s \in StateType /\ RowsOK(s.req) /\ TreeOK(t, Hold(s.req))
      /\ TreeShape(t) /\ PagesOK(v, s.free, s.req, s.kv)
      /\ \A r \in Reqs : RowShape(s.req[r]) /\ s.req[r] \in ReqType
  BY GoodFacts
<1>2. /\ TreeOK(d, Hold(s.req)) /\ DOMAIN d.value = DOMAIN v \ V
      /\ \A p \in DOMAIN d.value : d.value[p] = v[p]
  BY <1>1, DeleteOK
<1>3. V \subseteq DOMAIN v
  BY DEF ValuesOf
<1>4. \A p \in DOMAIN v : v[p] \in Pages \ s.free /\ s.kv[v[p]] = p
  BY <1>1 DEF PagesOK, TreePagesOK
<1>5. S \in SUBSET Pages /\ S \cap s.free = {}
  BY <1>3, <1>4
<1> HIDE DEF S
<1>6. FreedIn(s, x, S)
  BY <1>1, <1>5, FreeFields
<1>7. u = [x EXCEPT !.tree = d]
  BY DEF Evict, S
<1> HIDE DEF x, u, d
<1>8. /\ x \in StateType /\ x.tree = s.tree /\ x.req = s.req /\ x.fault = s.fault
      /\ Freed(s.free, s.kv, S, x.free, x.kv)
  BY <1>6 DEF FreedIn
<1>9. d \in TreeType /\ TreeShape(d)
  BY <1>2 DEF TreeOK, TreeShape
<1>10. /\ u \in StateType /\ u.tree = d /\ u.req = s.req /\ u.fault = s.fault
       /\ u.free = x.free /\ u.kv = x.kv
  BY <1>7, <1>8, <1>9 DEF StateType
<1>11. Locked(d, Hold(s.req))
  BY <1>2 DEF TreeOK
<1>12. ASSUME NEW r \in Reqs
       PROVE  \A i \in 1..(s.req[r].cache_protected_len \div PageSize) :
                PagePrefix(s.req[r].toks, i) \in DOMAIN d.value
  <2>1. s.req[r].last_node \in d.nodes \cup {Root}
    BY <1>11 DEF Locked, Hold
  <2> QED
    BY <1>1, <1>9, <2>1, HeldPaths
<1>13. Drops(v, V, d.value)
  BY <1>2, <1>3 DEF Drops
<1>14. PagesOK(d.value, x.free, s.req, x.kv)
  BY <1>1, <1>8, <1>12, <1>13, PagesEvict DEF S
<1>15. Good(u)
  BY <1>1, <1>2, <1>10, <1>14 DEF Good
<1>16. /\ Available(u) = Available(s) + SizeOf(t, E)
       /\ Available(s) \in Nat /\ SizeOf(t, E) \in Nat
  <2>1. E \in SUBSET t.nodes
    BY DEF Cuttable
  <2>2. /\ IsFiniteSet(V) /\ SizeOf(t, E) = Cardinality(V) * PageSize
        /\ SizeOf(t, E) \in Nat
    BY <1>1, <2>1, SizeIsPages
  <2> DEFINE g == [p \in V |-> v[p]]
  <2>3. g \in [V -> S] /\ (\A p \in S : \E y \in V : g[y] = p)
    BY DEF S
  <2>4. \A y, z \in V : g[y] = g[z] => y = z
    BY <1>3, <1>4
  <2>5. IsFiniteSet(S) /\ Cardinality(S) = Cardinality(V)
    <3> HIDE DEF g, V
    <3> QED
      BY <2>2, <2>3, <2>4, SameSize
  <2>6. IsFiniteSet(s.free)
    BY <1>1, StateFacts
  <2>7. Cardinality(s.free \cup S) = Cardinality(s.free) + Cardinality(S)
    <3>1. Cardinality(s.free \cap S) = 0
      <4>1. s.free \cap S = {}
        BY <1>5
      <4> QED
        BY <4>1, FS_EmptySet, Zenon
    <3>2. Cardinality(s.free \cup S)
            = Cardinality(s.free) + Cardinality(S) - Cardinality(s.free \cap S)
      BY <2>5, <2>6, FS_Union
    <3>3. Cardinality(s.free) \in Nat /\ Cardinality(S) \in Nat
      BY <2>5, <2>6, FS_CardinalityType
    <3> QED
      BY <3>1, <3>2, <3>3
  <2>8. u.free = s.free \cup S
    BY <1>8, <1>10 DEF Freed
  <2> DEFINE a == Cardinality(s.free)
             b == Cardinality(V)
  <2>9. a \in Nat /\ b \in Nat
    BY <2>2, <2>6, FS_CardinalityType
  <2>10. Cardinality(u.free) = a + b
    BY <2>5, <2>7, <2>8
  <2>11. Available(s) = a * PageSize /\ Available(u) = (a + b) * PageSize
         /\ SizeOf(t, E) = b * PageSize
    BY <2>2, <2>10 DEF Available
  <2> HIDE DEF a, b, V
  <2>12. (a + b) * PageSize = a * PageSize + b * PageSize /\ a * PageSize \in Nat
    BY <2>9, PageSizeFacts
  <2> QED
    BY <2>2, <2>11, <2>12
<1> QED
  BY <1>10, <1>15, <1>16 DEF u, d

-----------------------------------------------------------------------------
(* Accounting                                                              *)

\* The paths of the pages that requests hold in the tree.
HeldPagePaths(rq) == PagePaths({rq[r].last_node : r \in Reqs})

\* The pages that requests own.
OwnSum(rq) == SumFunctionOnSet([r \in Reqs |-> Cardinality(OwnAt(rq[r]))], Reqs)

\* protected_size_ counts the pages of the prefixes that requests hold.
LEMMA ProtectedPages ==
  ASSUME NEW s, Good(s)
  PROVE  /\ ValuesOf(s.tree, Held(s.tree)) = HeldPagePaths(s.req)
         /\ IsFiniteSet(HeldPagePaths(s.req))
         /\ s.tree.protected_size_ = Cardinality(HeldPagePaths(s.req)) * PageSize
<1> DEFINE t == s.tree
           L == {s.req[r].last_node : r \in Reqs}
<1>1. /\ TreeShape(t) /\ TreeOK(t, Hold(s.req)) /\ DOMAIN Hold(s.req) = Reqs
      /\ \A r \in Reqs : /\ Hold(s.req)[r] = s.req[r].last_node
                         /\ s.req[r].last_node \in t.nodes \cup {Root}
                         /\ s.req[r] \in ReqType /\ RowShape(s.req[r])
  BY GoodFacts
<1>2. Sized(t) /\ Locked(t, Hold(s.req))
  BY <1>1 DEF TreeOK
<1>3. IsFiniteSet(Reqs)
  BY PoolAssumption
<1>4. /\ t.lock_ref \in [t.nodes -> Nat] /\ t.nodes \in SUBSET Path
      /\ \A n \in t.nodes : IsPagePath(n)
      /\ \A p : p \in DOMAIN t.value <=> IsPagePath(p) /\ \E n \in t.nodes : IsPrefix(p, n)
  BY <1>1, ShapeFacts
<1>5. L \in SUBSET Path /\ \A n \in L : n \in t.nodes \cup {Root}
  <2>1. ASSUME NEW r \in Reqs
        PROVE  s.req[r].last_node \in Path
    BY <1>1, RowFacts
  <2> QED
    BY <1>1, <2>1
<1>6. Held(t) \in SUBSET t.nodes
  BY DEF Held
<1>7. ASSUME NEW n \in t.nodes
      PROVE  n \in Held(t) <=> \E r \in Reqs : IsPrefix(n, s.req[r].last_node)
  <2> DEFINE R == {r \in Reqs : IsPrefix(n, s.req[r].last_node)}
  <2>1. t.lock_ref[n] = Cardinality({r \in DOMAIN Hold(s.req) : IsPrefix(n, Hold(s.req)[r])})
    BY <1>2 DEF Locked
  <2>2. {r \in DOMAIN Hold(s.req) : IsPrefix(n, Hold(s.req)[r])} = R
    BY <1>1
  <2>3. IsFiniteSet(R) /\ (Cardinality(R) = 0 <=> R = {}) /\ Cardinality(R) \in Nat
    BY <1>3, FS_Subset, FS_EmptySet, FS_CardinalityType
  <2>4. n \in Held(t) <=> Cardinality(R) > 0
    BY <2>1, <2>2 DEF Held
  <2>5. n \in Held(t) <=> R # {}
    BY <2>3, <2>4
  <2> QED
    BY <2>5
<1>8. ASSUME NEW p
      PROVE  p \in ValuesOf(t, Held(t)) <=> p \in PagePaths(L)
  <2>1. p \in ValuesOf(t, Held(t)) <=>
          p \in DOMAIN t.value /\ \E n \in Held(t) : OwnedBy(t.nodes, p, n)
    BY <1>1, <1>6, OwnedValues
  <2>2. p \in PagePaths(L) <=> IsPagePath(p) /\ \E n \in L : IsPrefix(p, n)
    BY <1>5, PagePathFacts
  <2>3. ASSUME p \in ValuesOf(t, Held(t))
        PROVE  p \in PagePaths(L)
    <3>1. PICK n \in Held(t) : p \in DOMAIN t.value /\ OwnedBy(t.nodes, p, n)
      BY <2>1, <2>3
    <3>2. IsPagePath(p) /\ p \in Path /\ n \in t.nodes /\ IsPrefix(p, n) /\ n \in Path
      BY <1>4, <1>6, <3>1 DEF OwnedBy, IsPagePath
    <3>3. PICK r \in Reqs : IsPrefix(n, s.req[r].last_node)
      BY <1>7, <3>1, <3>2
    <3>4. s.req[r].last_node \in L
      OBVIOUS
    <3>5. IsPrefix(p, s.req[r].last_node)
      BY <1>5, <3>2, <3>3, <3>4, PrefixOrder
    <3> HIDE DEF L
    <3> QED
      BY <2>2, <3>2, <3>4, <3>5
  <2>4. ASSUME p \in PagePaths(L)
        PROVE  p \in ValuesOf(t, Held(t))
    <3>1. IsPagePath(p) /\ \E n \in L : IsPrefix(p, n)
      BY <2>2, <2>4
    <3>2. PICK r \in Reqs : IsPrefix(p, s.req[r].last_node)
      BY <3>1
    <3> DEFINE h == s.req[r].last_node
    <3>3. p \in Path /\ p # Root
      BY <3>1 DEF IsPagePath
    <3>4. h \in t.nodes
      BY <1>1, <3>2, <3>3, OnlyRootAboveRoot
    <3>5. p \in DOMAIN t.value
      BY <1>4, <3>1, <3>2, <3>4
    <3>6. PICK c \in t.nodes : OwnedBy(t.nodes, p, c)
      BY <1>1, <3>5 DEF TreeShape
    <3>7. IsPrefix(c, h)
      BY <3>2, <3>4, <3>6 DEF OwnedBy
    <3>8. c \in Held(t)
      BY <1>7, <3>7
    <3> QED
      BY <2>1, <3>5, <3>6, <3>8
  <2> QED
    BY <2>3, <2>4
<1>9. ValuesOf(t, Held(t)) = PagePaths(L)
  BY <1>8
<1>10. /\ IsFiniteSet(ValuesOf(t, Held(t)))
       /\ SizeOf(t, Held(t)) = Cardinality(ValuesOf(t, Held(t))) * PageSize
  BY <1>1, <1>6, SizeIsPages
<1>11. t.protected_size_ = SizeOf(t, Held(t))
  BY <1>2 DEF Sized
<1> QED
  BY <1>9, <1>10, <1>11 DEF HeldPagePaths

\* The two counters between them count every page of the tree.
LEMMA TreePagesCount ==
  ASSUME NEW s, Good(s)
  PROVE  /\ IsFiniteSet(DOMAIN s.tree.value)
         /\ s.tree.evictable_size_ + s.tree.protected_size_
              = Cardinality(DOMAIN s.tree.value) * PageSize
         /\ s.tree.evictable_size_ \in Nat /\ s.tree.protected_size_ \in Nat
<1> DEFINE t == s.tree
<1>1. TreeShape(t) /\ TreeOK(t, Hold(s.req))
  BY GoodFacts
<1>2. Sized(t)
  BY <1>1 DEF TreeOK
<1>3. t.lock_ref \in [t.nodes -> Nat]
  BY <1>1, ShapeFacts
<1>4. /\ Held(t) \in SUBSET t.nodes /\ Loose(t) \in SUBSET t.nodes
      /\ Loose(t) \cap Held(t) = {}
      /\ Loose(t) \cup Held(t) = t.nodes
  <2>1. \A n \in t.nodes : t.lock_ref[n] = 0 \/ t.lock_ref[n] > 0
    BY <1>3
  <2>2. \A n \in t.nodes : ~(t.lock_ref[n] = 0 /\ t.lock_ref[n] > 0)
    BY <1>3
  <2> QED
    BY <2>1, <2>2 DEF Held, Loose
<1>5. /\ SizeOf(t, Loose(t) \cup Held(t)) = SizeOf(t, Loose(t)) + SizeOf(t, Held(t))
      /\ SizeOf(t, Loose(t)) \in Nat /\ SizeOf(t, Held(t)) \in Nat
  BY <1>1, <1>4, SizeUnion
<1>6. IsFiniteSet(ValuesOf(t, t.nodes))
      /\ SizeOf(t, t.nodes) = Cardinality(ValuesOf(t, t.nodes)) * PageSize
  BY <1>1, SizeIsPages
<1>7. ValuesOf(t, t.nodes) = DOMAIN t.value
  <2>1. \A p : p \in ValuesOf(t, t.nodes) <=>
                 p \in DOMAIN t.value /\ \E n \in t.nodes : OwnedBy(t.nodes, p, n)
    BY <1>1, OwnedValues
  <2>2. \A p \in DOMAIN t.value : \E n \in t.nodes : OwnedBy(t.nodes, p, n)
    BY <1>1 DEF TreeShape
  <2> QED
    BY <2>1, <2>2
<1> QED
  BY <1>2, <1>4, <1>5, <1>6, <1>7 DEF Sized

\* The own pages of the requests are as many as their own positions.
LEMMA OwnPagesCount ==
  ASSUME NEW s, Good(s)
  PROVE  LET own == UNION {{s.req[r].row[i] : i \in OwnAt(s.req[r])} : r \in Reqs}
         IN  IsFiniteSet(own) /\ Cardinality(own) = OwnSum(s.req)
<1> DEFINE P == [r \in Reqs |-> {s.req[r].row[i] : i \in OwnAt(s.req[r])}]
           w == [r \in Reqs |-> Cardinality(OwnAt(s.req[r]))]
<1>1. NoSharing(s.req)
  BY GoodFacts DEF PagesOK
<1>2. IsFiniteSet(Reqs)
  BY PoolAssumption
<1>3. ASSUME NEW r \in Reqs
      PROVE  IsFiniteSet(P[r]) /\ w[r] = Cardinality(P[r])
  <2> DEFINE T == OwnAt(s.req[r])
             g == [i \in T |-> s.req[r].row[i]]
             U == {s.req[r].row[i] : i \in T}
  <2>1. IsFiniteSet(T)
    <3>1. s.req[r].cache_protected_len \div PageSize \in 0..Len(s.req[r].row)
          /\ Len(s.req[r].row) \in Nat
      BY GoodFacts, RowFacts
    <3>2. s.req[r].cache_protected_len \div PageSize + 1 \in Int /\ Len(s.req[r].row) \in Int
      BY <3>1
    <3> QED
      BY <3>2, FS_Interval DEF OwnAt
  <2>2. g \in [T -> U] /\ \A y \in U : \E i \in T : g[i] = y
    OBVIOUS
  <2>3. \A i, j \in T : g[i] = g[j] => i = j
    BY <1>1 DEF NoSharing
  <2>4. IsFiniteSet(U) /\ Cardinality(U) = Cardinality(T)
    <3> HIDE DEF g, U, T
    <3> QED
      BY <2>1, <2>2, <2>3, SameSize
  <2>5. P[r] = U /\ w[r] = Cardinality(T)
    OBVIOUS
  <2> HIDE DEF P, w, U, T
  <2> QED
    BY <2>4, <2>5
<1>4. \A r, x \in Reqs : r # x => P[r] \cap P[x] = {}
  BY <1>1 DEF NoSharing
<1>5. Members(P, Reqs) = UNION {{s.req[r].row[i] : i \in OwnAt(s.req[r])} : r \in Reqs}
  BY DEF Members
<1>6. OwnSum(s.req) = SumFunctionOnSet(w, Reqs)
  BY DEF OwnSum
<1> HIDE DEF P, w
<1>7. Disjoint(P, Reqs)
  BY <1>3, <1>4 DEF Disjoint
<1>8. SumFunctionOnSet(w, Reqs) = Count(P, Reqs)
  BY <1>2, <1>3, <1>7, SumIsCount
<1>9. IsFiniteSet(Members(P, Reqs))
  BY <1>2, <1>7, CountFinite
<1> QED
  BY <1>5, <1>6, <1>8, <1>9 DEF Count

\* The tokens that are free or evictable are the ones no request holds.
LEMMA Accounting ==
  ASSUME NEW s, Good(s)
  PROVE  /\ NumPages = Cardinality(s.free) + Cardinality(DOMAIN s.tree.value) + OwnSum(s.req)
         /\ Budget(s.req) = Available(s) + s.tree.evictable_size_
         /\ Available(s) \in Nat /\ s.tree.evictable_size_ \in Nat
         /\ Cardinality(s.free) \in Nat /\ OwnSum(s.req) \in Nat
<1> DEFINE t == s.tree
           v == t.value
           T == {v[p] : p \in DOMAIN v}
           own == UNION {{s.req[r].row[i] : i \in OwnAt(s.req[r])} : r \in Reqs}
<1>1. /\ s \in StateType /\ RowsOK(s.req) /\ PagesOK(v, s.free, s.req, s.kv)
      /\ \A r \in Reqs : s.req[r] \in ReqType /\ RowShape(s.req[r])
  BY GoodFacts
<1>2. /\ IsFiniteSet(DOMAIN v)
      /\ t.evictable_size_ + t.protected_size_ = Cardinality(DOMAIN v) * PageSize
      /\ t.evictable_size_ \in Nat /\ t.protected_size_ \in Nat
  BY TreePagesCount
<1>3. /\ IsFiniteSet(HeldPagePaths(s.req))
      /\ t.protected_size_ = Cardinality(HeldPagePaths(s.req)) * PageSize
  BY ProtectedPages
<1>4. IsFiniteSet(own) /\ Cardinality(own) = OwnSum(s.req)
  BY OwnPagesCount
<1>5. \A p \in DOMAIN v : v[p] \in Pages \ s.free /\ s.kv[v[p]] = p
  BY <1>1 DEF PagesOK, TreePagesOK
<1>6. IsFiniteSet(T) /\ Cardinality(T) = Cardinality(DOMAIN v)
  <2> DEFINE D == DOMAIN v
             g == [p \in D |-> v[p]]
  <2>1. g \in [D -> T] /\ \A y \in T : \E p \in D : g[p] = y
    OBVIOUS
  <2>2. \A x, y \in D : g[x] = g[y] => x = y
    BY <1>5
  <2>3. IsFiniteSet(D)
    BY <1>2
  <2> HIDE DEF g, D, T
  <2>4. IsFiniteSet(T) /\ Cardinality(T) = Cardinality(D)
    BY <2>1, <2>2, <2>3, SameSize
  <2> QED
    BY <2>4 DEF D
<1>7. ASSUME NEW r \in Reqs, NEW i \in OwnAt(s.req[r])
      PROVE  /\ s.req[r].row[i] \in Pages /\ s.req[r].row[i] \notin s.free
             /\ \A p \in DOMAIN v : s.req[r].row[i] # v[p]
  <2>1. s.req[r].row[i] \in Pages
    BY <1>1, OwnPage
  <2> QED
    BY <1>1, <2>1 DEF PagesOK, OwnsRest
<1>8. s.free \subseteq Pages /\ IsFiniteSet(s.free) /\ Cardinality(Pages) = NumPages
  BY <1>1, StateFacts
<1>9. s.free \cap T = {} /\ (s.free \cup T) \cap own = {}
  BY <1>5, <1>7
<1>10. Pages = (s.free \cup T) \cup own
  <2>1. Conserved(v, s.free, s.req)
    BY <1>1 DEF PagesOK
  <2>2. Pages \subseteq (s.free \cup T) \cup own
    BY <2>1 DEF Conserved
  <2> QED
    BY <1>5, <1>7, <1>8, <2>2
<1> DEFINE a == Cardinality(s.free)
           b == Cardinality(DOMAIN v)
           c == OwnSum(s.req)
           h == Cardinality(HeldPagePaths(s.req))
<1> HIDE DEF own, T
<1>11. a \in Nat /\ b \in Nat /\ c \in Nat /\ h \in Nat
  BY <1>2, <1>3, <1>4, <1>8, FS_CardinalityType
<1>12. IsFiniteSet(s.free \cup T) /\ Cardinality(s.free \cup T) = a + b
  <2>1. Cardinality(s.free \cap T) = 0
    BY <1>9, FS_EmptySet, Zenon
  <2>2. IsFiniteSet(s.free \cup T)
        /\ Cardinality(s.free \cup T) = Cardinality(s.free) + Cardinality(T)
                                         - Cardinality(s.free \cap T)
    BY <1>6, <1>8, FS_Union
  <2> QED
    BY <1>6, <1>11, <2>1, <2>2
<1>13. Cardinality((s.free \cup T) \cup own) = a + b + c
  <2> DEFINE X == s.free \cup T
  <2>1. Cardinality(X \cap own) = 0
    BY <1>9, FS_EmptySet, Zenon
  <2>2. IsFiniteSet(X) /\ Cardinality(X) = a + b
    BY <1>12
  <2> HIDE DEF X
  <2>3. Cardinality(X \cup own) = Cardinality(X) + Cardinality(own) - Cardinality(X \cap own)
    BY <1>4, <2>2, FS_Union
  <2>4. Cardinality(X \cup own) = a + b + c
    BY <1>4, <1>11, <2>1, <2>2, <2>3
  <2> QED
    BY <2>4 DEF X
<1>14. NumPages = a + b + c
  BY <1>8, <1>10, <1>13
<1>15. Budget(s.req) = (NumPages - h - c) * PageSize
  BY DEF Budget, OwnSum, HeldPagePaths
<1>16. Available(s) = a * PageSize
  BY DEF Available
<1>17. /\ t.evictable_size_ + t.protected_size_ = b * PageSize
       /\ t.protected_size_ = h * PageSize
  BY <1>2, <1>3
<1> HIDE DEF a, b, c, h
<1>18. ASSUME NEW A \in Nat, NEW D \in Nat, NEW H \in Nat, NEW K \in Nat, NEW e \in Nat,
              e + H * PageSize = D * PageSize
       PROVE  (((A + D) + K) - H - K) * PageSize = A * PageSize + e
  <2>1. ((A + D) + K) - H - K = A + (D - H)
    OBVIOUS
  <2>2. (A + (D - H)) * PageSize = A * PageSize + (D * PageSize - H * PageSize)
    BY PageSizeFacts
  <2>3. A * PageSize \in Nat /\ D * PageSize \in Nat /\ H * PageSize \in Nat
    BY PageSizeFacts
  <2> QED
    BY <1>18, <2>1, <2>2, <2>3
<1>19. (((a + b) + c) - h - c) * PageSize = a * PageSize + t.evictable_size_
  BY <1>2, <1>11, <1>17, <1>18
<1>20. Budget(s.req) = Available(s) + t.evictable_size_
  BY <1>14, <1>15, <1>16, <1>19
<1>21. Available(s) \in Nat
  BY <1>11, <1>16, PageSizeFacts
<1> QED
  BY <1>2, <1>11, <1>14, <1>20, <1>21 DEF a, b, c

\* An eviction that asks for n tokens gets them, or drains the tree.
LEMMA EvictToOK ==
  ASSUME NEW s, Good(s), NEW n \in Int, NEW u \in EvictToFreeTokens(s, n)
  PROVE  /\ Good(u) /\ u.req = s.req /\ u.fault = s.fault
         /\ Available(u) >= n \/ Available(u) = Budget(s.req)
         /\ Available(u) \in Nat
<1> DEFINE t == s.tree
           want == n - Available(s)
<1>1. /\ Budget(s.req) = Available(s) + t.evictable_size_
      /\ Available(s) \in Nat /\ t.evictable_size_ \in Nat
  BY Accounting
<1>2. TreeOK(t, Hold(s.req)) /\ TreeShape(t) /\ LeavesExact(t)
  BY GoodFacts DEF TreeOK
<1>3. PICK E \in EvictChoices(t, want) : u = Evict(s, E)
  BY DEF EvictToFreeTokens
<1>4. Cuttable(t, E)
  BY <1>2, <1>3, EvictChoicesOK
<1>5. /\ Good(u) /\ u.req = s.req /\ u.fault = s.fault
      /\ Available(u) = Available(s) + SizeOf(t, E) /\ SizeOf(t, E) \in Nat
  BY <1>3, <1>4, EvictOK
<1>6. SizeOf(t, Drained(t)) = t.evictable_size_
  BY <1>2, DrainedIsLoose
<1>7. want \in Int
  BY <1>1
<1> HIDE DEF want
<1>8. want =< 0 \/ SizeOf(t, E) >= want \/ E = Drained(t)
  BY <1>3, <1>6 DEF EvictChoices
<1>9. Available(u) >= n \/ Available(u) = Budget(s.req)
  <2>1. CASE want =< 0
    BY <1>1, <1>5, <2>1 DEF want
  <2>2. CASE SizeOf(t, E) >= want
    BY <1>1, <1>5, <2>2 DEF want
  <2>3. CASE E = Drained(t)
    <3>1. SizeOf(t, E) = t.evictable_size_
      BY <1>6, <2>3
    <3> QED
      BY <1>1, <1>5, <3>1
  <2> QED
    BY <1>8, <2>1, <2>2, <2>3
<1>10. Available(u) \in Nat
  BY <1>1, <1>5
<1> QED
  BY <1>5, <1>9, <1>10

\* A drained tree leaves everything that no request holds.
LEMMA EvictAllOK ==
  ASSUME NEW s, Good(s)
  PROVE  /\ Good(EvictAll(s)) /\ EvictAll(s).req = s.req /\ EvictAll(s).fault = s.fault
         /\ Available(EvictAll(s)) = Budget(s.req)
<1> DEFINE t == s.tree
<1>1. /\ Budget(s.req) = Available(s) + t.evictable_size_
      /\ Available(s) \in Nat /\ t.evictable_size_ \in Nat
  BY Accounting
<1>2. TreeOK(t, Hold(s.req)) /\ TreeShape(t) /\ LeavesExact(t)
  BY GoodFacts DEF TreeOK
<1>3. Cuttable(t, Drained(t))
  BY <1>2, EvictChoicesOK
<1>4. SizeOf(t, Drained(t)) = t.evictable_size_
  BY <1>2, DrainedIsLoose
<1>5. EvictAll(s) = Evict(s, Drained(t))
  BY DEF EvictAll
<1>6. /\ Good(Evict(s, Drained(t)))
      /\ Evict(s, Drained(t)).req = s.req /\ Evict(s, Drained(t)).fault = s.fault
      /\ Available(Evict(s, Drained(t))) = Available(s) + SizeOf(t, Drained(t))
  BY <1>3, EvictOK
<1> QED
  BY <1>1, <1>4, <1>5, <1>6

-----------------------------------------------------------------------------
(* One request settles                                                     *)

\* u is s after request r has settled, giving the pages S back.
SettledTo(s, u, r, S) ==
  /\ u \in StateType /\ RowShape(u.req[r])
  /\ \A x \in Reqs : x # r => u.req[x] = s.req[x]
  /\ TreeOK(u.tree, [Hold(s.req) EXCEPT ![r] = u.req[r].last_node])
  /\ Settles(s.tree.value, u.tree.value, s.req[r], u.req[r], S)
  /\ Freed(s.free, s.kv, S, u.free, u.kv)

\* Settling keeps the state good.
LEMMA SettleOK ==
  ASSUME NEW s, Good(s), NEW r \in Reqs, NEW u, NEW S, SettledTo(s, u, r, S)
  PROVE  Good(u)
<1>1. /\ u \in StateType /\ RowShape(u.req[r])
      /\ \A x \in Reqs : x # r => u.req[x] = s.req[x]
      /\ TreeOK(u.tree, [Hold(s.req) EXCEPT ![r] = u.req[r].last_node])
      /\ Settles(s.tree.value, u.tree.value, s.req[r], u.req[r], S)
      /\ Freed(s.free, s.kv, S, u.free, u.kv)
  BY DEF SettledTo
<1>2. /\ RowsOK(s.req) /\ PagesOK(s.tree.value, s.free, s.req, s.kv)
      /\ \A x \in Reqs : RowShape(s.req[x])
  BY GoodFacts
<1>3. Hold(u.req) = [Hold(s.req) EXCEPT ![r] = u.req[r].last_node]
  BY <1>1 DEF Hold
<1>4. TreeOK(u.tree, Hold(u.req))
  BY <1>1, <1>3
<1>5. \A x \in Reqs : RowShape(u.req[x])
  BY <1>1, <1>2
<1>6. PagesOK(u.tree.value, u.free, u.req, u.kv)
  BY <1>1, <1>2, PagesSettle
<1> QED
  BY <1>1, <1>4, <1>5, <1>6 DEF Good

\* The page-aligned part of the first n tokens.
LEMMA KeyFacts ==
  ASSUME NEW q \in ReqType, RowShape(q), NEW n \in Nat,
         q.cache_protected_len =< n, n =< Len(q.toks)
  PROVE  LET key == PageAligned(SubSeq(q.toks, 1, n))
         IN  /\ key \in Path /\ Len(key) = FloorAlign(n) /\ Len(key) % PageSize = 0
             /\ Len(key) \in Nat /\ Len(key) =< n
             /\ key = SubSeq(q.toks, 1, Len(key))
             /\ q.cache_protected_len =< Len(key)
             /\ IsPrefix(key, q.toks) /\ IsPrefix(q.last_node, key)
             /\ Len(key) \div PageSize \in Nat
             /\ \A i \in 0..(Len(key) \div PageSize) :
                  PagePrefix(key, i) = PagePrefix(q.toks, i)
<1> DEFINE a == SubSeq(q.toks, 1, n)
           f == FloorAlign(n)
           key == SubSeq(a, 1, f)
           c == q.cache_protected_len
<1>1. /\ q.toks \in Path /\ Len(q.toks) \in Nat /\ c \in Nat /\ c % PageSize = 0
      /\ q.last_node \in Path /\ Len(q.last_node) = c /\ IsPrefix(q.last_node, q.toks)
  BY RowFacts
<1>2. f \in Nat /\ f % PageSize = 0 /\ f =< n /\ c =< f
  BY <1>1, FloorFacts
<1> HIDE DEF f
<1>3. n \in 0..Len(q.toks)
  BY <1>1
<1>4. a \in Path /\ Len(a) = n /\ \A m \in 0..n : SubSeq(a, 1, m) = SubSeq(q.toks, 1, m)
  BY <1>1, <1>3, Cut
<1> HIDE DEF a
<1>5. key = SubSeq(q.toks, 1, f) /\ f \in 0..Len(q.toks)
  BY <1>1, <1>2, <1>4
<1>7. PageAligned(a) = key
  BY <1>4 DEF PageAligned, f
<1> HIDE DEF key
<1>6. /\ key \in Path /\ Len(key) = f /\ IsPrefix(key, q.toks)
      /\ \A m \in 0..f : SubSeq(key, 1, m) = SubSeq(q.toks, 1, m)
  <2>1. LET b == SubSeq(q.toks, 1, f)
        IN  /\ b \in Path /\ Len(b) = f /\ IsPrefix(b, q.toks)
            /\ \A m \in 0..f : SubSeq(b, 1, m) = SubSeq(q.toks, 1, m)
    BY <1>1, <1>5, Cut
  <2> QED
    BY <1>5, <2>1
<1>8. IsPrefix(q.last_node, key)
  BY <1>1, <1>2, <1>6, PrefixOrder
<1>9. f \div PageSize \in Nat
  BY <1>2, PageDivision
<1>10. ASSUME NEW i \in 0..(f \div PageSize)
       PROVE  PagePrefix(key, i) = PagePrefix(q.toks, i)
  <2>1. i \in Int /\ i =< f \div PageSize /\ i >= 0
    BY <1>9
  <2>2. i * PageSize =< f /\ i * PageSize \in Int
    BY <1>2, <2>1, PagePosition
  <2>3. i * PageSize \in 0..f
    BY <1>2, <2>1, <2>2, PageSizeFacts
  <2> QED
    BY <1>6, <2>3 DEF PagePrefix
<1> QED
  BY <1>1, <1>2, <1>5, <1>6, <1>7, <1>8, <1>9, <1>10 DEF a, f

\* Own page i of a request, up to kv_len, was computed from the first i pages.
LEMMA WholePage ==
  ASSUME NEW q \in ReqType, RowShape(q), NEW i \in OwnAt(q), i * PageSize =< q.kv_len
  PROVE  Content(q, i) = PagePrefix(q.toks, i)
<1>1. i \in 1..Len(q.row) /\ q.kv_len \in Nat /\ i * PageSize \in Int
  BY OwnPosition, RowFacts, PageSizeFacts
<1>2. Min({i * PageSize, q.kv_len}) = i * PageSize
  BY <1>1, MinPair
<1> QED
  BY <1>2, Zenon DEF Content, PagePrefix

\* Request q gives its pages past d and up to len tokens to the tree.
Gives(v, w, q, d, len) ==
  /\ DOMAIN v \subseteq DOMAIN w /\ \A p \in DOMAIN v : w[p] = v[p]
  /\ \A p \in DOMAIN w \ DOMAIN v : \E i \in OwnAt(q) :
       d < i * PageSize /\ i * PageSize =< len /\ w[p] = q.row[i] /\ Content(q, i) = p
  /\ \A i \in OwnAt(q) :
       d < i * PageSize /\ i * PageSize =< len => \E p \in DOMAIN w \ DOMAIN v : w[p] = q.row[i]
  /\ \A i \in 1..(len \div PageSize) : PagePrefix(q.toks, i) \in DOMAIN w

\* Insert of the key of the first n tokens of a request.
LEMMA GiveOK ==
  ASSUME NEW s, Good(s), NEW r \in Reqs, NEW n \in Nat,
         s.req[r].cache_protected_len =< n, n =< s.req[r].kv_len
  PROVE  LET q == s.req[r]
             key == PageAligned(SubSeq(q.toks, 1, n))
             m == Matched(s.tree, key)
             u == Insert(s.tree, key, q.row)
         IN  /\ TreeOK(u, Hold(s.req)) /\ key \in u.nodes \cup {Root}
             /\ Len(m) \in Nat /\ Len(m) % PageSize = 0 /\ Len(m) =< Len(key)
             /\ q.cache_protected_len =< Len(m)
             /\ Gives(s.tree.value, u.value, q, Len(m), Len(key))
<1> DEFINE q == s.req[r]
           key == PageAligned(SubSeq(q.toks, 1, n))
           t == s.tree
           m == Matched(t, key)
           u == Insert(t, key, q.row)
<1>1. /\ TreeShape(t) /\ TreeOK(t, Hold(s.req)) /\ q \in ReqType /\ RowShape(q)
      /\ q.last_node \in t.nodes \cup {Root}
  BY GoodFacts
<1>2. /\ q.toks \in Path /\ Len(q.toks) \in Nat /\ q.row \in Seq(Pages)
      /\ Len(q.row) \in Nat /\ q.kv_len \in Nat /\ q.cache_protected_len \in Nat
      /\ q.cache_protected_len % PageSize = 0 /\ q.kv_len =< Len(q.toks)
      /\ q.last_node \in Path /\ Len(q.last_node) = q.cache_protected_len
      /\ Len(q.row) * PageSize = CeilAlign(Covered(q)) /\ Covered(q) \in Nat
  BY <1>1, RowFacts
<1>3. /\ key \in Path /\ Len(key) % PageSize = 0 /\ Len(key) \in Nat /\ Len(key) =< n
      /\ IsPrefix(q.last_node, key) /\ q.cache_protected_len =< Len(key)
      /\ Len(key) \div PageSize \in Nat
      /\ \A i \in 0..(Len(key) \div PageSize) : PagePrefix(key, i) = PagePrefix(q.toks, i)
  <2>1. n =< Len(q.toks)
    BY <1>2
  <2> QED
    BY <1>1, <2>1, KeyFacts
<1> HIDE DEF key
<1>4. /\ m \in Path /\ Len(m) % PageSize = 0 /\ IsPrefix(m, key)
      /\ \A p \in DOMAIN t.value : IsPrefix(p, key) => IsPrefix(p, m)
  BY <1>1, <1>3, MatchedFacts
<1>5. Len(m) \in Nat /\ Len(m) =< Len(key)
  BY <1>3, <1>4, PrefixOrder
<1>6. q.cache_protected_len =< Len(m)
  <2>1. CASE q.last_node = Root
    <3>1. q.cache_protected_len = 0
      BY <1>2, <2>1, RootFacts
    <3> QED
      BY <1>5, <3>1
  <2>2. CASE q.last_node \in t.nodes
    <3>1. q.last_node \in DOMAIN t.value
      BY <1>1, <2>2, ShapeFacts
    <3>2. IsPrefix(q.last_node, m)
      BY <1>3, <1>4, <3>1
    <3> QED
      BY <1>2, <1>4, <3>2, PrefixOrder
  <2> QED
    BY <1>1, <2>1, <2>2
<1> HIDE DEF m
<1>7. Len(key) =< Len(q.row) * PageSize
  <2>1. q.kv_len =< Covered(q)
    BY <1>2 DEF Covered
  <2>2. Covered(q) =< CeilAlign(Covered(q)) /\ CeilAlign(Covered(q)) \in Nat
    BY <1>2, CeilFacts
  <2> QED
    BY <1>2, <1>3, <2>1, <2>2
<1>8. ASSUME NEW i \in Int, i >= 1, i =< Len(key) \div PageSize
      PROVE  i \in 1..Len(q.row) /\ q.row[i] \in Nat
  <2> DEFINE b == Len(key) \div PageSize
             k == Len(q.row)
  <2>1. b \in Nat /\ Len(key) = b * PageSize /\ k \in Nat
    BY <1>2, <1>3, PageDivision
  <2>2. b * PageSize =< k * PageSize
    BY <1>7, <2>1
  <2>3. i =< b
    BY <1>8
  <2> HIDE DEF b, k
  <2>4. b =< k
    BY <2>1, <2>2, PageMonotone
  <2>5. i \in 1..k
    BY <1>8, <2>1, <2>3, <2>4
  <2>6. Pages \subseteq Nat
    BY PoolAssumption DEF Pages
  <2>7. i \in 1..Len(q.row)
    BY <2>5 DEF k
  <2>8. q.row[i] \in Pages
    BY <1>2, <2>7
  <2> QED
    BY <2>6, <2>7, <2>8
<1>9. RowCovers(q.row, m, key)
  <2>1. Len(m) \div PageSize \in Nat
    BY <1>5, PageDivision
  <2>2. ASSUME NEW i \in (Len(m) \div PageSize + 1)..(Len(key) \div PageSize)
        PROVE  q.row[i] \in Nat
    <3>1. i \in Int /\ i >= 1 /\ i =< Len(key) \div PageSize
      BY <1>3, <2>1
    <3> QED
      BY <1>8, <3>1
  <2> QED
    BY <2>2 DEF RowCovers
<1>10. /\ TreeOK(u, Hold(s.req)) /\ key \in u.nodes \cup {Root}
       /\ DOMAIN u.value = DOMAIN t.value \cup NewPaths(m, key)
       /\ NewPaths(m, key) \cap DOMAIN t.value = {}
       /\ \A p \in DOMAIN t.value : u.value[p] = t.value[p]
       /\ \A p \in NewPaths(m, key) : u.value[p] = q.row[Len(p) \div PageSize]
  BY <1>1, <1>3, <1>9, InsertOK DEF m
<1> HIDE DEF u
<1>11. TreeShape(u)
  BY <1>10 DEF TreeOK
<1>12. \A p : p \in NewPaths(m, key) <=> IsPagePath(p) /\ IsPrefix(p, key) /\ Len(m) < Len(p)
  BY <1>3, <1>4, NewPathFacts
\* Each new path belongs to one position, and each such position to a path.
<1>13. ASSUME NEW p \in NewPaths(m, key)
       PROVE  \E i \in OwnAt(q) :
                /\ Len(m) < i * PageSize /\ i * PageSize =< Len(key)
                /\ u.value[p] = q.row[i] /\ Content(q, i) = p
  <2>1. IsPagePath(p) /\ IsPrefix(p, key) /\ Len(m) < Len(p)
    BY <1>12
  <2>2. p \in Path /\ Len(p) % PageSize = 0 /\ Len(p) \in Nat /\ Len(p) =< Len(key)
    BY <1>3, <2>1, PrefixOrder DEF IsPagePath
  <2> DEFINE i == Len(p) \div PageSize
  <2>3. i \in 0..(Len(key) \div PageSize) /\ p = PagePrefix(key, i)
    BY <1>3, <2>1, <2>2, AlignedPrefix
  <2>4. i \in Nat /\ i * PageSize = Len(p)
    BY <2>2, PageDivision
  <2>5. u.value[p] = q.row[i]
    BY <1>10
  <2> HIDE DEF i
  <2>6. i >= 1 /\ i =< Len(key) \div PageSize /\ i \in Int
    <3>1. i # 0
      <4>1. 0 * PageSize = 0
        BY PageSizeFacts
      <4>2. Len(p) # 0
        BY <1>5, <2>1, <2>2
      <4> QED
        BY <2>4, <4>1, <4>2
    <3> QED
      BY <1>3, <2>3, <2>4, <3>1
  <2>7. i \in 1..Len(q.row)
    BY <1>8, <2>6
  <2>8. q.cache_protected_len < i * PageSize
    BY <1>2, <1>5, <1>6, <2>1, <2>2, <2>4
  <2>9. i \in OwnAt(q)
    BY <1>1, <2>7, <2>8, OwnPosition
  <2>10. i * PageSize =< q.kv_len
    BY <1>2, <1>3, <2>2, <2>4
  <2>11. Content(q, i) = PagePrefix(q.toks, i)
    BY <1>1, <2>9, <2>10, WholePage
  <2>12. PagePrefix(q.toks, i) = p
    BY <1>3, <2>3
  <2> QED
    BY <2>1, <2>2, <2>4, <2>5, <2>9, <2>11, <2>12
<1>14. ASSUME NEW i \in OwnAt(q), Len(m) < i * PageSize, i * PageSize =< Len(key)
       PROVE  \E p \in NewPaths(m, key) : u.value[p] = q.row[i]
  <2>1. i \in 1..Len(q.row)
    BY <1>1, OwnPosition
  <2>2. i \in Int /\ i =< Len(key) \div PageSize
    BY <1>3, <1>14, <2>1, PagePosition
  <2>3. i \in 0..(Len(key) \div PageSize) /\ i # 0
    BY <1>3, <2>1, <2>2
  <2> DEFINE p == PagePrefix(key, i)
  <2>4. /\ p \in Path /\ Len(p) = i * PageSize /\ Len(p) % PageSize = 0
        /\ Len(p) \div PageSize = i /\ IsPrefix(p, key) /\ p # Root
    BY <1>3, <2>3, PagePrefixFacts
  <2> HIDE DEF p
  <2>5. p \in NewPaths(m, key)
    BY <1>12, <1>14, <2>4 DEF IsPagePath
  <2> QED
    BY <1>10, <2>4, <2>5
<1>15. ASSUME NEW i \in 1..(Len(key) \div PageSize)
       PROVE  PagePrefix(q.toks, i) \in DOMAIN u.value
  <2>1. i \in 0..(Len(key) \div PageSize) /\ i # 0
    BY <1>3
  <2> DEFINE p == PagePrefix(key, i)
  <2>2. p \in Path /\ Len(p) % PageSize = 0 /\ IsPrefix(p, key) /\ p # Root
    BY <1>3, <2>1, PagePrefixFacts
  <2>3. p = PagePrefix(q.toks, i)
    BY <1>3, <2>1
  <2> HIDE DEF p
  <2>4. key \in u.nodes
    BY <1>10, <2>2, OnlyRootAboveRoot
  <2>5. IsPagePath(p)
    BY <2>2 DEF IsPagePath
  <2>6. p \in DOMAIN u.value
    BY <1>11, <2>2, <2>4, <2>5, ShapeFacts
  <2> QED
    BY <2>3, <2>6
<1>16. DOMAIN u.value \ DOMAIN t.value = NewPaths(m, key)
  BY <1>10
<1>17. Gives(t.value, u.value, q, Len(m), Len(key))
  BY <1>10, <1>13, <1>14, <1>15, <1>16 DEF Gives
<1> QED
  BY <1>5, <1>4, <1>6, <1>10, <1>17 DEF key, m, u

-----------------------------------------------------------------------------
(* cache_unfinished_req                                                    *)

\* The fields of a request that its cache operations leave alone.
SameCore(q, q2) ==
  /\ q2.st = q.st /\ q2.plen = q.plen /\ q2.max_new = q.max_new
  /\ q2.toks = q.toks /\ q2.known = q.known

\* A new row, protected length and node for one request.
Reseats(s, u, r, T, e, R, c, m) ==
  /\ s \in StateType /\ r \in Reqs /\ T \in TreeType /\ e \in SUBSET STRING
  /\ R \in Seq(Pages) /\ c \in Nat /\ m \in Path
  /\ u = [s EXCEPT !.tree = T, !.fault = e, !.req[r].row = R,
                   !.req[r].cache_protected_len = c, !.req[r].last_node = m]

Reseated(s, u, r, T, e, R, c, m) ==
  /\ u \in StateType /\ u.tree = T /\ u.fault = e /\ u.free = s.free /\ u.kv = s.kv
  /\ \A x \in Reqs : x # r => u.req[x] = s.req[x]
  /\ SameCore(s.req[r], u.req[r])
  /\ u.req[r].row = R /\ u.req[r].cache_protected_len = c
  /\ u.req[r].last_node = m /\ u.req[r].kv_len = s.req[r].kv_len
  /\ u.req[r].fill = s.req[r].fill

\* Only the named fields change.
LEMMA Reseat ==
  ASSUME NEW s, NEW u, NEW r, NEW T, NEW e, NEW R, NEW c, NEW m,
         Reseats(s, u, r, T, e, R, c, m)
  PROVE  Reseated(s, u, r, T, e, R, c, m)
<1> SUFFICES ASSUME s \in StateType, r \in Reqs, T \in TreeType, e \in SUBSET STRING,
                    R \in Seq(Pages), c \in Nat, m \in Path,
                    u = [s EXCEPT !.tree = T, !.fault = e, !.req[r].row = R,
                                  !.req[r].cache_protected_len = c, !.req[r].last_node = m]
             PROVE  Reseated(s, u, r, T, e, R, c, m)
  BY DEF Reseats
<1> DEFINE q2 == [s.req[r] EXCEPT !.row = R, !.cache_protected_len = c, !.last_node = m]
           rq2 == [s.req EXCEPT ![r] = q2]
<1>1. s.req \in [Reqs -> ReqType] /\ s.req[r] \in ReqType
  BY StateFacts
<1>2. /\ q2 \in ReqType /\ SameCore(s.req[r], q2) /\ q2.row = R /\ q2.cache_protected_len = c
      /\ q2.last_node = m /\ q2.kv_len = s.req[r].kv_len /\ q2.fill = s.req[r].fill
  BY <1>1 DEF ReqType, SameCore
<1>3. u = [s EXCEPT !.tree = T, !.fault = e, !.req = rq2]
  <2> DEFINE s1 == [s EXCEPT !.tree = T, !.fault = e]
             s2 == [s1 EXCEPT !.req[r].row = R]
             s3 == [s2 EXCEPT !.req[r].cache_protected_len = c]
             s4 == [s3 EXCEPT !.req[r].last_node = m]
             qA == [s.req[r] EXCEPT !.row = R]
             qB == [qA EXCEPT !.cache_protected_len = c]
             rA == [s.req EXCEPT ![r] = qA]
             rB == [s.req EXCEPT ![r] = qB]
  <2>1. u = s4
    OBVIOUS
  <2>2. s1 \in StateType /\ s1.req = s.req
    BY DEF StateType
  <2>3. q2 = [qB EXCEPT !.last_node = m]
    OBVIOUS
  <2>4. rA \in [Reqs -> ReqType] /\ rA[r] = qA /\ rB \in [Reqs -> ReqType] /\ rB[r] = qB
    BY <1>1 DEF ReqType
  <2>5. [rA EXCEPT ![r] = qB] = rB /\ [rB EXCEPT ![r] = q2] = rq2
    BY <1>1
  <2> HIDE DEF s1, rA, rB, qA, qB, q2, rq2
  <2>6. s2 = [s1 EXCEPT !.req = rA] /\ s2 \in StateType /\ s2.req = rA
    BY <2>2, <2>4 DEF StateType, rA, qA
  <2>7. s3 = [s2 EXCEPT !.req = rB] /\ s3 \in StateType /\ s3.req = rB
    <3> HIDE DEF s2
    <3> QED
      BY <2>4, <2>5, <2>6 DEF StateType, qB
  <2>8. s4 = [s3 EXCEPT !.req = rq2]
    <3> HIDE DEF s3
    <3> QED
      BY <2>3, <2>4, <2>5, <2>7 DEF StateType
  <2> HIDE DEF s2, s3, s4
  <2> QED
    BY <2>1, <2>2, <2>6, <2>7, <2>8 DEF StateType, s1
<1> HIDE DEF q2
<1>4. rq2 \in [Reqs -> ReqType] /\ rq2[r] = q2 /\ \A x \in Reqs : x # r => rq2[x] = s.req[x]
  BY <1>1, <1>2
<1> HIDE DEF rq2
<1>5. /\ u \in StateType /\ u.tree = T /\ u.fault = e /\ u.free = s.free /\ u.kv = s.kv
      /\ u.req = rq2
  BY <1>3, <1>4 DEF StateType
<1> QED
  BY <1>2, <1>4, <1>5 DEF Reseated

\* An update of the protected part of a row, as cache_unfinished_req does it.
LEMMA CacheOK ==
  ASSUME NEW s, Good(s), NEW r \in Reqs, NEW n \in Nat,
         s.req[r].cache_protected_len =< n, n =< s.req[r].kv_len
  PROVE  LET u == CacheUnfinishedReq(s, r, n)
         IN  /\ Good(u) /\ u.fault = s.fault
             /\ \A x \in Reqs : x # r => u.req[x] = s.req[x]
             /\ SameCore(s.req[r], u.req[r])
             /\ u.req[r].kv_len = s.req[r].kv_len /\ u.req[r].fill = s.req[r].fill
             /\ u.req[r].cache_protected_len = FloorAlign(n)
             /\ Len(u.req[r].row) = Len(s.req[r].row)
<1> DEFINE q == s.req[r]
           key == PageAligned(SubSeq(q.toks, 1, n))
           t == s.tree
           d == Len(Matched(t, key))
           t1 == Insert(t, key, q.row)
           m == Matched(t1, key)
           s1 == FreeSegment(s, q.row, q.cache_protected_len, d)
           T == IncLockRef(DecLockRef(SplitNode(t1, m), q.last_node), m)
           e == s1.fault \cup IF m # key THEN {"rematch shorter than key"} ELSE {}
           R == [i \in DOMAIN q.row |->
                   IF i * PageSize > q.cache_protected_len /\ i * PageSize =< Len(m)
                     THEN t1.value[PagePrefix(key, i)] ELSE q.row[i]]
           u == CacheUnfinishedReq(s, r, n)
           hold == Hold(s.req)
<1>1. /\ s \in StateType /\ TreeShape(t) /\ TreeOK(t, hold) /\ q \in ReqType /\ RowShape(q)
      /\ PagesOK(t.value, s.free, s.req, s.kv) /\ RowsOK(s.req)
      /\ DOMAIN hold = Reqs /\ hold[r] = q.last_node
  BY GoodFacts
<1>2. /\ q.toks \in Path /\ Len(q.toks) \in Nat /\ q.row \in Seq(Pages)
      /\ Len(q.row) \in Nat /\ q.kv_len \in Nat /\ q.cache_protected_len \in Nat
      /\ q.cache_protected_len % PageSize = 0 /\ q.kv_len =< Len(q.toks)
      /\ q.last_node = SubSeq(q.toks, 1, q.cache_protected_len)
      /\ Len(q.row) * PageSize = CeilAlign(Covered(q)) /\ Covered(q) \in Nat
  BY <1>1, RowFacts
<1>3. /\ key \in Path /\ Len(key) = FloorAlign(n) /\ Len(key) % PageSize = 0
      /\ Len(key) \in Nat /\ Len(key) =< n /\ key = SubSeq(q.toks, 1, Len(key))
      /\ q.cache_protected_len =< Len(key) /\ Len(key) \div PageSize \in Nat
      /\ \A i \in 0..(Len(key) \div PageSize) : PagePrefix(key, i) = PagePrefix(q.toks, i)
  <2>1. n =< Len(q.toks)
    BY <1>2
  <2> QED
    BY <1>1, <2>1, KeyFacts
<1>4. /\ TreeOK(t1, hold) /\ key \in t1.nodes \cup {Root}
      /\ d \in Nat /\ d % PageSize = 0 /\ d =< Len(key) /\ q.cache_protected_len =< d
      /\ Gives(t.value, t1.value, q, d, Len(key))
  BY GiveOK
<1>5. u = [s1 EXCEPT !.tree = T, !.fault = e, !.req[r].row = R,
                     !.req[r].cache_protected_len = Len(m), !.req[r].last_node = m]
  <2>1. u = [s1 EXCEPT
                !.tree = IncLockRef(DecLockRef(SplitNode(t1, m), q.last_node), m),
                !.fault = @ \cup IF m # key THEN {"rematch shorter than key"} ELSE {},
                !.req[r].row = R,
                !.req[r].cache_protected_len = Len(m), !.req[r].last_node = m]
    BY Zenon DEF CacheUnfinishedReq
  <2> QED
    BY <2>1, Zenon
<1> HIDE DEF key, d, t1, u
<1>6. TreeShape(t1)
  BY <1>4 DEF TreeOK
<1>7. m = key
  <2>1. key \in DOMAIN t1.value \cup {Root}
    BY <1>4, <1>6, ShapeFacts
  <2> QED
    BY <1>3, <1>6, <2>1, MatchedAll
<1> HIDE DEF m
<1>8. SplitNode(t1, m) = t1
  BY <1>4, <1>7 DEF SplitNode
<1>9. T = IncLockRef(DecLockRef(t1, q.last_node), key)
  BY <1>7, <1>8
<1>10. TreeOK(T, [hold EXCEPT ![r] = key]) /\ T.value = t1.value
  <2> DEFINE t2 == DecLockRef(t1, hold[r])
             h2 == [hold EXCEPT ![r] = Root]
  <2>1. /\ TreeOK(t2, h2) /\ t2.nodes = t1.nodes /\ t2.value = t1.value
    BY <1>1, <1>4, DecOK
  <2>2. T = IncLockRef(t2, key)
    BY <1>1, <1>9
  <2>3. r \in DOMAIN h2 /\ h2[r] = Root /\ [h2 EXCEPT ![r] = key] = [hold EXCEPT ![r] = key]
    BY <1>1
  <2>4. key \in t2.nodes \cup {Root}
    BY <1>4, <2>1
  <2> HIDE DEF t2, h2, T, hold
  <2>5. TreeOK(IncLockRef(t2, key), [h2 EXCEPT ![r] = key])
        /\ IncLockRef(t2, key).value = t2.value
    BY <2>1, <2>3, <2>4, IncOK
  <2> QED
    BY <2>1, <2>2, <2>3, <2>5
<1> HIDE DEF T
<1>11. T \in TreeType
  BY <1>10 DEF TreeOK, TreeShape
\* The segment that is freed: the pages the tree had.
<1> DEFINE S == Segment(q.row, q.cache_protected_len, d)
<1>12. CeilAlign(d) = d /\ d =< Len(q.row) * PageSize
  <2>1. CeilAlign(d) = d
    BY <1>4, CeilOrder
  <2>2. q.kv_len =< Covered(q)
    BY <1>2 DEF Covered
  <2>3. Covered(q) =< CeilAlign(Covered(q)) /\ CeilAlign(Covered(q)) \in Nat
    BY <1>2, CeilFacts
  <2>4. CeilAlign(Covered(q)) = Len(q.row) * PageSize
    BY <1>2
  <2>5. d \in Nat /\ d =< Len(key) /\ Len(key) \in Nat /\ Len(key) =< n /\ n =< q.kv_len
    BY <1>2, <1>3, <1>4
  <2>6. n \in Nat /\ q.kv_len \in Nat /\ Covered(q) \in Nat
    BY <1>2
  <2>7. d =< CeilAlign(Covered(q))
    <3> HIDE DEF q
    <3> QED
      BY ONLY <2>2, <2>3, <2>5, <2>6
  <2> QED
    BY <2>1, <2>4, <2>7
<1>13. \A p : p \in S <=> \E i \in 1..Len(q.row) :
                q.cache_protected_len < i * PageSize /\ i * PageSize =< d /\ q.row[i] = p
  <2>1. CeilAlign(d) =< Len(q.row) * PageSize
    BY <1>12
  <2>2. \A p : p \in S <=> \E i \in 1..Len(q.row) :
          q.cache_protected_len < i * PageSize /\ i * PageSize =< CeilAlign(d) /\ q.row[i] = p
    BY <1>2, <1>4, <2>1, SegmentPositions
  <2> QED
    BY <1>12, <2>2
<1>14. \A i : i \in OwnAt(q) <=> i \in 1..Len(q.row) /\ q.cache_protected_len < i * PageSize
  BY <1>1, OwnPosition
<1>15. \A i \in OwnAt(q) : q.row[i] \notin s.free
  BY <1>1 DEF PagesOK, OwnsRest
<1> HIDE DEF S
<1>16. S \cap s.free = {}
  BY <1>13, <1>14, <1>15
<1>17. FreedIn(s, s1, S)
  BY <1>1, <1>2, <1>4, <1>12, <1>16, SegmentFields DEF S
<1> HIDE DEF s1
<1>18. /\ s1 \in StateType /\ s1.req = s.req /\ s1.fault = s.fault
       /\ Freed(s.free, s.kv, S, s1.free, s1.kv)
  BY <1>17 DEF FreedIn
<1>19. e = s.fault
  BY <1>7, <1>18
<1> HIDE DEF e
\* The row afterwards.
<1>20. DOMAIN q.row = 1..Len(q.row)
  BY <1>2
<1>21. ASSUME NEW i \in 1..Len(q.row), q.cache_protected_len < i * PageSize,
              i * PageSize =< Len(key)
       PROVE  /\ R[i] = t1.value[PagePrefix(q.toks, i)]
              /\ PagePrefix(q.toks, i) \in DOMAIN t1.value
  <2>1. i \in Int /\ i >= 1 /\ i =< Len(key) \div PageSize
    BY <1>3, <1>21, PagePosition
  <2>2. i \in 1..(Len(key) \div PageSize) /\ i \in 0..(Len(key) \div PageSize)
    BY <1>3, <2>1
  <2>3. i * PageSize \in Int
    BY PageSizeFacts
  <2>4. R[i] = t1.value[PagePrefix(key, i)]
    BY <1>2, <1>7, <1>20, <1>21, <2>3
  <2> QED
    BY <1>3, <1>4, <2>2, <2>4 DEF Gives
<1>22. ASSUME NEW i \in 1..Len(q.row),
              ~(q.cache_protected_len < i * PageSize /\ i * PageSize =< Len(key))
       PROVE  R[i] = q.row[i]
  <2>1. i * PageSize \in Int
    BY PageSizeFacts
  <2> QED
    BY <1>2, <1>7, <1>20, <1>22, <2>1
<1>23. R \in Seq(Pages) /\ Len(R) = Len(q.row)
  <2>1. \A p \in DOMAIN t1.value : t1.value[p] \in Pages
    <3>1. \A p \in DOMAIN t.value : t.value[p] \in Pages
      BY <1>1 DEF PagesOK, TreePagesOK
    <3>2. \A i \in 1..Len(q.row) : q.row[i] \in Pages
      BY <1>2
    <3>3. /\ \A p \in DOMAIN t.value : t1.value[p] = t.value[p]
          /\ \A p \in DOMAIN t1.value \ DOMAIN t.value : \E i \in OwnAt(q) : t1.value[p] = q.row[i]
      BY <1>4 DEF Gives
    <3> QED
      BY <1>14, <3>1, <3>2, <3>3
  <2>2. ASSUME NEW i \in 1..Len(q.row)
        PROVE  R[i] \in Pages
    <3>1. CASE q.cache_protected_len < i * PageSize /\ i * PageSize =< Len(key)
      BY <1>21, <2>1, <3>1
    <3>2. CASE ~(q.cache_protected_len < i * PageSize /\ i * PageSize =< Len(key))
      <4>1. q.row[i] \in Pages
        BY <1>2
      <4> QED
        BY <1>22, <3>2, <4>1
    <3> QED
      BY <3>1, <3>2
  <2> DEFINE k == Len(q.row)
  <2>3. R = [i \in 1..k |-> R[i]]
    BY <1>20
  <2>4. k \in Nat /\ \A i \in 1..k : R[i] \in Pages
    BY <1>2, <2>2
  <2> HIDE DEF R, k
  <2>5. R \in [1..k -> Pages]
    BY <2>3, <2>4
  <2>6. R \in Seq(Pages) /\ Len(R) = k
    BY <2>4, <2>5
  <2> QED
    BY <2>6 DEF k
<1> HIDE DEF R
<1> DEFINE q2 == u.req[r]
<1>24. /\ u \in StateType /\ u.tree = T /\ u.fault = s.fault
       /\ Freed(s.free, s.kv, S, u.free, u.kv)
       /\ \A x \in Reqs : x # r => u.req[x] = s.req[x]
       /\ SameCore(q, q2) /\ q2.row = R /\ q2.cache_protected_len = Len(key)
       /\ q2.last_node = key /\ q2.kv_len = q.kv_len /\ q2.fill = q.fill
  <2>1. s1.fault \in SUBSET STRING /\ e \in SUBSET STRING
    BY <1>18, <1>19, StateFacts
  <2>2. u = [s1 EXCEPT !.tree = T, !.fault = e, !.req[r].row = R,
                     !.req[r].cache_protected_len = Len(key), !.req[r].last_node = key]
    BY <1>5, <1>7
  <2>3. /\ u \in StateType /\ u.tree = T /\ u.fault = e /\ u.free = s1.free /\ u.kv = s1.kv
        /\ \A x \in Reqs : x # r => u.req[x] = s1.req[x]
        /\ SameCore(s1.req[r], u.req[r])
        /\ u.req[r].row = R /\ u.req[r].cache_protected_len = Len(key)
        /\ u.req[r].last_node = key /\ u.req[r].kv_len = s1.req[r].kv_len
        /\ u.req[r].fill = s1.req[r].fill
    <3> DEFINE c == Len(key)
    <3>1. s1 \in StateType /\ T \in TreeType /\ e \in SUBSET STRING /\ R \in Seq(Pages)
          /\ c \in Nat /\ key \in Path
      BY <1>3, <1>11, <1>18, <1>23, <2>1
    <3>2. u = [s1 EXCEPT !.tree = T, !.fault = e, !.req[r].row = R,
                         !.req[r].cache_protected_len = c, !.req[r].last_node = key]
      BY <2>2
    <3> HIDE DEF c
    <3>3. /\ u \in StateType /\ u.tree = T /\ u.fault = e /\ u.free = s1.free
          /\ u.kv = s1.kv /\ \A x \in Reqs : x # r => u.req[x] = s1.req[x]
          /\ SameCore(s1.req[r], u.req[r])
          /\ u.req[r].row = R /\ u.req[r].cache_protected_len = c
          /\ u.req[r].last_node = key /\ u.req[r].kv_len = s1.req[r].kv_len
          /\ u.req[r].fill = s1.req[r].fill
      <4>1. Reseats(s1, u, r, T, e, R, c, key)
        BY <3>1, <3>2, Zenon DEF Reseats
      <4>2. Reseated(s1, u, r, T, e, R, c, key)
        BY <4>1, Reseat, Zenon
      <4> QED
        BY <4>2, Zenon DEF Reseated
    <3> QED
      BY <3>3 DEF c
  <2> QED
    BY <1>18, <1>19, <2>3
<1> HIDE DEF q2, q
<1>25. q2.toks = q.toks
  BY <1>24 DEF SameCore
<1>26. q2 \in ReqType
  BY <1>24, StateFacts DEF q2
<1>27. RowShape(q2)
  <2>1. Covered(q2) = Covered(q)
    BY <1>2, <1>3, <1>24 DEF Covered, q
  <2>2. Covered(q) =< Len(q.toks)
    BY <1>1 DEF RowShape
  <2> QED
    BY <1>2, <1>3, <1>23, <1>24, <1>25, <2>1, <2>2 DEF RowShape
<1>28. \A i : i \in OwnAt(q2) <=> i \in 1..Len(q.row) /\ Len(key) < i * PageSize
  BY <1>23, <1>24, <1>26, <1>27, OwnPosition
<1>29. \A i : i \in OwnAt(q2) => i \in OwnAt(q) /\ q2.row[i] = q.row[i]
                                /\ Content(q2, i) = Content(q, i)
  <2>1. ASSUME NEW i \in OwnAt(q2)
        PROVE  i \in OwnAt(q) /\ q2.row[i] = q.row[i] /\ Content(q2, i) = Content(q, i)
    <3>1. i \in 1..Len(q.row) /\ Len(key) < i * PageSize /\ i * PageSize \in Int
      BY <1>28, PageSizeFacts
    <3>2. i \in OwnAt(q)
      <4>1. q.cache_protected_len < i * PageSize
        BY <1>3, <1>2, <3>1 DEF q
      <4> QED
        BY <1>14, <3>1, <4>1
    <3>3. q2.row[i] = q.row[i]
      BY <1>3, <1>22, <1>24, <3>1
    <3>4. Content(q2, i) = Content(q, i)
      BY <1>24, <1>25 DEF Content
    <3> QED
      BY <3>2, <3>3, <3>4
  <2> QED
    BY <2>1
<1>30. \A i, j \in OwnAt(q) : q.row[i] = q.row[j] => i = j
  BY <1>1 DEF PagesOK, NoSharing, q
<1>31. Settles(t.value, T.value, q, q2, S)
  <2> DEFINE v == t.value
             w == T.value
  <2>1. /\ DOMAIN v \subseteq DOMAIN w /\ \A p \in DOMAIN v : w[p] = v[p]
        /\ \A p \in DOMAIN w \ DOMAIN v : \E i \in OwnAt(q) :
             /\ d < i * PageSize /\ i * PageSize =< Len(key)
             /\ w[p] = q.row[i] /\ Content(q, i) = p
        /\ \A i \in OwnAt(q) : d < i * PageSize /\ i * PageSize =< Len(key) =>
             \E p \in DOMAIN w \ DOMAIN v : w[p] = q.row[i]
    BY <1>4, <1>10 DEF Gives
  <2> HIDE DEF v, w
  <2>2. \A i \in OwnAt(q) : i * PageSize \in Int /\ i \in 1..Len(q.row)
                            /\ (q.row[i] \in S <=> i * PageSize =< d)
    <3>1. ASSUME NEW i \in OwnAt(q)
          PROVE  i * PageSize \in Int /\ i \in 1..Len(q.row)
                 /\ (q.row[i] \in S <=> i * PageSize =< d)
      <4>1. i \in 1..Len(q.row) /\ q.cache_protected_len < i * PageSize
        BY <1>14
      <4>2. i * PageSize \in Int
        BY <4>1, PageSizeFacts
      <4>3. ASSUME q.row[i] \in S
            PROVE  i * PageSize =< d
        <5>1. PICK j \in 1..Len(q.row) : q.cache_protected_len < j * PageSize
                                         /\ j * PageSize =< d /\ q.row[j] = q.row[i]
          BY <1>13, <4>3
        <5>2. j \in OwnAt(q)
          BY <1>14, <5>1
        <5>3. i = j
          BY <1>30, <5>1, <5>2
        <5> QED
          BY <5>1, <5>3
      <4> QED
        BY <1>13, <4>1, <4>2, <4>3
    <3> QED
      BY <3>1
  <2>3. ASSUME NEW p \in DOMAIN w \ DOMAIN v
        PROVE  \E i \in OwnAt(q) :
                 i \notin OwnAt(q2) /\ w[p] = q.row[i] /\ Content(q, i) = p /\ w[p] \notin S
    <3>1. PICK i \in OwnAt(q) : /\ d < i * PageSize /\ i * PageSize =< Len(key)
                                /\ w[p] = q.row[i] /\ Content(q, i) = p
      BY <2>1
    <3>2. i * PageSize \in Int
      BY <2>2
    <3>3. i \notin OwnAt(q2)
      BY <1>3, <1>28, <3>1, <3>2
    <3>4. q.row[i] \notin S
      BY <1>4, <2>2, <3>1, <3>2
    <3> QED
      BY <3>1, <3>3, <3>4
  <2>4. ASSUME NEW i \in OwnAt(q2)
        PROVE  /\ i \in OwnAt(q) /\ q2.row[i] = q.row[i] /\ Content(q2, i) = Content(q, i)
               /\ q.row[i] \notin S
    <3>1. i \in OwnAt(q) /\ q2.row[i] = q.row[i] /\ Content(q2, i) = Content(q, i)
      BY <1>29
    <3>2. Len(key) < i * PageSize
      BY <1>28
    <3>3. q.row[i] \notin S
      BY <1>3, <1>4, <2>2, <3>1, <3>2
    <3> QED
      BY <3>1, <3>3
  <2>5. ASSUME NEW i \in OwnAt(q)
        PROVE  \/ \E p \in DOMAIN w \ DOMAIN v : w[p] = q.row[i]
               \/ i \in OwnAt(q2)
               \/ q.row[i] \in S
    <3>1. i * PageSize \in Int /\ i \in 1..Len(q.row)
      BY <2>2
    <3>2. CASE i * PageSize =< d
      BY <2>2, <3>2
    <3>3. CASE d < i * PageSize /\ i * PageSize =< Len(key)
      BY <2>1, <3>3
    <3>4. CASE Len(key) < i * PageSize
      BY <1>28, <3>1, <3>4
    <3> QED
      BY <1>3, <1>4, <3>1, <3>2, <3>3, <3>4
  <2>6. \A p \in S : \E i \in OwnAt(q) : q.row[i] = p
    BY <1>13, <1>14
  <2>7. ReadsTree(w, q2)
    <3>1. ASSUME NEW i \in 1..(Len(key) \div PageSize)
          PROVE  PagePrefix(q.toks, i) \in DOMAIN w /\ q2.row[i] = w[PagePrefix(q.toks, i)]
      <4>1. i \in Int /\ i >= 1 /\ i * PageSize =< Len(key) /\ i * PageSize \in Int
        BY <1>3, PagePosition
      <4>2. PagePrefix(q.toks, i) \in DOMAIN w
        BY <1>4, <1>10 DEF Gives, w
      <4>3. i \in 1..Len(q.row)
        <5>1. q2.cache_protected_len \div PageSize \in 0..Len(q2.row)
          BY <1>26, <1>27, RowFacts
        <5>2. Len(key) \div PageSize =< Len(q.row)
          BY <1>23, <1>24, <5>1
        <5> QED
          BY <1>2, <1>3, <4>1, <5>2 DEF q
      <4>4. CASE q.cache_protected_len < i * PageSize
        BY <1>10, <1>21, <1>24, <4>1, <4>2, <4>3, <4>4 DEF w
      <4>5. CASE i * PageSize =< q.cache_protected_len
        <5>1. q2.row[i] = q.row[i]
          BY <1>2, <1>22, <1>24, <4>1, <4>3, <4>5 DEF q
        <5>2. i \in 1..(q.cache_protected_len \div PageSize)
          <6>1. q.cache_protected_len \in Nat /\ q.cache_protected_len % PageSize = 0
            BY <1>2 DEF q
          <6>2. i =< q.cache_protected_len \div PageSize
                /\ q.cache_protected_len \div PageSize \in Nat
            BY <4>1, <4>5, <6>1, PagePosition
          <6> QED
            BY <4>1, <6>2
        <5>3. PagePrefix(q.toks, i) \in DOMAIN v /\ q.row[i] = v[PagePrefix(q.toks, i)]
          BY <1>1, <5>2 DEF PagesOK, ReadsTree, q, v
        <5> QED
          BY <2>1, <4>2, <5>1, <5>3
      <4>6. q.cache_protected_len \in Nat
        BY <1>2 DEF q
      <4> QED
        BY <4>1, <4>4, <4>5, <4>6
    <3> QED
      BY <1>24, <1>25, <3>1 DEF ReadsTree
  <2> QED
    BY <2>1, <2>3, <2>4, <2>5, <2>6, <2>7 DEF Settles, v, w
<1>32. SettledTo(s, u, r, S)
  BY <1>10, <1>24, <1>27, <1>31 DEF SettledTo, q, q2
<1>33. Good(u)
  BY <1>32, SettleOK
<1> QED
  BY <1>3, <1>23, <1>24, <1>33 DEF u, q, q2

-----------------------------------------------------------------------------
(* Release                                                                 *)

\* A request without KV has a row of the right length, and no page.
LEMMA EmptyRow ==
  ASSUME NEW q \in ReqType, Empty(q)
  PROVE  RowShape(q) /\ OwnAt(q) = {} /\ \A v : ReadsTree(v, q)
<1>1. /\ q.row = <<>> /\ q.kv_len = 0 /\ q.cache_protected_len = 0 /\ q.last_node = Root
      /\ q.toks \in Path /\ Len(q.toks) \in Nat /\ Len(q.row) = 0
  BY DEF Empty, ReqType, Path
<1>2. 0 % PageSize = 0 /\ 0 * PageSize = 0 /\ 0 \div PageSize = 0
  BY PageSizeFacts
<1>3. Covered(q) = 0
  BY <1>1 DEF Covered
<1>4. CeilAlign(0) = 0
  BY <1>2, CeilOrder
<1>5. SubSeq(q.toks, 1, 0) = Root
  <2>1. 0 \in 0..Len(q.toks)
    BY <1>1
  <2>2. SubSeq(q.toks, 1, 0) \in Path /\ Len(SubSeq(q.toks, 1, 0)) = 0
    BY <1>1, <2>1, Cut
  <2> QED
    BY <2>2, PrefixOrder
<1>6. Len(q.row) * PageSize = 0
  BY <1>1, <1>2
<1>7. RowShape(q)
  BY <1>1, <1>2, <1>3, <1>4, <1>5, <1>6 DEF RowShape
<1>8. OwnAt(q) = {}
  BY <1>1, <1>2 DEF OwnAt
<1>9. \A v : ReadsTree(v, q)
  BY <1>1, <1>2 DEF ReadsTree
<1> QED
  BY <1>7, <1>8, <1>9

\* u is s after request r has given all its pages to the tree or back to the pool.
Vacates(s, u, r, S) ==
  LET v == s.tree.value
      w == u.tree.value
      q == s.req[r]
  IN  /\ u \in StateType /\ Empty(u.req[r])
      /\ \A x \in Reqs : x # r => u.req[x] = s.req[x]
      /\ TreeOK(u.tree, [Hold(s.req) EXCEPT ![r] = Root])
      /\ DOMAIN v \subseteq DOMAIN w /\ \A p \in DOMAIN v : w[p] = v[p]
      /\ \A p \in DOMAIN w \ DOMAIN v : \E i \in OwnAt(q) :
           w[p] = q.row[i] /\ Content(q, i) = p /\ w[p] \notin S
      /\ \A i \in OwnAt(q) :
           (\E p \in DOMAIN w \ DOMAIN v : w[p] = q.row[i]) \/ q.row[i] \in S
      /\ \A p \in S : \E i \in OwnAt(q) : q.row[i] = p
      /\ Freed(s.free, s.kv, S, u.free, u.kv)

\* Such a step keeps the state good.
LEMMA VacateOK ==
  ASSUME NEW s, Good(s), NEW r \in Reqs, NEW u, NEW S, Vacates(s, u, r, S)
  PROVE  Good(u)
<1> DEFINE v == s.tree.value
           w == u.tree.value
           q == s.req[r]
           q2 == u.req[r]
<1>1. /\ u \in StateType /\ Empty(q2)
      /\ \A x \in Reqs : x # r => u.req[x] = s.req[x]
      /\ TreeOK(u.tree, [Hold(s.req) EXCEPT ![r] = Root])
      /\ DOMAIN v \subseteq DOMAIN w /\ \A p \in DOMAIN v : w[p] = v[p]
      /\ \A p \in DOMAIN w \ DOMAIN v : \E i \in OwnAt(q) :
           w[p] = q.row[i] /\ Content(q, i) = p /\ w[p] \notin S
      /\ \A i \in OwnAt(q) :
           (\E p \in DOMAIN w \ DOMAIN v : w[p] = q.row[i]) \/ q.row[i] \in S
      /\ \A p \in S : \E i \in OwnAt(q) : q.row[i] = p
      /\ Freed(s.free, s.kv, S, u.free, u.kv)
  BY Zenon DEF Vacates
<1>2. q2 \in ReqType /\ q2.last_node = Root
  BY <1>1, StateFacts DEF Empty
<1>3. RowShape(q2) /\ OwnAt(q2) = {} /\ ReadsTree(w, q2)
  BY <1>1, <1>2, EmptyRow
<1> HIDE DEF v, w, q, q2
<1>4. Settles(v, w, q, q2, S)
  BY <1>1, <1>3 DEF Settles
<1>5. SettledTo(s, u, r, S)
  BY <1>1, <1>2, <1>3, <1>4 DEF SettledTo, v, w, q, q2
<1> QED
  BY <1>5, SettleOK

\* ReleaseRow leaves the request without KV.
LEMMA RowReleased ==
  ASSUME NEW s \in StateType, NEW r \in Reqs, NEW u, u = ReleaseRow(s, r)
  PROVE  /\ u \in StateType /\ u.tree = s.tree /\ u.free = s.free /\ u.kv = s.kv
         /\ u.fault = s.fault /\ Empty(u.req[r]) /\ SameCore(s.req[r], u.req[r])
         /\ \A x \in Reqs : x # r => u.req[x] = s.req[x]
<1> DEFINE q2 == [s.req[r] EXCEPT !.row = <<>>, !.kv_len = 0, !.cache_protected_len = 0,
                                  !.last_node = Root, !.fill = 0]
           rq2 == [s.req EXCEPT ![r] = q2]
<1>1. s.req \in [Reqs -> ReqType] /\ s.req[r] \in ReqType /\ Root \in Path
  BY StateFacts, RootFacts
<1>2. q2 \in ReqType /\ SameCore(s.req[r], q2) /\ Empty(q2)
  <2>1. <<>> \in Seq(Pages)
    OBVIOUS
  <2>2. q2 \in ReqType
    BY <1>1, <2>1 DEF ReqType
  <2>3. SameCore(s.req[r], q2) /\ Empty(q2)
    BY <1>1 DEF ReqType, SameCore, Empty
  <2> QED
    BY <2>2, <2>3
<1>3. u = [s EXCEPT !.req = rq2]
  <2> DEFINE a == [s EXCEPT !.req[r].row = <<>>, !.req[r].kv_len = 0]
             b == [a EXCEPT !.req[r].cache_protected_len = 0, !.req[r].last_node = Root]
             qa == [s.req[r] EXCEPT !.row = <<>>, !.kv_len = 0]
             qb == [qa EXCEPT !.cache_protected_len = 0, !.last_node = Root]
  <2>1. u = [b EXCEPT !.req[r].fill = 0]
    BY DEF ReleaseRow
  <2>2. a = [s EXCEPT !.req = [s.req EXCEPT ![r] = qa]]
    BY <1>1 DEF StateType
  <2> HIDE DEF a, qa
  <2>3. b = [s EXCEPT !.req = [s.req EXCEPT ![r] = qb]]
    BY <1>1, <2>2 DEF StateType
  <2> HIDE DEF b, qb
  <2>4. u = [s EXCEPT !.req = [s.req EXCEPT ![r] = [qb EXCEPT !.fill = 0]]]
    BY <1>1, <2>1, <2>3 DEF StateType
  <2> QED
    BY <2>4 DEF qa, qb
<1> HIDE DEF q2
<1>4. rq2 \in [Reqs -> ReqType] /\ rq2[r] = q2 /\ \A x \in Reqs : x # r => rq2[x] = s.req[x]
  BY <1>1, <1>2
<1> HIDE DEF rq2
<1>5. /\ u \in StateType /\ u.tree = s.tree /\ u.fault = s.fault /\ u.free = s.free
      /\ u.kv = s.kv /\ u.req = rq2
  BY <1>3, <1>4 DEF StateType
<1> QED
  BY <1>2, <1>4, <1>5

\* A state with another tree.
LEMMA WithTree ==
  ASSUME NEW s \in StateType, NEW T \in TreeType, NEW u, u = [s EXCEPT !.tree = T]
  PROVE  /\ u \in StateType /\ u.tree = T /\ u.free = s.free /\ u.kv = s.kv
         /\ u.fault = s.fault /\ u.req = s.req
BY DEF StateType

\* S is the own pages of q that begin at the token a or later and end by b.
OwnBetween(q, S, a, b) ==
  \A p : p \in S <=>
    \E i \in OwnAt(q) : a < i * PageSize /\ i * PageSize =< CeilAlign(b) /\ q.row[i] = p

\* Own pages, by position: those up to an aligned length and those past it.
LEMMA OwnSegment ==
  ASSUME NEW q \in ReqType, RowShape(q), NEW a \in Nat, a % PageSize = 0,
         q.cache_protected_len =< a, NEW b \in Nat, CeilAlign(b) =< Len(q.row) * PageSize
  PROVE  /\ OwnBetween(q, Segment(q.row, a, b), a, b)
         /\ Segment(q.row, a, b) \in SUBSET Pages
<1>1. /\ q.row \in Seq(Pages) /\ Len(q.row) \in Nat /\ q.cache_protected_len \in Nat
  BY RowFacts
<1>2. /\ \A p : p \in Segment(q.row, a, b) <=> \E i \in 1..Len(q.row) :
           a < i * PageSize /\ i * PageSize =< CeilAlign(b) /\ q.row[i] = p
      /\ Segment(q.row, a, b) \in SUBSET Pages
  BY <1>1, SegmentPositions
<1>3. \A i : i \in OwnAt(q) <=> i \in 1..Len(q.row) /\ q.cache_protected_len < i * PageSize
  BY OwnPosition
<1>4. \A i \in 1..Len(q.row) : a < i * PageSize => q.cache_protected_len < i * PageSize
  <2>1. \A i \in 1..Len(q.row) : i * PageSize \in Int
    BY PageSizeFacts
  <2> QED
    BY <1>1, <2>1
<1> QED
  BY <1>2, <1>3, <1>4 DEF OwnBetween

\* kv_len of a request that has KV beyond its protected prefix.
LEMMA RowEnds ==
  ASSUME NEW q \in ReqType, RowShape(q), q.cache_protected_len =< q.kv_len
  PROVE  /\ Len(q.row) * PageSize = CeilAlign(q.kv_len)
         /\ \A i \in OwnAt(q) : i * PageSize =< CeilAlign(q.kv_len) /\ i * PageSize \in Int
<1>1. /\ Len(q.row) \in Nat /\ q.kv_len \in Nat /\ q.cache_protected_len \in Nat
      /\ Len(q.row) * PageSize = CeilAlign(Covered(q))
  BY RowFacts
<1>2. Covered(q) = q.kv_len
  BY <1>1 DEF Covered
<1>3. ASSUME NEW i \in OwnAt(q)
      PROVE  i * PageSize =< CeilAlign(q.kv_len) /\ i * PageSize \in Int
  <2> DEFINE n == Len(q.row)
  <2>1. i \in Int /\ i =< n /\ n \in Int
    BY <1>1, OwnPosition
  <2>2. n * PageSize = CeilAlign(q.kv_len)
    BY <1>1, <1>2
  <2> HIDE DEF n
  <2>3. i * PageSize =< n * PageSize
    BY <2>1, PageMonotone
  <2> QED
    BY <2>1, <2>2, <2>3, PageSizeFacts
<1> QED
  BY <1>1, <1>2, <1>3

\* What a release does to the rest of the state.
Released(s, u, r) ==
  /\ Good(u) /\ u.fault = s.fault
  /\ \A x \in Reqs : x # r => u.req[x] = s.req[x]
  /\ Empty(u.req[r]) /\ SameCore(s.req[r], u.req[r])

\* release_kv_cache without insert.
LEMMA ReleaseNoInsertOK ==
  ASSUME NEW s, Good(s), NEW r \in Reqs, s.req[r].cache_protected_len =< s.req[r].kv_len
  PROVE  Released(s, ReleaseNoInsert(s, r), r)
<1> DEFINE q == s.req[r]
           S == Segment(q.row, q.cache_protected_len, q.kv_len)
           s1 == FreeSegment(s, q.row, q.cache_protected_len, q.kv_len)
           T == DecLockRef(s1.tree, q.last_node)
           s2 == [s1 EXCEPT !.tree = T]
           u == ReleaseRow(s2, r)
<1>1. /\ s \in StateType /\ TreeOK(s.tree, Hold(s.req)) /\ q \in ReqType /\ RowShape(q)
      /\ PagesOK(s.tree.value, s.free, s.req, s.kv)
      /\ DOMAIN Hold(s.req) = Reqs /\ Hold(s.req)[r] = q.last_node
  BY GoodFacts
<1>2. /\ q.row \in Seq(Pages) /\ q.kv_len \in Nat /\ q.cache_protected_len \in Nat
      /\ q.cache_protected_len % PageSize = 0
  BY <1>1, RowFacts
<1>3. /\ CeilAlign(q.kv_len) =< Len(q.row) * PageSize
      /\ \A i \in OwnAt(q) : i * PageSize =< CeilAlign(q.kv_len)
  <2>1. /\ Len(q.row) * PageSize = CeilAlign(q.kv_len)
        /\ \A i \in OwnAt(q) : i * PageSize =< CeilAlign(q.kv_len)
    BY <1>1, RowEnds
  <2>2. CeilAlign(q.kv_len) \in Nat
    BY <1>2, CeilFacts
  <2> QED
    BY <2>1, <2>2
<1>4. \A i : i \in OwnAt(q) <=> i \in 1..Len(q.row) /\ q.cache_protected_len < i * PageSize
  BY <1>1, OwnPosition
<1>5. \A p : p \in S <=> \E i \in OwnAt(q) : q.row[i] = p
  <2>1. q.cache_protected_len =< q.cache_protected_len
    BY <1>2
  <2>2. \A p : p \in S <=> \E i \in OwnAt(q) :
          q.cache_protected_len < i * PageSize /\ i * PageSize =< CeilAlign(q.kv_len)
          /\ q.row[i] = p
    BY <1>1, <1>2, <1>3, <2>1, OwnSegment DEF OwnBetween
  <2> QED
    BY <1>3, <1>4, <2>2
<1>6. \A i \in OwnAt(q) : q.row[i] \notin s.free
  BY <1>1 DEF PagesOK, OwnsRest
<1>7. S \cap s.free = {}
  BY <1>5, <1>6
<1>8. FreedIn(s, s1, S)
  BY <1>1, <1>2, <1>3, <1>7, SegmentFields
<1> HIDE DEF S, s1
<1>9. /\ s1 \in StateType /\ s1.tree = s.tree /\ s1.req = s.req /\ s1.fault = s.fault
      /\ Freed(s.free, s.kv, S, s1.free, s1.kv)
  BY <1>8 DEF FreedIn
<1>10. TreeOK(T, [Hold(s.req) EXCEPT ![r] = Root]) /\ T.value = s.tree.value
  <2>1. T = DecLockRef(s.tree, Hold(s.req)[r])
    BY <1>1, <1>9
  <2>2. TreeOK(DecLockRef(s.tree, Hold(s.req)[r]), [Hold(s.req) EXCEPT ![r] = Root])
        /\ DecLockRef(s.tree, Hold(s.req)[r]).value = s.tree.value
    BY <1>1, DecOK
  <2> QED
    BY <2>1, <2>2
<1>11. T \in TreeType
  BY <1>10 DEF TreeOK, TreeShape
<1> HIDE DEF T
<1>12. /\ s2 \in StateType /\ s2.tree = T /\ s2.free = s1.free /\ s2.kv = s1.kv
       /\ s2.fault = s1.fault /\ s2.req = s1.req
  BY <1>9, <1>11, WithTree
<1> HIDE DEF s2
<1>13. /\ u \in StateType /\ u.tree = s2.tree /\ u.free = s2.free /\ u.kv = s2.kv
       /\ u.fault = s2.fault /\ Empty(u.req[r]) /\ SameCore(s2.req[r], u.req[r])
       /\ \A x \in Reqs : x # r => u.req[x] = s2.req[x]
  BY <1>12, RowReleased
<1>14. u = ReleaseNoInsert(s, r)
  BY Zenon DEF ReleaseNoInsert, s2, T, s1
<1> HIDE DEF u
<1>15. u.tree = T /\ u.free = s1.free /\ u.kv = s1.kv
  BY <1>12, <1>13
<1>16. Vacates(s, u, r, S)
  BY <1>5, <1>9, <1>10, <1>12, <1>13, <1>15 DEF Vacates
<1>17. Good(u)
  BY <1>16, VacateOK
<1>18. Released(s, u, r)
  BY <1>9, <1>12, <1>13, <1>17 DEF Released
<1> QED
  BY <1>14, <1>18

\* The second insert of a release only splits the tree.
LEMMA SplitAtPromptOK ==
  ASSUME NEW t, NEW hold, TreeOK(t, hold), NEW key \in t.nodes \cup {Root},
         NEW prompt \in Path, Len(prompt) % PageSize = 0, IsPrefix(prompt, key),
         NEW row
  PROVE  LET u == SplitAtPrompt(t, key, prompt, row)
         IN  TreeOK(u, hold) /\ u.value = t.value
<1> DEFINE u == SplitAtPrompt(t, key, prompt, row)
<1>1. TreeShape(t)
  BY DEF TreeOK
<1>2. CASE ~(0 < Len(prompt) /\ Len(prompt) < Len(key))
  <2>1. u = t
    BY <1>2 DEF SplitAtPrompt
  <2> QED
    BY <2>1
<1>3. CASE 0 < Len(prompt) /\ Len(prompt) < Len(key)
  <2>1. u = Insert(t, prompt, row)
    BY <1>3 DEF SplitAtPrompt
  <2>2. prompt # Root /\ key # Root
    <3>1. Len(Root) = 0 /\ Len(prompt) \in Nat
      BY RootFacts, PrefixOrder
    <3>2. Len(key) # 0
      BY <1>3, <3>1
    <3> QED
      BY <1>3, <3>1, <3>2
  <2>3. key \in t.nodes /\ IsPagePath(prompt)
    BY <2>2 DEF IsPagePath
  <2>4. prompt \in DOMAIN t.value
    BY <1>1, <2>3, ShapeFacts
  <2>5. Matched(t, prompt) = prompt
    BY <1>1, <2>4, MatchedAll
  <2>6. Insert(t, prompt, row) = SplitNode(t, prompt)
    BY <2>5 DEF Insert
  <2>7. TreeOK(SplitNode(t, prompt), hold) /\ SplitNode(t, prompt).value = t.value
    BY <2>4, SplitOK
  <2> QED
    BY <2>1, <2>6, <2>7
<1> QED
  BY <1>2, <1>3

\* Freeing twice is freeing the union.
LEMMA FreedTwice ==
  ASSUME NEW s, NEW a, NEW b, NEW A, NEW B, FreedIn(s, a, A), FreedIn(a, b, B)
  PROVE  FreedIn(s, b, A \cup B)
<1>1. /\ a.free = s.free \cup A /\ b.free = a.free \cup B
      /\ \A p \in Pages : a.kv[p] = IF p \in A THEN <<>> ELSE s.kv[p]
      /\ \A p \in Pages : b.kv[p] = IF p \in B THEN <<>> ELSE a.kv[p]
  BY DEF FreedIn, Freed
<1>2. Freed(s.free, s.kv, A \cup B, b.free, b.kv)
  BY <1>1 DEF Freed
<1> QED
  BY <1>2 DEF FreedIn

\* The key of the prompt begins the key of all tokens.
LEMMA PromptKey ==
  ASSUME NEW toks \in Path, NEW n \in 0..Len(toks), NEW m \in 0..n
  PROVE  LET ids == SubSeq(toks, 1, n)
             prompt == PageAligned(SubSeq(ids, 1, m))
         IN  /\ prompt \in Path /\ Len(prompt) % PageSize = 0
             /\ IsPrefix(prompt, PageAligned(ids)) /\ Len(ids) = n
<1> DEFINE ids == SubSeq(toks, 1, n)
           b == SubSeq(ids, 1, m)
           f == FloorAlign(n)
           g == FloorAlign(m)
<1>1. n \in Nat /\ m \in Nat /\ m =< n /\ Len(toks) \in Nat
  BY DEF Path
<1>2. ids \in Path /\ Len(ids) = n
  BY Cut
<1> HIDE DEF ids
<1>3. b \in Path /\ Len(b) = m /\ IsPrefix(b, ids)
  BY <1>2, Cut
<1> HIDE DEF b
<1>4. /\ f \in Nat /\ f =< n /\ g \in Nat /\ g =< m /\ g % PageSize = 0
      /\ f % PageSize = 0 /\ \A y \in Nat : y % PageSize = 0 /\ y =< n => y =< f
  BY <1>1, FloorFacts
<1> HIDE DEF f, g
<1>5. g =< f /\ g \in 0..Len(b) /\ f \in 0..Len(ids)
  BY <1>1, <1>2, <1>3, <1>4
<1>6. LET k == SubSeq(ids, 1, f) IN k \in Path /\ Len(k) = f /\ IsPrefix(k, ids)
  BY <1>2, <1>5, Cut
<1>7. LET p == SubSeq(b, 1, g) IN p \in Path /\ Len(p) = g /\ IsPrefix(p, b)
  BY <1>3, <1>5, Cut
<1>8. PageAligned(ids) = SubSeq(ids, 1, f) /\ PageAligned(b) = SubSeq(b, 1, g)
  BY <1>2, <1>3 DEF PageAligned, f, g
<1>9. IsPrefix(PageAligned(b), ids)
  BY <1>2, <1>3, <1>7, <1>8, PrefixOrder
<1>10. IsPrefix(PageAligned(b), PageAligned(ids))
  <2> DEFINE k == PageAligned(ids)
             p == PageAligned(b)
  <2>1. k \in Path /\ Len(k) = f /\ IsPrefix(k, ids) /\ p \in Path /\ Len(p) = g
        /\ IsPrefix(p, ids)
    BY <1>6, <1>7, <1>8, <1>9
  <2> HIDE DEF k, p
  <2>2. IsPrefix(p, k)
    BY <1>2, <1>5, <2>1, PrefixOrder
  <2> QED
    BY <2>2 DEF k, p
<1> QED
  BY <1>2, <1>4, <1>7, <1>8, <1>10 DEF ids, b

\* release_kv_cache with insert.
LEMMA ReleaseInsertOK ==
  ASSUME NEW s, Good(s), NEW r \in Reqs, s.req[r].cache_protected_len =< s.req[r].kv_len,
         s.req[r].cache_protected_len =< s.req[r].known
  PROVE  Released(s, ReleaseInsert(s, r), r)
<1> DEFINE q == s.req[r]
           n == Min({q.kv_len, q.known})
           ids == SubSeq(q.toks, 1, n)
           key == PageAligned(ids)
           m == Min({q.plen, Len(ids)})
           prompt == PageAligned(SubSeq(ids, 1, m))
           d == Len(Matched(s.tree, key))
           t0 == Insert(s.tree, key, q.row)
           t1 == SplitAtPrompt(t0, key, prompt, q.row)
           sa == FreeSegment(s, q.row, q.cache_protected_len, d)
           sb == FreeSegment(sa, q.row, Len(key), q.kv_len)
           T == DecLockRef(t1, q.last_node)
           s2 == [sb EXCEPT !.tree = T]
           u == ReleaseRow(s2, r)
           SA == Segment(q.row, q.cache_protected_len, d)
           SB == Segment(q.row, Len(key), q.kv_len)
           hold == Hold(s.req)
<1>0. u = ReleaseInsert(s, r)
  BY Zenon DEF ReleaseInsert
<1>1. /\ s \in StateType /\ TreeOK(s.tree, hold) /\ q \in ReqType /\ RowShape(q)
      /\ PagesOK(s.tree.value, s.free, s.req, s.kv)
      /\ DOMAIN hold = Reqs /\ hold[r] = q.last_node
  BY GoodFacts
<1>2. /\ q.toks \in Path /\ Len(q.toks) \in Nat /\ q.row \in Seq(Pages) /\ q.kv_len \in Nat
      /\ q.cache_protected_len \in Nat /\ q.cache_protected_len % PageSize = 0
      /\ q.known \in Nat /\ q.plen \in Nat /\ q.kv_len =< Len(q.toks)
  BY <1>1, RowFacts
<1>3. /\ n \in Nat /\ n =< q.kv_len /\ q.cache_protected_len =< n /\ n \in 0..Len(q.toks)
  <2>1. n = IF q.kv_len =< q.known THEN q.kv_len ELSE q.known
    BY <1>2, MinPair
  <2> HIDE DEF n
  <2> QED
    BY <1>2, <2>1
<1>4. /\ key \in Path /\ Len(key) % PageSize = 0 /\ Len(key) \in Nat /\ Len(key) =< n
      /\ q.cache_protected_len =< Len(key)
  <2>1. n =< Len(q.toks)
    BY <1>3
  <2> HIDE DEF n
  <2> QED
    BY <1>1, <1>3, <2>1, KeyFacts
<1>5. /\ TreeOK(t0, hold) /\ key \in t0.nodes \cup {Root}
      /\ d \in Nat /\ d % PageSize = 0 /\ d =< Len(key) /\ q.cache_protected_len =< d
      /\ Gives(s.tree.value, t0.value, q, d, Len(key))
  <2> HIDE DEF n
  <2> QED
    BY <1>3, GiveOK
<1>6. TreeOK(t1, hold) /\ t1.value = t0.value
  <2>1. Len(ids) = n
    <3> HIDE DEF n
    <3> QED
      BY <1>2, <1>3, Cut
  <2>2. m = IF q.plen =< n THEN q.plen ELSE n
    <3> HIDE DEF ids, n
    <3> QED
      BY <1>2, <1>3, <2>1, MinPair
  <2> HIDE DEF m, n
  <2>3. m \in 0..n
    BY <1>2, <1>3, <2>2
  <2>4. prompt \in Path /\ Len(prompt) % PageSize = 0 /\ IsPrefix(prompt, key)
    BY <1>2, <1>3, <2>3, PromptKey
  <2> HIDE DEF prompt, key, t0, ids, hold
  <2> QED
    BY <1>5, <2>4, SplitAtPromptOK
<1> HIDE DEF key, d, t0, t1, n, ids, m, prompt
\* The pages that are freed.
<1>7. /\ CeilAlign(q.kv_len) = Len(q.row) * PageSize /\ CeilAlign(q.kv_len) \in Nat
      /\ q.kv_len =< CeilAlign(q.kv_len)
      /\ \A i \in OwnAt(q) : i * PageSize =< CeilAlign(q.kv_len) /\ i * PageSize \in Int
  <2>1. /\ Len(q.row) * PageSize = CeilAlign(q.kv_len)
        /\ \A i \in OwnAt(q) : i * PageSize =< CeilAlign(q.kv_len) /\ i * PageSize \in Int
    BY <1>1, RowEnds
  <2>2. CeilAlign(q.kv_len) \in Nat /\ q.kv_len =< CeilAlign(q.kv_len)
    BY <1>2, CeilFacts
  <2> QED
    BY <2>1, <2>2
<1>8. \A i : i \in OwnAt(q) => i \in 1..Len(q.row) /\ q.cache_protected_len < i * PageSize
  BY <1>1, OwnPosition
<1>9. /\ \A p : p \in SA <=> \E i \in OwnAt(q) : i * PageSize =< d /\ q.row[i] = p
      /\ CeilAlign(d) =< Len(q.row) * PageSize
  <2>1. CeilAlign(d) = d
    BY <1>5, CeilOrder
  <2>2. CeilAlign(d) =< Len(q.row) * PageSize
    BY <1>2, <1>3, <1>4, <1>5, <1>7, <2>1
  <2>3. \A p : p \in SA <=> \E i \in OwnAt(q) :
          q.cache_protected_len < i * PageSize /\ i * PageSize =< CeilAlign(d) /\ q.row[i] = p
    <3>1. q.cache_protected_len =< q.cache_protected_len
      BY <1>2
    <3>2. /\ q \in ReqType /\ RowShape(q) /\ q.cache_protected_len \in Nat
          /\ q.cache_protected_len % PageSize = 0 /\ d \in Nat
      BY <1>1, <1>2, <1>5
    <3> HIDE DEF q
    <3>3. OwnBetween(q, SA, q.cache_protected_len, d)
      BY <2>2, <3>1, <3>2, OwnSegment
    <3> QED
      BY <3>3 DEF OwnBetween
  <2> QED
    BY <1>8, <2>1, <2>2, <2>3
<1>10. \A p : p \in SB <=> \E i \in OwnAt(q) : Len(key) < i * PageSize /\ q.row[i] = p
  <2>1. CeilAlign(q.kv_len) =< Len(q.row) * PageSize
    BY <1>7
  <2>2. \A p : p \in SB <=> \E i \in OwnAt(q) :
          Len(key) < i * PageSize /\ i * PageSize =< CeilAlign(q.kv_len) /\ q.row[i] = p
    <3>1. /\ q \in ReqType /\ RowShape(q) /\ Len(key) \in Nat /\ Len(key) % PageSize = 0
          /\ q.cache_protected_len =< Len(key) /\ q.kv_len \in Nat
      BY <1>1, <1>2, <1>4
    <3> HIDE DEF q
    <3>2. OwnBetween(q, SB, Len(key), q.kv_len)
      BY <2>1, <3>1, OwnSegment
    <3> QED
      BY <3>2 DEF OwnBetween
  <2> QED
    BY <1>7, <2>2
<1> HIDE DEF SA, SB
<1>11. \A i \in OwnAt(q) : q.row[i] \notin s.free
  BY <1>1 DEF PagesOK, OwnsRest
<1>12. \A i, j \in OwnAt(q) : q.row[i] = q.row[j] => i = j
  BY <1>1 DEF PagesOK, NoSharing
<1>13. SA \cap s.free = {} /\ SB \cap s.free = {} /\ SA \cap SB = {}
  <2>1. SA \cap s.free = {} /\ SB \cap s.free = {}
    BY <1>9, <1>10, <1>11
  <2>2. ASSUME NEW p, p \in SA, p \in SB
        PROVE  FALSE
    <3>1. PICK i \in OwnAt(q) : i * PageSize =< d /\ q.row[i] = p
      BY <1>9, <2>2
    <3>2. PICK j \in OwnAt(q) : Len(key) < j * PageSize /\ q.row[j] = p
      BY <1>10, <2>2
    <3>3. i = j
      BY <1>12, <3>1, <3>2
    <3>4. i * PageSize \in Int
      BY <1>7
    <3> QED
      BY <1>4, <1>5, <3>1, <3>2, <3>3, <3>4
  <2> QED
    BY <2>1, <2>2
<1>14. FreedIn(s, sa, SA)
  BY <1>1, <1>2, <1>5, <1>9, <1>13, SegmentFields DEF SA
<1> HIDE DEF sa
<1>15. sa \in StateType /\ sa.free = s.free \cup SA
  BY <1>14 DEF FreedIn, Freed
<1>16. FreedIn(sa, sb, SB)
  <2>1. SB \cap sa.free = {}
    BY <1>13, <1>15
  <2>2. CeilAlign(q.kv_len) =< Len(q.row) * PageSize
    BY <1>7
  <2> QED
    BY <1>2, <1>4, <1>15, <2>1, <2>2, SegmentFields DEF SB
<1> HIDE DEF sb
<1> DEFINE S == SA \cup SB
<1>17. FreedIn(s, sb, S)
  BY <1>14, <1>16, FreedTwice
<1>18. /\ sb \in StateType /\ sb.req = s.req /\ sb.fault = s.fault
       /\ Freed(s.free, s.kv, S, sb.free, sb.kv)
  BY <1>17 DEF FreedIn
\* The tree.
<1>19. TreeOK(T, [hold EXCEPT ![r] = Root]) /\ T.value = t0.value
  <2>1. T = DecLockRef(t1, hold[r])
    BY <1>1
  <2>2. TreeOK(DecLockRef(t1, hold[r]), [hold EXCEPT ![r] = Root])
        /\ DecLockRef(t1, hold[r]).value = t1.value
    BY <1>1, <1>6, DecOK
  <2> QED
    BY <1>6, <2>1, <2>2
<1>20. T \in TreeType
  BY <1>19 DEF TreeOK, TreeShape
<1> HIDE DEF T, hold
<1>21. /\ s2 \in StateType /\ s2.tree = T /\ s2.free = sb.free /\ s2.kv = sb.kv
       /\ s2.fault = sb.fault /\ s2.req = sb.req
  BY <1>18, <1>20, WithTree
<1> HIDE DEF s2
<1>22. /\ u \in StateType /\ u.tree = s2.tree /\ u.free = s2.free /\ u.kv = s2.kv
       /\ u.fault = s2.fault /\ Empty(u.req[r]) /\ SameCore(s2.req[r], u.req[r])
       /\ \A x \in Reqs : x # r => u.req[x] = s2.req[x]
  BY <1>21, RowReleased
<1> HIDE DEF u
<1>23. u.tree = T /\ u.free = sb.free /\ u.kv = sb.kv
  BY <1>21, <1>22
<1>24. Vacates(s, u, r, S)
  <2> DEFINE v == s.tree.value
             w == t0.value
  <2>1. /\ DOMAIN v \subseteq DOMAIN w /\ \A p \in DOMAIN v : w[p] = v[p]
        /\ \A p \in DOMAIN w \ DOMAIN v : \E i \in OwnAt(q) :
             /\ d < i * PageSize /\ i * PageSize =< Len(key)
             /\ w[p] = q.row[i] /\ Content(q, i) = p
        /\ \A i \in OwnAt(q) : d < i * PageSize /\ i * PageSize =< Len(key) =>
             \E p \in DOMAIN w \ DOMAIN v : w[p] = q.row[i]
    BY <1>5 DEF Gives
  <2>2. u.tree.value = w
    BY <1>19, <1>23
  <2> HIDE DEF v, w
  <2>3. ASSUME NEW i \in OwnAt(q), d < i * PageSize, i * PageSize =< Len(key)
        PROVE  q.row[i] \notin S
    <3>1. i * PageSize \in Int
      BY <1>7
    <3>2. q.row[i] \notin SA
      BY <1>5, <1>9, <1>12, <2>3, <3>1
    <3>3. q.row[i] \notin SB
      BY <1>4, <1>10, <1>12, <2>3, <3>1
    <3> QED
      BY <3>2, <3>3
  <2>4. ASSUME NEW i \in OwnAt(q)
        PROVE  (\E p \in DOMAIN w \ DOMAIN v : w[p] = q.row[i]) \/ q.row[i] \in S
    <3>1. i * PageSize \in Int
      BY <1>7
    <3>2. CASE i * PageSize =< d
      BY <1>9, <3>2
    <3>3. CASE d < i * PageSize /\ i * PageSize =< Len(key)
      BY <2>1, <3>3
    <3>4. CASE Len(key) < i * PageSize
      BY <1>10, <3>4
    <3> QED
      BY <1>4, <1>5, <3>1, <3>2, <3>3, <3>4
  <2>5. \A p \in S : \E i \in OwnAt(q) : q.row[i] = p
    BY <1>9, <1>10
  <2>6. \A p \in DOMAIN w \ DOMAIN v : \E i \in OwnAt(q) :
          w[p] = q.row[i] /\ Content(q, i) = p /\ w[p] \notin S
    BY <2>1, <2>3
  <2>7. \A x \in Reqs : x # r => u.req[x] = s.req[x]
    BY <1>18, <1>21, <1>22
  <2>8. TreeOK(u.tree, [Hold(s.req) EXCEPT ![r] = Root])
        /\ Freed(s.free, s.kv, S, u.free, u.kv)
    BY <1>18, <1>19, <1>23 DEF hold
  <2>9. u \in StateType /\ Empty(u.req[r])
    BY <1>22
  <2> HIDE DEF S, q
  <2> QED
    BY <2>1, <2>2, <2>4, <2>5, <2>6, <2>7, <2>8, <2>9 DEF Vacates, v, q
<1>25. Good(u)
  BY <1>24, VacateOK
<1>26. Released(s, u, r)
  BY <1>18, <1>21, <1>22, <1>25 DEF Released
<1> QED
  BY <1>0, <1>26

\* A state with another request r.
Replaces(s, u, r, q2) ==
  s \in StateType /\ r \in Reqs /\ q2 \in ReqType /\ u = [s EXCEPT !.req[r] = q2]

Replaced(s, u, r, q2) ==
  /\ u \in StateType /\ u.tree = s.tree /\ u.free = s.free /\ u.kv = s.kv
  /\ u.fault = s.fault /\ u.req[r] = q2
  /\ \A x \in Reqs : x # r => u.req[x] = s.req[x]

\* Only the request changes.
LEMMA WithReq ==
  ASSUME NEW s, NEW u, NEW r, NEW q2, Replaces(s, u, r, q2)
  PROVE  Replaced(s, u, r, q2)
<1> SUFFICES ASSUME s \in StateType, r \in Reqs, q2 \in ReqType,
                    u = [s EXCEPT !.req[r] = q2]
             PROVE  Replaced(s, u, r, q2)
  BY DEF Replaces
<1> DEFINE rq2 == [s.req EXCEPT ![r] = q2]
<1>1. s.req \in [Reqs -> ReqType]
  BY StateFacts
<1>2. u = [s EXCEPT !.req = rq2]
  BY DEF StateType
<1>3. rq2 \in [Reqs -> ReqType] /\ rq2[r] = q2 /\ \A x \in Reqs : x # r => rq2[x] = s.req[x]
  BY <1>1
<1> HIDE DEF rq2
<1>4. /\ u \in StateType /\ u.tree = s.tree /\ u.free = s.free /\ u.kv = s.kv
      /\ u.fault = s.fault /\ u.req = rq2
  BY <1>2, <1>3 DEF StateType
<1> QED
  BY <1>3, <1>4 DEF Replaced

\* A request without KV becomes another one.
Swaps(s, u, r) ==
  /\ u \in StateType /\ u.tree = s.tree /\ u.free = s.free /\ u.kv = s.kv
  /\ u.fault = s.fault /\ Empty(s.req[r]) /\ Empty(u.req[r])
  /\ \A x \in Reqs : x # r => u.req[x] = s.req[x]

\* That keeps the pages in order.
LEMMA SwapOK ==
  ASSUME NEW s, Good(s), NEW r \in Reqs, NEW u, Swaps(s, u, r)
  PROVE  Good(u)
<1>1. /\ u \in StateType /\ u.tree = s.tree /\ u.free = s.free /\ u.kv = s.kv
      /\ Empty(s.req[r]) /\ Empty(u.req[r])
      /\ \A x \in Reqs : x # r => u.req[x] = s.req[x]
  BY DEF Swaps
<1>2. TreeOK(s.tree, Hold(s.req)) /\ s.req[r] \in ReqType
  BY GoodFacts
<1>3. Hold(s.req) = [Hold(s.req) EXCEPT ![r] = Root]
  BY <1>1 DEF Hold, Empty
<1>4. TreeOK(u.tree, [Hold(s.req) EXCEPT ![r] = Root])
  BY <1>1, <1>2, <1>3
<1>5. OwnAt(s.req[r]) = {}
  BY <1>1, <1>2, EmptyRow
<1>6. Freed(s.free, s.kv, {}, u.free, u.kv)
  BY <1>1 DEF Freed
<1>7. Vacates(s, u, r, {})
  BY <1>1, <1>4, <1>5, <1>6 DEF Vacates
<1> QED
  BY <1>7, VacateOK

\* A request goes back to the queue with the tokens that were processed.
LEMMA RequeueOK ==
  ASSUME NEW s, Good(s), NEW r \in Reqs, Empty(s.req[r]),
         s.req[r].known =< Len(s.req[r].toks)
  PROVE  LET u == Requeue(s, r)
         IN  /\ Good(u) /\ u.fault = s.fault
             /\ \A x \in Reqs : x # r => u.req[x] = s.req[x]
             /\ Empty(u.req[r]) /\ u.req[r].st = "waiting"
             /\ Len(u.req[r].toks) = s.req[r].known /\ u.req[r].known = s.req[r].known
             /\ u.req[r].plen = s.req[r].plen /\ u.req[r].max_new = s.req[r].max_new
<1> DEFINE q == s.req[r]
           a == SubSeq(q.toks, 1, q.known)
           q2 == [q EXCEPT !.st = "waiting", !.toks = a]
           u == Requeue(s, r)
<1>1. s \in StateType /\ q \in ReqType
  BY GoodFacts
<1>2. q.toks \in Path /\ q.known \in Nat /\ Len(q.toks) \in Nat
  BY <1>1 DEF ReqType, Path
<1>3. a \in Path /\ Len(a) = q.known
  <2>1. q.known \in 0..Len(q.toks)
    BY <1>2
  <2> QED
    BY <1>2, <2>1, Cut
<1>4. u = [s EXCEPT !.req[r] = q2]
  BY <1>1 DEF Requeue, StateType
<1> HIDE DEF a, u
<1>5. /\ q2 \in ReqType /\ q2.st = "waiting" /\ q2.toks = a /\ q2.known = q.known
      /\ q2.plen = q.plen /\ q2.max_new = q.max_new /\ q2.row = q.row
      /\ q2.kv_len = q.kv_len /\ q2.cache_protected_len = q.cache_protected_len
      /\ q2.last_node = q.last_node /\ q2.fill = q.fill
  BY <1>1, <1>3 DEF ReqType
<1> HIDE DEF q2
<1>6. /\ u \in StateType /\ u.tree = s.tree /\ u.free = s.free /\ u.kv = s.kv
      /\ u.fault = s.fault /\ u.req[r] = q2
      /\ \A x \in Reqs : x # r => u.req[x] = s.req[x]
  <2>1. Replaces(s, u, r, q2)
    BY <1>1, <1>4, <1>5 DEF Replaces
  <2> QED
    BY <2>1, WithReq DEF Replaced
<1>7. Empty(q2)
  BY <1>5 DEF Empty
<1>8. Swaps(s, u, r)
  BY <1>6, <1>7 DEF Swaps
<1>9. Good(u)
  BY <1>8, SwapOK
<1> QED
  BY <1>3, <1>5, <1>6, <1>7, <1>9 DEF u

\* The slot of a request that is over.
LEMMA NoReqFacts == NoReq \in ReqType /\ Empty(NoReq) /\ NoReq.st = "idle"
<1>1. Root \in Path /\ <<>> \in Path /\ <<>> \in Seq(Pages)
  BY RootFacts DEF Path
<1> QED
  BY <1>1 DEF NoReq, ReqType, Empty

\* A request that has released its KV is over.
LEMMA OverOK ==
  ASSUME NEW s, Good(s), NEW r \in Reqs, Empty(s.req[r])
  PROVE  LET u == [s EXCEPT !.req[r] = NoReq]
         IN  /\ Good(u) /\ u.fault = s.fault /\ u.req[r] = NoReq
             /\ \A x \in Reqs : x # r => u.req[x] = s.req[x]
<1> DEFINE u == [s EXCEPT !.req[r] = NoReq]
<1>1. s \in StateType /\ NoReq \in ReqType /\ Empty(NoReq)
  BY GoodFacts, NoReqFacts
<1>0. u = [s EXCEPT !.req[r] = NoReq]
  OBVIOUS
<1> HIDE DEF u
<1>2. /\ u \in StateType /\ u.tree = s.tree /\ u.free = s.free /\ u.kv = s.kv
      /\ u.fault = s.fault /\ u.req[r] = NoReq
      /\ \A x \in Reqs : x # r => u.req[x] = s.req[x]
  <2>1. Replaces(s, u, r, NoReq)
    BY <1>0, <1>1 DEF Replaces
  <2> QED
    BY <2>1, WithReq DEF Replaced
<1>3. Swaps(s, u, r)
  BY <1>1, <1>2 DEF Swaps
<1>4. Good(u)
  BY <1>3, SwapOK
<1> QED
  BY <1>2, <1>4 DEF u

-----------------------------------------------------------------------------
(* Admission                                                               *)

\* The state in which the budget of a request that matched m is read.
Admitted(s, r, m) ==
  [s EXCEPT !.tree = IncLockRef(SplitNode(s.tree, m), m),
            !.req[r].row = [i \in 1..(Len(m) \div PageSize) |->
                              s.tree.value[PagePrefix(m, i)]],
            !.req[r].cache_protected_len = Len(m),
            !.req[r].last_node = m]

\* A request that is admitted reads the prefix it pins.
LEMMA AdmittedOK ==
  ASSUME NEW s, Good(s), NEW r \in Reqs, Empty(s.req[r]),
         NEW m \in DOMAIN s.tree.value \cup {Root}, m \in Path, Len(m) % PageSize = 0,
         IsPrefix(m, s.req[r].toks)
  PROVE  LET u == Admitted(s, r, m)
         IN  /\ Good(u) /\ u.fault = s.fault
             /\ \A x \in Reqs : x # r => u.req[x] = s.req[x]
             /\ SameCore(s.req[r], u.req[r])
             /\ u.req[r].kv_len = 0 /\ u.req[r].cache_protected_len = Len(m)
             /\ u.tree = IncLockRef(SplitNode(s.tree, m), m) /\ u.free = s.free
<1> DEFINE q == s.req[r]
           t == s.tree
           k == Len(m) \div PageSize
           T == IncLockRef(SplitNode(t, m), m)
           R == [i \in 1..(Len(m) \div PageSize) |-> t.value[PagePrefix(m, i)]]
           u == Admitted(s, r, m)
           q2 == u.req[r]
           hold == Hold(s.req)
<1>1. /\ s \in StateType /\ TreeShape(t) /\ TreeOK(t, hold) /\ q \in ReqType
      /\ PagesOK(t.value, s.free, s.req, s.kv) /\ DOMAIN hold = Reqs
      /\ hold[r] = q.last_node
  BY GoodFacts
<1>2. q.toks \in Path /\ Len(q.toks) \in Nat /\ q.last_node = Root /\ q.kv_len = 0
  BY <1>1 DEF ReqType, Path, Empty
<1>3. /\ Len(m) \in Nat /\ k \in Nat /\ k * PageSize = Len(m)
      /\ Len(m) \in 0..Len(q.toks) /\ m = SubSeq(q.toks, 1, Len(m))
  BY <1>2, PrefixIsCut, PrefixOrder, PageDivision
<1>4. TreeOK(T, [hold EXCEPT ![r] = m]) /\ T.value = t.value
      /\ m \in T.nodes \cup {Root}
  <2> DEFINE t1 == SplitNode(t, m)
  <2>1. TreeOK(t1, hold) /\ t1.value = t.value /\ m \in t1.nodes \cup {Root}
    BY <1>1, SplitOK
  <2> HIDE DEF t1, hold
  <2>2. TreeOK(IncLockRef(t1, m), [hold EXCEPT ![r] = m])
        /\ IncLockRef(t1, m).value = t1.value /\ IncLockRef(t1, m).nodes = t1.nodes
    BY <1>1, <1>2, <2>1, IncOK
  <2> QED
    BY <2>1, <2>2 DEF t1
<1>5. T \in TreeType /\ TreeShape(T)
  BY <1>4 DEF TreeOK, TreeShape
<1>6. ASSUME NEW i \in 1..k
      PROVE  /\ PagePrefix(m, i) = PagePrefix(q.toks, i)
             /\ PagePrefix(m, i) \in DOMAIN t.value /\ t.value[PagePrefix(m, i)] \in Pages
  <2>1. i \in Int /\ i >= 1 /\ i =< k
    BY <1>3
  <2>2. i * PageSize =< Len(m) /\ i * PageSize \in Int
    BY <1>3, <2>1, PagePosition
  <2>3. i * PageSize \in 0..Len(m)
    BY <1>3, <2>1, <2>2, PageSizeFacts
  <2>4. PagePrefix(m, i) = PagePrefix(q.toks, i)
    <3>1. \A j \in 0..Len(m) : SubSeq(SubSeq(q.toks, 1, Len(m)), 1, j) = SubSeq(q.toks, 1, j)
      BY <1>2, <1>3, Cut
    <3> QED
      BY <1>3, <2>3, <3>1 DEF PagePrefix
  <2>5. i \in 0..k
    BY <1>3, <2>1
  <2> DEFINE p == PagePrefix(m, i)
  <2>6. p \in Path /\ Len(p) % PageSize = 0 /\ IsPrefix(p, m) /\ p # Root
    BY <2>1, <2>5, PagePrefixFacts
  <2> HIDE DEF p
  <2>7. m # Root
    BY <2>6, OnlyRootAboveRoot
  <2>8. PICK n \in t.nodes : IsPrefix(m, n)
    BY <1>1, <2>7, ShapeFacts
  <2>9. n \in Path
    BY <1>1, ShapeFacts
  <2>10. IsPrefix(p, n)
    BY <2>6, <2>8, <2>9, PrefixOrder
  <2>11. p \in DOMAIN t.value
    BY <1>1, <2>6, <2>8, <2>10, ShapeFacts DEF IsPagePath
  <2>12. t.value[p] \in Pages
    BY <1>1, <2>11 DEF PagesOK, TreePagesOK
  <2> QED
    BY <2>4, <2>11, <2>12 DEF p
<1>7. R \in Seq(Pages) /\ Len(R) = k /\ \A i \in 1..k : R[i] = t.value[PagePrefix(m, i)]
  <2>1. R = [i \in 1..k |-> t.value[PagePrefix(m, i)]]
    OBVIOUS
  <2>2. R = [i \in 1..k |-> R[i]] /\ \A i \in 1..k : R[i] = t.value[PagePrefix(m, i)]
    BY <2>1
  <2>3. \A i \in 1..k : R[i] \in Pages
    BY <1>6, <2>2
  <2> HIDE DEF R, k
  <2>4. R \in [1..k -> Pages]
    BY <2>2, <2>3
  <2>5. R \in Seq(Pages) /\ Len(R) = k
    BY <1>3, <2>4
  <2> QED
    BY <2>2, <2>5
<1>8. Reseated(s, u, r, T, s.fault, R, Len(m), m)
  <2> DEFINE c == Len(m)
             e == s.fault
  <2>1. u = [s EXCEPT !.tree = T, !.req[r].row = R,
                      !.req[r].cache_protected_len = c, !.req[r].last_node = m]
    BY Zenon DEF Admitted
  <2>2. e \in SUBSET STRING /\ c \in Nat
    BY <1>1, <1>3, StateFacts
  <2> HIDE DEF u, T, R, c
  <2>3. u = [s EXCEPT !.tree = T, !.fault = e, !.req[r].row = R,
                      !.req[r].cache_protected_len = c, !.req[r].last_node = m]
    <3> DEFINE s1 == [s EXCEPT !.tree = T]
               s2 == [s EXCEPT !.tree = T, !.fault = e]
    <3>1. s1 = s2
      BY <1>1 DEF StateType
    <3>2. u = [s1 EXCEPT !.req[r].row = R, !.req[r].cache_protected_len = c,
                         !.req[r].last_node = m]
      BY ONLY <2>1
    <3>3. u = [s2 EXCEPT !.req[r].row = R, !.req[r].cache_protected_len = c,
                         !.req[r].last_node = m]
      <4> HIDE DEF s1, s2
      <4> QED
        BY ONLY <3>1, <3>2
    <3> QED
      BY ONLY <3>3
  <2> HIDE DEF e
  <2>4. Reseats(s, u, r, T, e, R, c, m)
    BY <1>1, <1>5, <1>7, <2>2, <2>3, Zenon DEF Reseats
  <2>5. Reseated(s, u, r, T, e, R, c, m)
    BY <2>4, Reseat, Zenon
  <2> QED
    BY <2>5 DEF e, c
<1> HIDE DEF u, T, R, k
<1>9. /\ u \in StateType /\ u.tree = T /\ u.fault = s.fault /\ u.free = s.free /\ u.kv = s.kv
      /\ \A x \in Reqs : x # r => u.req[x] = s.req[x]
      /\ SameCore(q, q2) /\ q2.row = R /\ q2.cache_protected_len = Len(m)
      /\ q2.last_node = m /\ q2.kv_len = 0
  BY <1>2, <1>8 DEF Reseated
<1> HIDE DEF q2, q
<1>10. q2.toks = q.toks /\ q2 \in ReqType
  BY <1>9, StateFacts DEF SameCore, q2
<1>11. RowShape(q2)
  <2>1. Covered(q2) = Len(m)
    BY <1>3, <1>9 DEF Covered
  <2>2. CeilAlign(Len(m)) = Len(m)
    BY <1>3, CeilOrder
  <2> QED
    BY <1>3, <1>7, <1>9, <1>10, <2>1, <2>2 DEF RowShape
<1>12. OwnAt(q2) = {}
  <2>1. q2.cache_protected_len \div PageSize = k
    BY <1>9 DEF k
  <2> QED
    BY <1>3, <1>7, <1>9, <2>1 DEF OwnAt
<1>13. OwnAt(q) = {}
  BY <1>1, EmptyRow DEF q
<1>14. ReadsTree(t.value, q2)
  <2>1. q2.cache_protected_len \div PageSize = k
    BY <1>9 DEF k
  <2> QED
    BY <1>6, <1>7, <1>9, <1>10, <2>1 DEF ReadsTree
<1>15. Settles(t.value, T.value, q, q2, {})
  BY <1>4, <1>12, <1>13, <1>14 DEF Settles
<1>16. Freed(s.free, s.kv, {}, u.free, u.kv)
  BY <1>9 DEF Freed
<1>17. SettledTo(s, u, r, {})
  BY <1>4, <1>9, <1>11, <1>15, <1>16 DEF SettledTo, q, q2
<1>18. Good(u)
  BY <1>17, SettleOK
<1> QED
  BY <1>9, <1>18 DEF q, q2, T, u

-----------------------------------------------------------------------------
(* The budget                                                              *)

\* Sums of the same numbers.
LEMMA SameSum ==
  ASSUME NEW S, IsFiniteSet(S), NEW w, NEW v,
         \A r \in S : w[r] \in Nat /\ v[r] \in Nat /\ w[r] = v[r]
  PROVE  SumFunctionOnSet(w, S) = SumFunctionOnSet(v, S)
<1> DEFINE a == SumFunctionOnSet(w, S)
           b == SumFunctionOnSet(v, S)
           n == Cardinality(S)
<1>1. a \in Nat /\ b \in Nat /\ n \in Nat
  BY SumInNat, FS_CardinalityType
<1>2. \A r \in S : w[r] \in Nat /\ v[r] \in Nat /\ 1 * w[r] =< v[r] + 0 /\ 1 * v[r] =< w[r] + 0
  OBVIOUS
<1>3. 1 * a =< b + 0 * n
  BY <1>2, SumBound
<1>4. 1 * b =< a + 0 * n
  BY <1>2, SumBound
<1> HIDE DEF a, b, n
<1> QED
  BY <1>1, <1>3, <1>4 DEF a, b

\* Own positions, counted.
LEMMA OwnCount ==
  ASSUME NEW q \in ReqType, RowShape(q)
  PROVE  /\ Cardinality(OwnAt(q)) = Len(q.row) - q.cache_protected_len \div PageSize
         /\ Cardinality(OwnAt(q)) \in Nat /\ q.cache_protected_len \div PageSize \in Nat
         /\ Len(q.row) \in Nat
<1> DEFINE c == q.cache_protected_len \div PageSize
           n == Len(q.row)
<1>1. n \in Nat /\ c \in 0..n
  BY RowFacts
<1>2. OwnAt(q) = (c + 1)..n
  BY DEF OwnAt
<1> HIDE DEF c, n
<1>3. Cardinality((c + 1)..n) = n - c
  <2> DEFINE a == c + 1
  <2>1. a \in Int /\ n \in Int /\ c \in Int /\ c =< n
    BY <1>1
  <2>2. a = c + 1
    OBVIOUS
  <2> HIDE DEF a
  <2>3. Cardinality(a..n) = IF a > n THEN 0 ELSE n - a + 1
    BY <2>1, FS_Interval
  <2>4. Cardinality(a..n) = n - c
    BY <2>1, <2>2, <2>3
  <2> QED
    BY <2>4 DEF a
<1> QED
  BY <1>1, <1>2, <1>3 DEF c, n

\* The sum of the own pages, with one request set apart.
LEMMA OwnSumMember ==
  ASSUME NEW rq, RowsOK(rq), NEW r \in Reqs
  PROVE  LET w == [x \in Reqs |-> Cardinality(OwnAt(rq[x]))]
         IN  /\ OwnSum(rq) = Cardinality(OwnAt(rq[r])) + SumFunctionOnSet(w, Reqs \ {r})
             /\ SumFunctionOnSet(w, Reqs \ {r}) \in Nat
             /\ \A x \in Reqs : w[x] = Cardinality(OwnAt(rq[x])) /\ w[x] \in Nat
<1> DEFINE w == [x \in Reqs |-> Cardinality(OwnAt(rq[x]))]
<1>1. IsFiniteSet(Reqs) /\ IsFiniteSet(Reqs \ {r})
  BY PoolAssumption, FS_Subset
<1>2. \A x \in Reqs : w[x] = Cardinality(OwnAt(rq[x])) /\ w[x] \in Nat
  BY OwnCount DEF RowsOK
<1>3. OwnSum(rq) = SumFunctionOnSet(w, Reqs)
  BY DEF OwnSum
<1> HIDE DEF w
<1>4. Reqs \in SUBSET Reqs
  OBVIOUS
<1>5. SumFunctionOnSet(w, Reqs) = w[r] + SumFunctionOnSet(w, Reqs \ {r})
  BY <1>1, <1>2, <1>4, SumMember
<1>6. SumFunctionOnSet(w, Reqs \ {r}) \in Nat
  BY <1>1, <1>2, SumInNat
<1> QED
  BY <1>2, <1>3, <1>5, <1>6 DEF w

\* One request changes: the budget loses at most the pages it came to hold.
LEMMA BudgetMove ==
  ASSUME NEW rq, RowsOK(rq), IsFiniteSet(HeldPagePaths(rq)), NEW rq2, RowsOK(rq2),
         NEW r \in Reqs, \A x \in Reqs : x # r => rq2[x] = rq[x],
         NEW X, IsFiniteSet(X),
         PagePaths({rq2[r].last_node}) \subseteq PagePaths({rq[r].last_node}) \cup X,
         NEW k \in Nat,
         Cardinality(X) + Cardinality(OwnAt(rq2[r])) =< Cardinality(OwnAt(rq[r])) + k
  PROVE  /\ Budget(rq) \in Int /\ Budget(rq2) \in Int
         /\ Budget(rq) - k * PageSize =< Budget(rq2)
<1> DEFINE H == HeldPagePaths(rq)
           H2 == HeldPagePaths(rq2)
           L == {rq[x].last_node : x \in Reqs}
           L2 == {rq2[x].last_node : x \in Reqs}
<1>1. H2 \subseteq H \cup X
  <2>1. ASSUME NEW p \in H2
        PROVE  p \in H \cup X
    <3>1. PICK n \in L2 : p \in {PagePrefix(n, i) : i \in 1..(Len(n) \div PageSize)}
      BY DEF HeldPagePaths, PagePaths
    <3>2. PICK x \in Reqs : n = rq2[x].last_node
      BY <3>1
    <3>3. CASE x # r
      <4>1. n \in L
        BY <3>2, <3>3
      <4> QED
        BY <3>1, <4>1 DEF HeldPagePaths, PagePaths
    <3>4. CASE x = r
      <4>1. p \in PagePaths({rq2[r].last_node})
        BY <3>1, <3>2, <3>4 DEF PagePaths
      <4>2. PagePaths({rq[r].last_node}) \subseteq H
        BY DEF HeldPagePaths, PagePaths
      <4> QED
        BY <4>1, <4>2
    <3> QED
      BY <3>3, <3>4
  <2> QED
    BY <2>1
<1> DEFINE h == Cardinality(H)
           h2 == Cardinality(H2)
           c == OwnSum(rq)
           c2 == OwnSum(rq2)
           o == Cardinality(OwnAt(rq[r]))
           o2 == Cardinality(OwnAt(rq2[r]))
           y == Cardinality(X)
<1>2. h \in Nat /\ h2 \in Nat /\ y \in Nat /\ h2 =< h + y
  <2> HIDE DEF H, H2
  <2>1. IsFiniteSet(H) /\ IsFiniteSet(H \cup X) /\ Cardinality(H \cup X) =< h + y
    <3>1. IsFiniteSet(H)
      BY DEF H
    <3>2. /\ IsFiniteSet(H \cup X) /\ Cardinality(H \cup X) = h + y - Cardinality(H \cap X)
      BY <3>1, FS_Union
    <3>3. Cardinality(H \cap X) \in Nat /\ h \in Nat /\ y \in Nat
      BY <3>1, FS_Intersection, FS_CardinalityType
    <3> QED
      BY <3>1, <3>2, <3>3
  <2>2. IsFiniteSet(H2) /\ h2 =< Cardinality(H \cup X)
    BY <1>1, <2>1, FS_Subset
  <2>3. h \in Nat /\ h2 \in Nat /\ y \in Nat /\ Cardinality(H \cup X) \in Nat
    BY <2>1, <2>2, FS_CardinalityType
  <2> QED
    BY <2>1, <2>2, <2>3
<1>3. c \in Nat /\ c2 \in Nat /\ o \in Nat /\ o2 \in Nat /\ c2 - o2 = c - o
  <2> DEFINE w == [x \in Reqs |-> Cardinality(OwnAt(rq[x]))]
             w2 == [x \in Reqs |-> Cardinality(OwnAt(rq2[x]))]
             b == SumFunctionOnSet(w, Reqs \ {r})
             b2 == SumFunctionOnSet(w2, Reqs \ {r})
  <2>1. /\ c = o + b /\ b \in Nat
        /\ \A x \in Reqs : w[x] = Cardinality(OwnAt(rq[x])) /\ w[x] \in Nat
    BY OwnSumMember
  <2>2. /\ c2 = o2 + b2 /\ b2 \in Nat
        /\ \A x \in Reqs : w2[x] = Cardinality(OwnAt(rq2[x])) /\ w2[x] \in Nat
    BY OwnSumMember
  <2>3. o \in Nat /\ o2 \in Nat
    BY <2>1, <2>2
  <2> HIDE DEF w, w2
  <2>4. IsFiniteSet(Reqs \ {r})
    BY PoolAssumption, FS_Subset
  <2>5. \A x \in Reqs \ {r} : w[x] \in Nat /\ w2[x] \in Nat /\ w[x] = w2[x]
    BY <2>1, <2>2
  <2>6. b = b2
    BY <2>4, <2>5, SameSum
  <2> HIDE DEF b, b2, c, c2, o, o2
  <2> QED
    BY <2>1, <2>2, <2>3, <2>6
<1>4. Budget(rq) = (NumPages - h - c) * PageSize /\ Budget(rq2) = (NumPages - h2 - c2) * PageSize
  BY DEF Budget, OwnSum, HeldPagePaths
<1>5. y + o2 =< o + k
  OBVIOUS
<1> HIDE DEF h, h2, c, c2, o, o2, y
<1>6. h2 + c2 =< h + c + k
  BY <1>2, <1>3, <1>5
<1> DEFINE A == NumPages - h - c
           A2 == NumPages - h2 - c2
<1>7. A \in Int /\ A2 \in Int /\ A - k =< A2 /\ NumPages \in Nat
  BY <1>2, <1>3, <1>6, PoolAssumption
<1>8. Budget(rq) = A * PageSize /\ Budget(rq2) = A2 * PageSize
  BY <1>4
<1> HIDE DEF A, A2
<1>9. (A - k) * PageSize =< A2 * PageSize
  BY <1>7, PageMonotone
<1>10. (A - k) * PageSize = A * PageSize - k * PageSize
  BY <1>7, PageSizeFacts
<1>11. A * PageSize \in Int /\ A2 * PageSize \in Int
  BY <1>7, PageSizeFacts
<1> QED
  BY <1>8, <1>9, <1>10, <1>11

\* The page paths of one node.
LEMMA NodePaths ==
  ASSUME NEW n \in Path
  PROVE  /\ IsFiniteSet(PagePaths({n})) /\ Cardinality(PagePaths({n})) = Len(n) \div PageSize
         /\ \A p : p \in PagePaths({n}) <=> IsPagePath(p) /\ IsPrefix(p, n)
         /\ Len(n) \div PageSize \in Nat
<1> DEFINE k == Len(n) \div PageSize
           at == [i \in 1..k |-> PagePrefix(n, i)]
           N == PagePaths({n})
<1>1. k \in Nat
  BY PageDivision, PrefixOrder
<1>2. N = {PagePrefix(n, i) : i \in 1..k}
  BY DEF PagePaths
<1>3. \A i \in 1..k : Len(PagePrefix(n, i)) \div PageSize = i
  <2>1. \A i \in 1..k : i \in 0..k
    BY <1>1
  <2> QED
    BY <2>1, PagePrefixFacts
<1>4. at \in [1..k -> N] /\ \A y \in N : \E i \in 1..k : at[i] = y
  BY <1>2
<1>5. \A i, j \in 1..k : at[i] = at[j] => i = j
  <2>1. \A i \in 1..k : at[i] = PagePrefix(n, i)
    OBVIOUS
  <2> HIDE DEF at
  <2> QED
    BY <1>3, <2>1
<1>6. IsFiniteSet(1..k) /\ Cardinality(1..k) = k
  <2> HIDE DEF k
  <2> QED
    BY <1>1, FS_Interval
<1> HIDE DEF at, k, N
<1>7. IsFiniteSet(N) /\ Cardinality(N) = k
  BY <1>4, <1>5, <1>6, SameSize
<1>8. {n} \in SUBSET Path
  OBVIOUS
<1>9. \A p : p \in N <=> IsPagePath(p) /\ \E m \in {n} : IsPrefix(p, m)
  BY <1>8, PagePathFacts DEF N
<1> QED
  BY <1>1, <1>7, <1>9 DEF N, k

\* Giving pages to the tree does not lower the budget.
LEMMA BudgetCache ==
  ASSUME NEW s, Good(s), NEW u, Good(u), NEW r \in Reqs,
         \A x \in Reqs : x # r => u.req[x] = s.req[x],
         u.req[r].toks = s.req[r].toks, Len(u.req[r].row) = Len(s.req[r].row),
         s.req[r].cache_protected_len =< u.req[r].cache_protected_len
  PROVE  /\ Budget(s.req) \in Int /\ Budget(u.req) \in Int
         /\ Budget(s.req) =< Budget(u.req)
<1> DEFINE q == s.req[r]
           q2 == u.req[r]
           A == PagePaths({q.last_node})
           A2 == PagePaths({q2.last_node})
           X == A2 \ A
<1>1. RowsOK(s.req) /\ RowsOK(u.req) /\ q \in ReqType /\ RowShape(q)
      /\ q2 \in ReqType /\ RowShape(q2) /\ IsFiniteSet(HeldPagePaths(s.req))
  BY GoodFacts, ProtectedPages
<1>2. /\ q.last_node \in Path /\ Len(q.last_node) = q.cache_protected_len
      /\ q2.last_node \in Path /\ Len(q2.last_node) = q2.cache_protected_len
      /\ IsPrefix(q.last_node, q.toks) /\ IsPrefix(q2.last_node, q2.toks)
      /\ q.toks \in Path
  BY <1>1, RowFacts
<1>3. IsPrefix(q.last_node, q2.last_node)
  BY <1>2, PrefixOrder
<1> DEFINE c == q.cache_protected_len \div PageSize
           c2 == q2.cache_protected_len \div PageSize
<1>4. /\ IsFiniteSet(A) /\ Cardinality(A) = c /\ c \in Nat
      /\ \A p : p \in A <=> IsPagePath(p) /\ IsPrefix(p, q.last_node)
      /\ IsFiniteSet(A2) /\ Cardinality(A2) = c2 /\ c2 \in Nat
      /\ \A p : p \in A2 <=> IsPagePath(p) /\ IsPrefix(p, q2.last_node)
  BY <1>2, NodePaths
<1> HIDE DEF A, A2
<1>5. A \subseteq A2
  <2>1. ASSUME NEW p \in A
        PROVE  p \in A2
    <3>1. IsPagePath(p) /\ IsPrefix(p, q.last_node) /\ p \in Path
      BY <1>4 DEF IsPagePath
    <3>2. IsPrefix(p, q2.last_node)
      BY <1>2, <1>3, <3>1, PrefixOrder
    <3> QED
      BY <1>4, <3>1, <3>2
  <2> QED
    BY <2>1
<1>6. IsFiniteSet(X) /\ Cardinality(X) = c2 - c
  <2>1. Cardinality(A2 \cap A) = c
    <3>1. A2 \cap A = A
      BY <1>5
    <3> QED
      BY <1>4, <3>1, Zenon
  <2>2. IsFiniteSet(A2 \ A) /\ Cardinality(A2 \ A) = Cardinality(A2) - Cardinality(A2 \cap A)
    BY <1>4, FS_Difference
  <2> QED
    BY <1>4, <2>1, <2>2
<1>7. A2 \subseteq A \cup X
  OBVIOUS
<1> HIDE DEF X
<1>8. /\ Cardinality(OwnAt(q)) = Len(q.row) - c /\ Len(q.row) \in Nat
      /\ Cardinality(OwnAt(q2)) = Len(q2.row) - c2
  BY <1>1, OwnCount
<1>9. Cardinality(X) + Cardinality(OwnAt(q2)) =< Cardinality(OwnAt(q)) + 0
  <2> HIDE DEF c, c2
  <2> QED
    BY <1>4, <1>6, <1>8
<1>10. /\ Budget(s.req) \in Int /\ Budget(u.req) \in Int
       /\ Budget(s.req) - 0 * PageSize =< Budget(u.req)
  BY <1>1, <1>6, <1>7, <1>9, BudgetMove DEF A, A2
<1>11. 0 * PageSize = 0
  BY PageSizeFacts
<1> QED
  BY <1>10, <1>11

\* A release does not lower it either.
LEMMA BudgetRelease ==
  ASSUME NEW s, Good(s), NEW u, Good(u), NEW r \in Reqs, Empty(u.req[r]),
         \A x \in Reqs : x # r => u.req[x] = s.req[x]
  PROVE  /\ Budget(s.req) \in Int /\ Budget(u.req) \in Int
         /\ Budget(s.req) =< Budget(u.req)
<1> DEFINE q == s.req[r]
           q2 == u.req[r]
<1>1. RowsOK(s.req) /\ RowsOK(u.req) /\ q \in ReqType /\ RowShape(q)
      /\ q2 \in ReqType /\ IsFiniteSet(HeldPagePaths(s.req))
  BY GoodFacts, ProtectedPages
<1>2. OwnAt(q2) = {} /\ q2.last_node = Root
  BY <1>1, EmptyRow DEF Empty
<1>3. Cardinality(OwnAt(q)) \in Nat
  BY <1>1, OwnCount
<1>4. Cardinality(OwnAt(q2)) = 0 /\ IsFiniteSet({}) /\ Cardinality({}) = 0
  BY <1>2, FS_EmptySet
<1>5. PagePaths({q2.last_node}) = {}
  <2>1. ASSUME NEW p \in PagePaths({Root})
        PROVE  FALSE
    <3>1. IsPagePath(p) /\ IsPrefix(p, Root)
      BY <2>1, NodePaths, RootFacts
    <3> QED
      BY <3>1, OnlyRootAboveRoot DEF IsPagePath
  <2> QED
    BY <1>2, <2>1
<1>6. PagePaths({q2.last_node}) \subseteq PagePaths({q.last_node}) \cup {}
  BY <1>5
<1>7. Cardinality({}) + Cardinality(OwnAt(q2)) =< Cardinality(OwnAt(q)) + 0
  BY <1>3, <1>4
<1>8. /\ Budget(s.req) \in Int /\ Budget(u.req) \in Int
      /\ Budget(s.req) - 0 * PageSize =< Budget(u.req)
  BY <1>1, <1>4, <1>6, <1>7, BudgetMove
<1>9. 0 * PageSize = 0
  BY PageSizeFacts
<1> QED
  BY <1>8, <1>9

\* A row that grows by k pages costs k pages.
LEMMA BudgetGrow ==
  ASSUME NEW s, Good(s), NEW u, Good(u), NEW r \in Reqs,
         \A x \in Reqs : x # r => u.req[x] = s.req[x],
         u.req[r].last_node = s.req[r].last_node,
         u.req[r].cache_protected_len = s.req[r].cache_protected_len,
         NEW k \in Nat, Len(u.req[r].row) = Len(s.req[r].row) + k
  PROVE  /\ Budget(s.req) \in Int /\ Budget(u.req) \in Int
         /\ Budget(s.req) - k * PageSize =< Budget(u.req)
<1> DEFINE q == s.req[r]
           q2 == u.req[r]
<1>1. RowsOK(s.req) /\ RowsOK(u.req) /\ q \in ReqType /\ RowShape(q)
      /\ q2 \in ReqType /\ RowShape(q2) /\ IsFiniteSet(HeldPagePaths(s.req))
  BY GoodFacts, ProtectedPages
<1>2. /\ Cardinality(OwnAt(q)) = Len(q.row) - q.cache_protected_len \div PageSize
      /\ Cardinality(OwnAt(q2)) = Len(q2.row) - q.cache_protected_len \div PageSize
      /\ q.cache_protected_len \div PageSize \in Nat /\ Len(q.row) \in Nat
  BY <1>1, OwnCount
<1>3. IsFiniteSet({}) /\ Cardinality({}) = 0
  BY FS_EmptySet
<1>4. PagePaths({q2.last_node}) \subseteq PagePaths({q.last_node}) \cup {}
  OBVIOUS
<1>5. Cardinality({}) + Cardinality(OwnAt(q2)) =< Cardinality(OwnAt(q)) + k
  BY <1>2, <1>3
<1> QED
  BY <1>1, <1>3, <1>4, <1>5, BudgetMove

\* When only request r holds KV, all but its own pages are left.
LEMMA BudgetAlone ==
  ASSUME NEW s, Good(s), NEW r \in Reqs, \A x \in Reqs : x # r => Empty(s.req[x]),
         s.req[r].cache_protected_len =< s.req[r].kv_len
  PROVE  /\ Budget(s.req) \in Int
         /\ Budget(s.req) >= NumPages * PageSize - CeilAlign(s.req[r].kv_len)
<1> DEFINE q == s.req[r]
           rq == s.req
           H == HeldPagePaths(rq)
           h == Cardinality(H)
           c == q.cache_protected_len \div PageSize
           n == Len(q.row)
           o == OwnSum(rq)
<1>1. RowsOK(rq) /\ q \in ReqType /\ RowShape(q) /\ IsFiniteSet(H)
      /\ \A x \in Reqs : rq[x] \in ReqType
  BY GoodFacts, ProtectedPages
<1>2. /\ c \in Nat /\ n \in Nat /\ Cardinality(OwnAt(q)) = n - c
      /\ Cardinality(OwnAt(q)) \in Nat
  BY <1>1, OwnCount
<1>3. n * PageSize = CeilAlign(q.kv_len)
  BY <1>1, RowEnds
<1>4. h \in Nat /\ h =< c
  <2> DEFINE A == PagePaths({q.last_node})
  <2>1. q.last_node \in Path /\ Len(q.last_node) = q.cache_protected_len
    BY <1>1, RowFacts
  <2>2. IsFiniteSet(A) /\ Cardinality(A) = c
    BY <2>1, NodePaths
  <2>3. H \subseteq A
    <3>1. ASSUME NEW p \in H
          PROVE  p \in A
      <4>1. PICK x \in Reqs : p \in {PagePrefix(rq[x].last_node, i) :
                                       i \in 1..(Len(rq[x].last_node) \div PageSize)}
        BY DEF HeldPagePaths, PagePaths
      <4>2. CASE x = r
        BY <4>1, <4>2 DEF PagePaths
      <4>3. CASE x # r
        <5>1. rq[x].last_node = Root
          BY <4>3 DEF Empty
        <5>2. Len(Root) \div PageSize = 0
          BY RootFacts, PageSizeFacts
        <5> QED
          BY <4>1, <5>1, <5>2
      <4> QED
        BY <4>2, <4>3
    <3> QED
      BY <3>1
  <2> HIDE DEF A, H
  <2>4. h =< Cardinality(A)
    BY <2>2, <2>3, FS_Subset
  <2> QED
    BY <1>1, <2>2, <2>4, FS_CardinalityType
<1>5. o = n - c
  <2> DEFINE w == [x \in Reqs |-> Cardinality(OwnAt(rq[x]))]
             b == SumFunctionOnSet(w, Reqs \ {r})
  <2>1. /\ o = Cardinality(OwnAt(q)) + b
        /\ \A x \in Reqs : w[x] = Cardinality(OwnAt(rq[x])) /\ w[x] \in Nat
    BY <1>1, OwnSumMember
  <2>2. \A x \in Reqs \ {r} : w[x] = 0
    <3>1. \A x \in Reqs \ {r} : OwnAt(rq[x]) = {}
      BY <1>1, EmptyRow
    <3> QED
      BY <2>1, <3>1, FS_EmptySet
  <2> HIDE DEF w
  <2>3. SumFunctionOnSet(w, Reqs \ {r}) = SumFunctionOnSet(w, {})
    <3> DEFINE Z == Reqs \ {r}
    <3>1. IsFiniteSet(Z) /\ {} \in SUBSET Z
      BY PoolAssumption, FS_Subset
    <3>2. \A x \in Z : w[x] \in Nat
      BY <2>1
    <3>3. \A x \in Z \ {} : w[x] = 0
      BY <2>2
    <3> HIDE DEF Z
    <3>4. SumFunctionOnSet(w, Z) = SumFunctionOnSet(w, {})
      BY <3>1, <3>2, <3>3, SumSupport
    <3> QED
      BY <3>4 DEF Z
  <2>4. b = 0
    BY <2>3, SumEmpty
  <2> HIDE DEF b
  <2> QED
    BY <1>2, <2>1, <2>4
<1>6. Budget(rq) = (NumPages - h - o) * PageSize
  BY DEF Budget, OwnSum, HeldPagePaths
<1> HIDE DEF h, o, n, c
<1> DEFINE A == NumPages - h - o
<1>7. A \in Int /\ NumPages - n =< A /\ NumPages \in Nat
  BY <1>2, <1>4, <1>5, PoolAssumption
<1> HIDE DEF A
<1>8. (NumPages - n) * PageSize =< A * PageSize
  BY <1>2, <1>7, PageMonotone
<1>9. (NumPages - n) * PageSize = NumPages * PageSize - n * PageSize
  BY <1>2, <1>7, PageSizeFacts
<1>10. A * PageSize \in Int /\ NumPages * PageSize \in Int /\ n * PageSize \in Int
  BY <1>2, <1>7, PageSizeFacts
<1> QED
  BY <1>3, <1>6, <1>8, <1>9, <1>10 DEF A

-----------------------------------------------------------------------------
(* Rows grow                                                               *)

\* q2 is q after the pages were appended to its row, which now holds the KV
\* of more of its tokens; one more token may have been sampled.
Lengthens(q, q2, pages) ==
  /\ q2 \in ReqType /\ pages \in Seq(Pages)
  /\ q2.cache_protected_len = q.cache_protected_len /\ q2.last_node = q.last_node
  /\ q2.row = q.row \o pages
  /\ Covered(q) =< q2.kv_len /\ q2.kv_len =< Len(q.toks)
  /\ Len(pages) * PageSize = CeilAlign(q2.kv_len) - CeilAlign(Covered(q))
  /\ Len(q.toks) =< Len(q2.toks)
  /\ \A m \in 0..Len(q.toks) : SubSeq(q2.toks, 1, m) = SubSeq(q.toks, 1, m)

\* Elements of a concatenation.
LEMMA Appended ==
  ASSUME NEW a \in Seq(Pages), NEW b \in Seq(Pages)
  PROVE  /\ a \o b \in Seq(Pages) /\ Len(a \o b) = Len(a) + Len(b)
         /\ Len(a) \in Nat /\ Len(b) \in Nat
         /\ \A i \in 1..Len(a) : (a \o b)[i] = a[i]
         /\ \A j \in 1..Len(b) : (a \o b)[Len(a) + j] = b[j]
OBVIOUS

\* The row of a request that grows, position by position.
LEMMA LengthenFacts ==
  ASSUME NEW q \in ReqType, RowShape(q), NEW q2, NEW pages, Lengthens(q, q2, pages)
  PROVE  /\ RowShape(q2) /\ Extends(q, q2) /\ Len(q2.row) = Len(q.row) + Len(pages)
         /\ Len(q.row) \in Nat /\ Len(pages) \in Nat
         /\ \A j \in 1..Len(pages) : q2.row[Len(q.row) + j] = pages[j]
         /\ \A i : i \in NewAt(q, q2) <=> i \in (Len(q.row) + 1)..(Len(q.row) + Len(pages))
         /\ \A i \in OwnAt(q2) : i * PageSize =< Covered(q) =>
              /\ i \in OwnAt(q) /\ q2.row[i] = q.row[i]
              /\ Content(q2, i) = Content(q, i)
         /\ \A i \in OwnAt(q2) : i \in NewAt(q, q2) \/ (i \in OwnAt(q) /\ q2.row[i] = q.row[i])
         /\ \A i \in NewAt(q, q2) : Covered(q) < i * PageSize
<1> DEFINE c == q.cache_protected_len
           n == Len(q.row)
           k == Len(pages)
           n2 == Len(q2.row)
<1>1. /\ q.toks \in Path /\ Len(q.toks) \in Nat /\ q.row \in Seq(Pages) /\ n \in Nat
      /\ q.kv_len \in Nat /\ c \in Nat /\ c % PageSize = 0
      /\ n * PageSize = CeilAlign(Covered(q)) /\ Covered(q) \in Nat
      /\ c =< Len(q.toks) /\ c \div PageSize \in 0..n
      /\ q.last_node = SubSeq(q.toks, 1, c)
  BY RowFacts
<1>2. c =< Covered(q) /\ q.kv_len =< Covered(q)
      /\ (Covered(q) = q.kv_len \/ Covered(q) = c)
  BY <1>1 DEF Covered
<1>3. /\ q2 \in ReqType /\ pages \in Seq(Pages)
      /\ q2.cache_protected_len = c /\ q2.last_node = q.last_node
      /\ q2.row = q.row \o pages
      /\ Covered(q) =< q2.kv_len /\ q2.kv_len =< Len(q.toks)
      /\ Len(pages) * PageSize = CeilAlign(q2.kv_len) - CeilAlign(Covered(q))
      /\ Len(q.toks) =< Len(q2.toks)
      /\ \A m \in 0..Len(q.toks) : SubSeq(q2.toks, 1, m) = SubSeq(q.toks, 1, m)
  BY DEF Lengthens
<1>4. q2.toks \in Path /\ Len(q2.toks) \in Nat /\ q2.kv_len \in Nat
  BY <1>3 DEF ReqType, Path
<1>5. /\ n2 = n + k /\ k \in Nat
      /\ \A i \in 1..n : q2.row[i] = q.row[i]
      /\ \A j \in 1..k : q2.row[n + j] = pages[j]
  BY <1>1, <1>3, Appended
<1>6. CeilAlign(q2.kv_len) \in Nat /\ CeilAlign(Covered(q)) \in Nat
      /\ Covered(q) =< CeilAlign(Covered(q))
  BY <1>1, <1>4, CeilFacts
<1>7. RowShape(q2)
  <2>1. Covered(q2) = q2.kv_len
    BY <1>1, <1>2, <1>3, <1>4 DEF Covered
  <2>2. n2 * PageSize = CeilAlign(q2.kv_len)
    <3>1. (n + k) * PageSize = n * PageSize + k * PageSize
      <4>1. n \in Nat /\ k \in Nat
        BY <1>1, <1>5
      <4> HIDE DEF n, k
      <4> QED
        BY <4>1, PageSizeFacts
    <3> QED
      BY <1>1, <1>3, <1>5, <1>6, <3>1
  <2>3. q2.last_node = SubSeq(q2.toks, 1, c)
    BY <1>1, <1>3
  <2>4. Covered(q2) =< Len(q2.toks)
    BY <1>1, <1>3, <1>4, <2>1
  <2> QED
    BY <1>1, <1>3, <2>1, <2>2, <2>3, <2>4 DEF RowShape
<1> HIDE DEF n, n2, k, c
<1>8. \A i : i \in OwnAt(q) <=> i \in 1..n /\ c < i * PageSize
  BY OwnPosition DEF n, c
<1>9. \A i : i \in OwnAt(q2) <=> i \in 1..n2 /\ c < i * PageSize
  BY <1>3, <1>7, OwnPosition DEF n2
<1>10. ASSUME NEW i \in Int
       PROVE  /\ i * PageSize \in Int /\ (i > n => Covered(q) < i * PageSize)
              /\ (i * PageSize =< Covered(q) => i =< n)
  <2>1. i * PageSize \in Int
    BY PageSizeFacts
  <2>2. n < i <=> n * PageSize < i * PageSize
    <3>1. n \in Int
      BY <1>1
    <3> QED
      BY <3>1, PageMonotone
  <2> QED
    BY <1>1, <1>6, <2>1, <2>2
<1>11. \A i : i \in NewAt(q, q2) <=> i \in (n + 1)..(n + k)
  <2>1. ASSUME NEW i, i \in NewAt(q, q2)
        PROVE  i \in (n + 1)..(n + k)
    <3>1. i \in 1..n2 /\ c < i * PageSize /\ i \notin 1..n
      BY <1>8, <1>9, <2>1 DEF NewAt
    <3> QED
      BY <1>1, <1>5, <3>1
  <2>2. ASSUME NEW i, i \in (n + 1)..(n + k)
        PROVE  i \in NewAt(q, q2)
    <3>1. i \in Int /\ i > n /\ i \in 1..n2 /\ i \notin 1..n
      BY <1>1, <1>5, <2>2
    <3>2. c < i * PageSize
      BY <1>1, <1>2, <1>10, <3>1
    <3> QED
      BY <1>8, <1>9, <3>1, <3>2 DEF NewAt
  <2> QED
    BY <2>1, <2>2
<1>12. ASSUME NEW i \in OwnAt(q2)
       PROVE  i \in NewAt(q, q2) \/ (i \in OwnAt(q) /\ q2.row[i] = q.row[i])
  BY <1>5, <1>8 DEF NewAt
<1>13. ASSUME NEW i \in OwnAt(q2), i * PageSize =< Covered(q)
       PROVE  /\ i \in OwnAt(q) /\ q2.row[i] = q.row[i]
              /\ Content(q2, i) = Content(q, i)
  <2>1. i \in 1..n2 /\ c < i * PageSize /\ i \in Int
    BY <1>9
  <2>2. i \in 1..n
    BY <1>1, <1>10, <1>13, <2>1
  <2>3. i \in OwnAt(q) /\ q2.row[i] = q.row[i]
    BY <1>5, <1>8, <2>1, <2>2
  <2>4. i * PageSize \in Int /\ i * PageSize \in 0..Len(q.toks)
    <3>1. i * PageSize \in Int /\ i * PageSize >= 0
      BY <2>1, <1>1, <1>10
    <3> QED
      BY <1>1, <1>3, <1>4, <1>13, <3>1
  <2>5. Covered(q) = q.kv_len
    BY <1>1, <1>2, <1>13, <2>1, <2>4
  <2>6. Min({i * PageSize, q.kv_len}) = i * PageSize
    BY <1>1, <1>13, <2>4, <2>5, MinPair
  <2>7. Min({i * PageSize, q2.kv_len}) = i * PageSize
    <3> DEFINE x == i * PageSize
               y == q2.kv_len
    <3>1. x \in Int /\ y \in Int /\ x =< y
      BY <1>1, <1>3, <1>4, <1>13, <2>4
    <3> HIDE DEF x, y
    <3>2. Min({x, y}) = x
      BY <3>1, MinPair
    <3> QED
      BY <3>2 DEF x, y
  <2>8. Content(q, i) = SubSeq(q.toks, 1, i * PageSize)
    BY <2>6, Zenon DEF Content
  <2>9. Content(q2, i) = SubSeq(q2.toks, 1, i * PageSize)
    BY <2>7, Zenon DEF Content
  <2> QED
    BY <1>3, <2>3, <2>4, <2>8, <2>9
<1>14. Extends(q, q2)
  <2>1. ASSUME NEW i \in 1..(c \div PageSize)
        PROVE  PagePrefix(q2.toks, i) = PagePrefix(q.toks, i)
    <3>1. i \in Int /\ i >= 1 /\ i =< c \div PageSize
      BY <1>1
    <3>2. i * PageSize =< c /\ i * PageSize \in Int
      BY <1>1, <3>1, PagePosition
    <3>3. i * PageSize \in 0..Len(q.toks)
      BY <1>1, <3>1, <3>2, PageSizeFacts
    <3> QED
      BY <1>3, <3>3 DEF PagePrefix
  <2>2. \A i \in 1..n : i \in 1..n2 /\ q2.row[i] = q.row[i]
    BY <1>1, <1>5
  <2> QED
    BY <1>3, <2>1, <2>2 DEF Extends, n, n2, c
<1>15. \A i \in NewAt(q, q2) : Covered(q) < i * PageSize
  BY <1>1, <1>5, <1>10, <1>11
<1> QED
  BY <1>1, <1>5, <1>7, <1>11, <1>12, <1>13, <1>14, <1>15 DEF n, n2, k

\* The rows of B grow: by which pages, and what is written to them.
Grows(s, u, B, pg) ==
  /\ u \in StateType /\ u.tree = s.tree /\ u.fault = s.fault
  /\ \A x \in Reqs \ B : u.req[x] = s.req[x]
  /\ \A r \in B : Lengthens(s.req[r], u.req[r], pg[r])
  /\ Takes(s.free, u.free, s.req, u.req, B)
  /\ \A r \in B : \A i \in OwnAt(u.req[r]) :
       Covered(s.req[r]) < i * PageSize => u.kv[u.req[r].row[i]] = Content(u.req[r], i)
  /\ \A p \in Pages :
       (\A r \in B : \A i \in OwnAt(u.req[r]) :
          Covered(s.req[r]) < i * PageSize => u.req[r].row[i] # p) => u.kv[p] = s.kv[p]

\* Rows that grow keep the state good.
LEMMA GrowOK ==
  ASSUME NEW s, Good(s), NEW B \in SUBSET Reqs, NEW u, NEW pg, Grows(s, u, B, pg)
  PROVE  Good(u)
<1>1. /\ s \in StateType /\ RowsOK(s.req) /\ TreeOK(s.tree, Hold(s.req))
      /\ PagesOK(s.tree.value, s.free, s.req, s.kv)
      /\ \A r \in Reqs : s.req[r] \in ReqType /\ RowShape(s.req[r])
  BY GoodFacts
<1>2. /\ u \in StateType /\ u.tree = s.tree
      /\ \A x \in Reqs \ B : u.req[x] = s.req[x]
      /\ \A r \in B : Lengthens(s.req[r], u.req[r], pg[r])
      /\ Takes(s.free, u.free, s.req, u.req, B)
      /\ \A r \in B : \A i \in OwnAt(u.req[r]) :
           Covered(s.req[r]) < i * PageSize => u.kv[u.req[r].row[i]] = Content(u.req[r], i)
      /\ \A p \in Pages :
           (\A r \in B : \A i \in OwnAt(u.req[r]) :
              Covered(s.req[r]) < i * PageSize => u.req[r].row[i] # p) => u.kv[p] = s.kv[p]
  BY DEF Grows
<1>3. ASSUME NEW r \in B
      PROVE  /\ RowShape(u.req[r]) /\ Extends(s.req[r], u.req[r])
             /\ \A i \in OwnAt(u.req[r]) : i * PageSize =< Covered(s.req[r]) =>
                  /\ i \in OwnAt(s.req[r]) /\ u.req[r].row[i] = s.req[r].row[i]
                  /\ Content(u.req[r], i) = Content(s.req[r], i)
             /\ \A i \in OwnAt(u.req[r]) :
                  \/ i \in NewAt(s.req[r], u.req[r])
                  \/ i \in OwnAt(s.req[r]) /\ u.req[r].row[i] = s.req[r].row[i]
             /\ u.req[r].last_node = s.req[r].last_node
             /\ Covered(s.req[r]) \in Nat
  <2>1. Lengthens(s.req[r], u.req[r], pg[r]) /\ s.req[r] \in ReqType /\ RowShape(s.req[r])
    BY <1>1, <1>2
  <2>2. u.req[r].last_node = s.req[r].last_node
    BY <2>1 DEF Lengthens
  <2>3. Covered(s.req[r]) \in Nat
    BY <2>1, RowFacts
  <2> DEFINE q == s.req[r]
             q2 == u.req[r]
             pages == pg[r]
  <2>4. q \in ReqType /\ RowShape(q) /\ Lengthens(q, q2, pages)
    BY <2>1
  <2> HIDE DEF q, q2, pages
  <2>5. /\ RowShape(q2) /\ Extends(q, q2)
        /\ \A i \in OwnAt(q2) : i * PageSize =< Covered(q) =>
             /\ i \in OwnAt(q) /\ q2.row[i] = q.row[i]
             /\ Content(q2, i) = Content(q, i)
        /\ \A i \in OwnAt(q2) : i \in NewAt(q, q2) \/ (i \in OwnAt(q) /\ q2.row[i] = q.row[i])
    BY <2>4, LengthenFacts
  <2> QED
    BY <2>2, <2>3, <2>5 DEF q, q2
<1>4. u.req \in [Reqs -> ReqType] /\ \A x \in Reqs : u.req[x] \in ReqType /\ RowShape(u.req[x])
  BY <1>1, <1>2, <1>3, StateFacts
<1>5. RowsOK(u.req)
  BY <1>4 DEF RowsOK
<1>6. Hold(u.req) = Hold(s.req)
  <2>1. \A x \in Reqs : u.req[x].last_node = s.req[x].last_node
    BY <1>2, <1>3
  <2> QED
    BY <2>1 DEF Hold
<1>7. s.free \subseteq Pages
  BY <1>1, StateFacts
<1>8. /\ \A r \in Reqs : \A i \in OwnAt(s.req[r]) :
           s.req[r].row[i] \notin s.free /\ s.kv[s.req[r].row[i]] = Content(s.req[r], i)
      /\ NoSharing(s.req)
  BY <1>1 DEF PagesOK, OwnsRest
<1>9. \A r \in B : \A i \in NewAt(s.req[r], u.req[r]) : u.req[r].row[i] \in s.free
  BY <1>2 DEF Takes
<1>10. Writes(s.kv, u.kv, u.req, B)
  <2>1. ASSUME NEW r \in B, NEW i \in OwnAt(u.req[r]), i * PageSize =< Covered(s.req[r])
        PROVE  u.kv[u.req[r].row[i]] = Content(u.req[r], i)
    <3> DEFINE p == u.req[r].row[i]
    <3>1. /\ i \in OwnAt(s.req[r]) /\ p = s.req[r].row[i]
          /\ Content(u.req[r], i) = Content(s.req[r], i)
      BY <1>3, <2>1
    <3>2. p \notin s.free /\ s.kv[p] = Content(s.req[r], i)
      BY <1>8, <3>1
    <3>3. p \in Pages
      BY <1>4, OwnPage
    <3>4. ASSUME NEW x \in B, NEW j \in OwnAt(u.req[x]), Covered(s.req[x]) < j * PageSize,
                 u.req[x].row[j] = p
          PROVE  FALSE
      <4>1. j \in OwnAt(s.req[x]) /\ s.req[x].row[j] = p
        BY <1>3, <1>9, <3>2, <3>4
      <4>2. x = r /\ j = i
        BY <1>8, <3>1, <4>1 DEF NoSharing
      <4>3. i * PageSize \in Int /\ Covered(s.req[r]) \in Nat
        <5>1. i \in 1..Len(u.req[r].row)
          BY <1>4, OwnPosition
        <5> QED
          BY <1>3, <5>1, PageSizeFacts
      <4> QED
        BY <2>1, <3>4, <4>2, <4>3
    <3>5. u.kv[p] = s.kv[p]
      BY <1>2, <3>3, <3>4
    <3> QED
      BY <3>1, <3>2, <3>5
  <2>2. ASSUME NEW r \in B, NEW i \in OwnAt(u.req[r])
        PROVE  i * PageSize =< Covered(s.req[r]) \/ Covered(s.req[r]) < i * PageSize
    <3>1. i \in 1..Len(u.req[r].row)
      BY <1>4, OwnPosition
    <3>2. i * PageSize \in Int /\ Covered(s.req[r]) \in Int
      BY <1>3, <3>1, PageSizeFacts
    <3> QED
      BY <3>2
  <2>3. \A r \in B : \A i \in OwnAt(u.req[r]) : u.kv[u.req[r].row[i]] = Content(u.req[r], i)
    BY <1>2, <2>1, <2>2
  <2> QED
    BY <1>2, <2>3 DEF Writes
<1>11. PagesOK(s.tree.value, u.free, u.req, u.kv)
  BY <1>1, <1>2, <1>3, <1>5, <1>7, <1>10, PagesGrow
<1> QED
  BY <1>1, <1>2, <1>4, <1>6, <1>11 DEF Good

-----------------------------------------------------------------------------
(* Prefill                                                                 *)

\* Position i lies past x when its end does.
LEMMA PastFloor ==
  ASSUME NEW i \in Int, NEW x \in Nat
  PROVE  /\ i >= x \div PageSize + 1 <=> x < i * PageSize
         /\ x \div PageSize \in Nat /\ i * PageSize \in Int
<1> DEFINE k == x \div PageSize
<1>1. k \in Nat /\ k * PageSize \in Nat /\ k * PageSize =< x /\ x < k * PageSize + PageSize
  BY PageDivision
<1> HIDE DEF k
<1>2. i * PageSize \in Int
  BY PageSizeFacts
<1>3. i =< k <=> i * PageSize =< k * PageSize
  BY <1>1, PageMonotone
<1>4. k + 1 =< i <=> (k + 1) * PageSize =< i * PageSize
  <2>1. k + 1 \in Int
    BY <1>1
  <2> QED
    BY <2>1, PageMonotone
<1>5. (k + 1) * PageSize = k * PageSize + PageSize
  BY <1>1, PageMonotone
<1> QED
  BY <1>1, <1>2, <1>3, <1>4, <1>5, PageSizeFacts DEF k

\* The pages between two lengths.
LEMMA PagesBetween ==
  ASSUME NEW a \in Nat, NEW b \in Nat, a =< b
  PROVE  LET n == (CeilAlign(b) - CeilAlign(a)) \div PageSize
         IN  n \in Nat /\ n * PageSize = CeilAlign(b) - CeilAlign(a)
<1> DEFINE A == CeilAlign(a) \div PageSize
           B == CeilAlign(b) \div PageSize
           k == B - A
<1>1. A \in Nat /\ CeilAlign(a) = A * PageSize /\ B \in Nat /\ CeilAlign(b) = B * PageSize
  BY CeilFacts
<1>2. A * PageSize =< B * PageSize
  BY <1>1, CeilOrder
<1> HIDE DEF A, B
<1>3. A =< B
  BY <1>1, <1>2, PageMonotone
<1>4. k \in Nat
  BY <1>1, <1>3
<1>5. k * PageSize = B * PageSize - A * PageSize
  <2>1. (B - A) * PageSize = B * PageSize - A * PageSize
    BY <1>1, PageSizeFacts
  <2> QED
    BY <2>1
<1> HIDE DEF k
<1>6. (k * PageSize) \div PageSize = k
  BY <1>4, PageMultiple
<1>7. CeilAlign(b) - CeilAlign(a) = k * PageSize
  BY <1>1, <1>5
<1>8. (CeilAlign(b) - CeilAlign(a)) \div PageSize = k
  BY <1>6, <1>7
<1> QED
  BY <1>4, <1>7, <1>8

\* One more token does not change what comes before it.
LEMMA AppendKeeps ==
  ASSUME NEW s \in Path, NEW t \in Nat
  PROVE  /\ Append(s, t) \in Path /\ Len(Append(s, t)) = Len(s) + 1
         /\ \A m \in 0..Len(s) : SubSeq(Append(s, t), 1, m) = SubSeq(s, 1, m)
<1> DEFINE a == Append(s, t)
<1>1. s \in Seq(Nat) /\ Len(s) \in Nat
  BY DEF Path
<1>2. a \in Seq(Nat) /\ Len(a) = Len(s) + 1 /\ \A i \in 1..Len(s) : a[i] = s[i]
  BY <1>1
<1> HIDE DEF a
<1>3. ASSUME NEW m \in 0..Len(s)
      PROVE  SubSeq(a, 1, m) = SubSeq(s, 1, m)
  <2>1. m \in 0..Len(a) /\ m \in Nat
    BY <1>1, <1>2
  <2>2. SubSeq(a, 1, m) = [i \in 1..m |-> a[i]] /\ SubSeq(s, 1, m) = [i \in 1..m |-> s[i]]
    BY <1>1, <1>2, <2>1
  <2>3. \A i \in 1..m : a[i] = s[i]
    BY <1>1, <1>2, <2>1
  <2> QED
    BY <2>2, <2>3
<1> QED
  BY <1>2, <1>3 DEF a, Path

\* What the device writes during an extend.
WriteArgs(mem, row, toks, from, to) ==
  /\ mem \in [Pages -> Path] /\ toks \in Path /\ from \in Nat /\ to \in Nat
  /\ to =< Len(toks) /\ from =< to

WrittenAt(from, to) == (from \div PageSize + 1)..(CeilAlign(to) \div PageSize)

Wrote(k2, mem, row, toks, from, to) ==
  /\ k2 \in [Pages -> Path]
  /\ \A p \in Pages : (\A i \in WrittenAt(from, to) : row[i] # p) => k2[p] = mem[p]
  /\ \A i \in WrittenAt(from, to) :
       row[i] \in Pages /\ (\A j \in WrittenAt(from, to) : row[j] = row[i] => j = i)
         => k2[row[i]] = SubSeq(toks, 1, Min({i * PageSize, to}))

\* What the device writes: the pages from the first new token on.
LEMMA WriteFacts ==
  ASSUME NEW mem, NEW row, NEW toks, NEW from, NEW to, WriteArgs(mem, row, toks, from, to)
  PROVE  Wrote(WriteKV(mem, row, toks, from, to), mem, row, toks, from, to)
<1> SUFFICES ASSUME mem \in [Pages -> Path], toks \in Path, from \in Nat, to \in Nat,
                    to =< Len(toks), from =< to
             PROVE  Wrote(WriteKV(mem, row, toks, from, to), mem, row, toks, from, to)
  BY DEF WriteArgs
<1> DEFINE a == from \div PageSize + 1
           b == CeilAlign(to) \div PageSize
           k2 == WriteKV(mem, row, toks, from, to)
           at(p) == {i \in a..b : row[i] = p}
           val(i) == SubSeq(toks, 1, Min({i * PageSize, to}))
<1>1. a \in Nat /\ b \in Nat
  <2>1. from \div PageSize \in Nat /\ b \in Nat
    BY PageDivision, CeilFacts
  <2> QED
    BY <2>1
<1>2. k2 = [p \in Pages |-> IF at(p) = {} THEN mem[p] ELSE val(Max(at(p)))]
  BY DEF WriteKV
<1> HIDE DEF a, b
<1>3. ASSUME NEW i \in a..b
      PROVE  val(i) \in Path
  <2> DEFINE x == i * PageSize
             m == Min({x, to})
  <2>1. x \in Int /\ x >= 0
    <3>1. i \in Nat
      BY <1>1, <1>3
    <3> QED
      BY <3>1, PageSizeFacts
  <2> HIDE DEF x
  <2>2. m = IF x =< to THEN x ELSE to
    BY <2>1, MinPair
  <2>3. Len(toks) \in Nat
    BY DEF Path
  <2> HIDE DEF m
  <2>4. m \in 0..Len(toks)
    BY <2>1, <2>2, <2>3
  <2>5. SubSeq(toks, 1, m) \in Path
    BY <2>4, Cut
  <2> QED
    BY <2>5 DEF m, x
<1>4. ASSUME NEW p, at(p) # {}
      PROVE  Max(at(p)) \in at(p)
  <2> DEFINE S == at(p)
  <2>1. S \in SUBSET (0..b) /\ S # {}
    BY <1>1, <1>4
  <2> HIDE DEF S
  <2>2. Max(S) \in S
    BY <1>1, <2>1, LargestNatural
  <2> QED
    BY <2>2 DEF S
<1> HIDE DEF val
<1>5. k2 \in [Pages -> Path]
  <2>1. ASSUME NEW p \in Pages
        PROVE  (IF at(p) = {} THEN mem[p] ELSE val(Max(at(p)))) \in Path
    <3>1. CASE at(p) = {}
      BY <3>1
    <3>2. CASE at(p) # {}
      <4>1. Max(at(p)) \in a..b
        BY <1>4, <3>2
      <4> QED
        BY <1>3, <3>2, <4>1
    <3> QED
      BY <3>1, <3>2
  <2> HIDE DEF at, k2
  <2> QED
    BY <1>2, <2>1
<1>6. ASSUME NEW p \in Pages, \A i \in a..b : row[i] # p
      PROVE  k2[p] = mem[p]
  <2>1. at(p) = {}
    BY <1>6
  <2> HIDE DEF at, k2
  <2> QED
    BY <1>2, <2>1
<1>7. ASSUME NEW i \in a..b, row[i] \in Pages, \A j \in a..b : row[j] = row[i] => j = i
      PROVE  k2[row[i]] = val(i)
  <2>1. i \in at(row[i]) /\ \A j \in at(row[i]) : j = i
    BY <1>7
  <2>2. at(row[i]) # {} /\ Max(at(row[i])) \in at(row[i])
    BY <1>4, <2>1
  <2>3. Max(at(row[i])) = i
    BY <2>1, <2>2
  <2> HIDE DEF at, k2
  <2>4. k2[row[i]] = IF at(row[i]) = {} THEN mem[row[i]] ELSE val(Max(at(row[i])))
    BY <1>2, <1>7
  <2> QED
    BY <2>2, <2>3, <2>4
<1> QED
  BY <1>5, <1>6, <1>7 DEF Wrote, WrittenAt, val, a, b

\* The state after alloc_for_extend and run_batch.
Extended(s, r, prefix, n, t) ==
  LET q     == s.req[r]
      need  == (CeilAlign(prefix + n) - CeilAlign(prefix)) \div PageSize
      row   == q.row \o TakePages(s, need)
      whole == prefix + n = Len(q.toks)
  IN  [s EXCEPT
         !.free = @ \ ToSet(TakePages(s, need)),
         !.kv = WriteKV(@, row, q.toks, prefix, prefix + n),
         !.req[r] = [q EXCEPT
            !.st = IF whole THEN "running" ELSE "chunked",
            !.row = row, !.kv_len = prefix + n, !.fill = prefix + n,
            !.toks = IF whole THEN Append(@, t) ELSE @]]

\* Other pages, other contents and another request.
Rewrites(s, u, r, f, k, q2) ==
  /\ s \in StateType /\ r \in Reqs /\ f \in SUBSET Pages /\ k \in [Pages -> Path]
  /\ q2 \in ReqType /\ u = [s EXCEPT !.free = f, !.kv = k, !.req[r] = q2]

Rewritten(s, u, r, f, k, q2) ==
  /\ u \in StateType /\ u.tree = s.tree /\ u.fault = s.fault /\ u.free = f /\ u.kv = k
  /\ u.req[r] = q2 /\ \A x \in Reqs : x # r => u.req[x] = s.req[x]

\* Only these fields change.
LEMMA Rewrite ==
  ASSUME NEW s, NEW u, NEW r, NEW f, NEW k, NEW q2, Rewrites(s, u, r, f, k, q2)
  PROVE  Rewritten(s, u, r, f, k, q2)
<1> SUFFICES ASSUME s \in StateType, r \in Reqs, f \in SUBSET Pages, k \in [Pages -> Path],
                    q2 \in ReqType, u = [s EXCEPT !.free = f, !.kv = k, !.req[r] = q2]
             PROVE  Rewritten(s, u, r, f, k, q2)
  BY DEF Rewrites
<1> DEFINE rq2 == [s.req EXCEPT ![r] = q2]
<1>1. s.req \in [Reqs -> ReqType]
  BY StateFacts
<1>2. u = [s EXCEPT !.free = f, !.kv = k, !.req = rq2]
  BY DEF StateType
<1>3. rq2 \in [Reqs -> ReqType] /\ rq2[r] = q2 /\ \A x \in Reqs : x # r => rq2[x] = s.req[x]
  BY <1>1
<1> HIDE DEF rq2
<1>4. /\ u \in StateType /\ u.tree = s.tree /\ u.fault = s.fault /\ u.free = f /\ u.kv = k
      /\ u.req = rq2
  BY <1>2, <1>3 DEF StateType
<1> QED
  BY <1>3, <1>4 DEF Rewritten

\* What a prefill changes in its request.
Prefilled(s, u, r, prefix, n) ==
  LET q == s.req[r]
      q2 == u.req[r]
      need == (CeilAlign(prefix + n) - CeilAlign(prefix)) \div PageSize
  IN  /\ Good(u) /\ u.fault = s.fault
      /\ \A x \in Reqs : x # r => u.req[x] = s.req[x]
      /\ q2.plen = q.plen /\ q2.max_new = q.max_new /\ q2.known = q.known
      /\ q2.cache_protected_len = q.cache_protected_len /\ q2.last_node = q.last_node
      /\ q2.kv_len = prefix + n /\ q2.fill = prefix + n
      /\ q2.st = IF prefix + n = Len(q.toks) THEN "running" ELSE "chunked"
      /\ Len(q2.toks) = Len(q.toks) + IF prefix + n = Len(q.toks) THEN 1 ELSE 0
      /\ Len(q2.row) = Len(q.row) + need /\ need \in Nat
      /\ need * PageSize = CeilAlign(prefix + n) - CeilAlign(prefix)

\* A prefill for which there are pages keeps the state good.
LEMMA ExtendedOK ==
  ASSUME NEW s, Good(s), NEW r \in Reqs, NEW prefix \in Nat, NEW n \in Nat,
         Covered(s.req[r]) = prefix, prefix + n =< Len(s.req[r].toks),
         (CeilAlign(prefix + n) - CeilAlign(prefix)) \div PageSize =< Cardinality(s.free),
         NEW t \in Nat
  PROVE  Prefilled(s, Extended(s, r, prefix, n, t), r, prefix, n)
<1> DEFINE q == s.req[r]
           to == prefix + n
           need == (CeilAlign(to) - CeilAlign(prefix)) \div PageSize
           taken == TakePages(s, need)
           row == q.row \o taken
           st == IF to = Len(q.toks) THEN "running" ELSE "chunked"
           tk == IF to = Len(q.toks) THEN Append(q.toks, t) ELSE q.toks
           f2 == s.free \ ToSet(taken)
           k2 == WriteKV(s.kv, row, q.toks, prefix, to)
           q2 == [q EXCEPT !.st = st, !.row = row, !.kv_len = to, !.fill = to, !.toks = tk]
           u == Extended(s, r, prefix, n, t)
<1>1. /\ s \in StateType /\ q \in ReqType /\ RowShape(q) /\ RowsOK(s.req)
      /\ PagesOK(s.tree.value, s.free, s.req, s.kv)
  BY GoodFacts
<1>2. /\ q.toks \in Path /\ Len(q.toks) \in Nat /\ q.row \in Seq(Pages)
      /\ Len(q.row) \in Nat /\ q.cache_protected_len \in Nat
      /\ Len(q.row) * PageSize = CeilAlign(prefix)
  BY <1>1, RowFacts
<1>3. to \in Nat /\ prefix =< to /\ to =< Len(q.toks)
  OBVIOUS
<1>4. need \in Nat /\ need * PageSize = CeilAlign(to) - CeilAlign(prefix)
  <2> HIDE DEF to
  <2> QED
    BY <1>3, PagesBetween
<1>5. u = [s EXCEPT !.free = f2, !.kv = k2, !.req[r] = q2]
  BY Zenon DEF Extended
<1>6. need =< Cardinality(s.free)
  OBVIOUS
<1> HIDE DEF need, to
<1>7. /\ taken \in Seq(Pages) /\ Len(taken) = need
      /\ \A i \in 1..need : taken[i] \in s.free
      /\ \A i, j \in 1..need : taken[i] = taken[j] => i = j
      /\ \A p : p \in ToSet(taken) <=> \E i \in 1..need : taken[i] = p
  <2>1. Cardinality(s.free) \in Nat
    BY Accounting
  <2>2. need \in 0..Cardinality(s.free)
    BY <1>4, <1>6, <2>1
  <2> QED
    BY <1>1, <2>2, TakePagesFacts
<1> HIDE DEF taken
<1>8. /\ tk \in Path /\ Len(tk) = Len(q.toks) + IF to = Len(q.toks) THEN 1 ELSE 0
      /\ \A m \in 0..Len(q.toks) : SubSeq(tk, 1, m) = SubSeq(q.toks, 1, m)
  <2>1. CASE to = Len(q.toks)
    <3>1. tk = Append(q.toks, t)
      BY <2>1
    <3>2. /\ Append(q.toks, t) \in Path /\ Len(Append(q.toks, t)) = Len(q.toks) + 1
          /\ \A m \in 0..Len(q.toks) : SubSeq(Append(q.toks, t), 1, m) = SubSeq(q.toks, 1, m)
      BY <1>2, AppendKeeps
    <3> HIDE DEF tk
    <3> QED
      BY <2>1, <3>1, <3>2
  <2>2. CASE to # Len(q.toks)
    BY <1>2, <2>2
  <2> QED
    BY <2>1, <2>2
<1>9. row \in Seq(Pages)
  BY <1>2, <1>7, Appended
<1>10. st \in {"chunked", "running"}
  OBVIOUS
<1>11. s.free \in SUBSET Pages /\ s.kv \in [Pages -> Path]
  BY <1>1, StateFacts
<1>12. f2 \in SUBSET Pages
  BY <1>11
<1> DEFINE at == (prefix \div PageSize + 1)..(CeilAlign(to) \div PageSize)
<1>13. /\ k2 \in [Pages -> Path]
       /\ \A p \in Pages : (\A i \in at : row[i] # p) => k2[p] = s.kv[p]
       /\ \A i \in at : row[i] \in Pages /\ (\A j \in at : row[j] = row[i] => j = i)
                  => k2[row[i]] = SubSeq(q.toks, 1, Min({i * PageSize, to}))
  <2>1. WriteArgs(s.kv, row, q.toks, prefix, to)
    BY <1>2, <1>3, <1>11 DEF WriteArgs
  <2>2. Wrote(k2, s.kv, row, q.toks, prefix, to)
    BY <2>1, WriteFacts
  <2> QED
    BY <2>2 DEF Wrote, WrittenAt
<1> HIDE DEF tk, st, row
<1>14. /\ q2 \in ReqType /\ q2.st = st /\ q2.row = row /\ q2.kv_len = to /\ q2.fill = to
       /\ q2.toks = tk /\ q2.plen = q.plen /\ q2.max_new = q.max_new /\ q2.known = q.known
       /\ q2.cache_protected_len = q.cache_protected_len /\ q2.last_node = q.last_node
  BY <1>1, <1>3, <1>8, <1>9, <1>10 DEF ReqType
<1> HIDE DEF q2, k2, f2, u, at
<1>15. /\ u \in StateType /\ u.tree = s.tree /\ u.fault = s.fault /\ u.free = f2 /\ u.kv = k2
       /\ u.req[r] = q2 /\ \A x \in Reqs : x # r => u.req[x] = s.req[x]
  <2>1. Rewrites(s, u, r, f2, k2, q2)
    BY <1>1, <1>5, <1>12, <1>13, <1>14 DEF Rewrites
  <2> QED
    BY <2>1, Rewrite DEF Rewritten
<1> HIDE DEF q
<1>16. Lengthens(q, q2, taken)
  <2>1. Covered(q) = prefix
    BY DEF q
  <2>2. q2.row = q.row \o taken
    BY <1>14 DEF row
  <2> QED
    <3>1. q2 \in ReqType /\ taken \in Seq(Pages)
          /\ q2.cache_protected_len = q.cache_protected_len /\ q2.last_node = q.last_node
      BY <1>7, <1>14
    <3>2. Covered(q) =< q2.kv_len /\ q2.kv_len =< Len(q.toks)
          /\ Len(taken) * PageSize = CeilAlign(q2.kv_len) - CeilAlign(Covered(q))
      BY <1>3, <1>4, <1>7, <1>14, <2>1
    <3>3. /\ Len(q.toks) =< Len(q2.toks)
          /\ \A m \in 0..Len(q.toks) : SubSeq(q2.toks, 1, m) = SubSeq(q.toks, 1, m)
      <4> DEFINE a == Len(q.toks)
                 b == Len(tk)
      <4>1. a =< b
        <5>1. a \in Nat /\ b = a + IF to = a THEN 1 ELSE 0
          BY <1>2, <1>8 DEF q
        <5> HIDE DEF a, b
        <5> QED
          BY <5>1
      <4>2. \A m \in 0..Len(q.toks) : SubSeq(tk, 1, m) = SubSeq(q.toks, 1, m)
        BY <1>8 DEF q
      <4> QED
        BY <1>14, <4>1, <4>2, Zenon
    <3> QED
      BY <2>2, <3>1, <3>2, <3>3 DEF Lengthens
<1>17. /\ RowShape(q2) /\ Len(q2.row) = Len(q.row) + need
       /\ \A j \in 1..need : q2.row[Len(q.row) + j] = taken[j]
       /\ \A i : i \in NewAt(q, q2) <=> i \in (Len(q.row) + 1)..(Len(q.row) + need)
       /\ \A i \in OwnAt(q2) : i \in NewAt(q, q2) \/ (i \in OwnAt(q) /\ q2.row[i] = q.row[i])
  <2>1. q \in ReqType /\ RowShape(q)
    BY <1>1
  <2>2. /\ RowShape(q2) /\ Len(q2.row) = Len(q.row) + Len(taken)
        /\ \A j \in 1..Len(taken) : q2.row[Len(q.row) + j] = taken[j]
        /\ \A i : i \in NewAt(q, q2) <=> i \in (Len(q.row) + 1)..(Len(q.row) + Len(taken))
        /\ \A i \in OwnAt(q2) : i \in NewAt(q, q2) \/ (i \in OwnAt(q) /\ q2.row[i] = q.row[i])
    BY <1>16, <2>1, LengthenFacts
  <2>3. Len(taken) = need
    BY <1>7
  <2> QED
    BY <2>2, <2>3, Zenon
<1>18. \A i \in NewAt(q, q2) : i - Len(q.row) \in 1..need /\ q2.row[i] = taken[i - Len(q.row)]
  <2>1. ASSUME NEW i \in NewAt(q, q2)
        PROVE  i - Len(q.row) \in 1..need /\ q2.row[i] = taken[i - Len(q.row)]
    <3> DEFINE j == i - Len(q.row)
    <3>1. j \in 1..need /\ i = Len(q.row) + j
      BY <1>2, <1>4, <1>17
    <3> HIDE DEF j
    <3>2. q2.row[i] = taken[j]
      BY <1>17, <3>1
    <3> QED
      BY <3>1, <3>2 DEF j
  <2> QED
    BY <2>1
<1>19. Takes(s.free, u.free, s.req, u.req, {r})
  <2>1. \A i \in NewAt(q, q2) : q2.row[i] \in s.free \ f2
    BY <1>7, <1>18 DEF f2
  <2>2. \A i, j \in NewAt(q, q2) : q2.row[i] = q2.row[j] => i = j
    <3>1. ASSUME NEW i \in NewAt(q, q2), NEW j \in NewAt(q, q2), q2.row[i] = q2.row[j]
          PROVE  i = j
      <4>1. i - Len(q.row) = j - Len(q.row)
        BY <1>7, <1>18, <3>1
      <4>2. i \in Int /\ j \in Int
        BY <1>2, <1>4, <1>17
      <4> QED
        BY <1>2, <4>1, <4>2
    <3> QED
      BY <3>1
  <2>3. \A p \in s.free \ f2 : \E i \in NewAt(q, q2) : q2.row[i] = p
    <3>1. ASSUME NEW p \in s.free \ f2
          PROVE  \E i \in NewAt(q, q2) : q2.row[i] = p
      <4>1. PICK j \in 1..need : taken[j] = p
        BY <1>7 DEF f2
      <4>2. Len(q.row) + j \in NewAt(q, q2)
        <5>1. Len(q.row) + j \in (Len(q.row) + 1)..(Len(q.row) + need)
          BY <1>2, <1>4
        <5> QED
          BY <1>17, <5>1
      <4> QED
        BY <1>17, <4>1, <4>2
    <3> QED
      BY <3>1
  <2>4. f2 \subseteq s.free
    BY DEF f2
  <2> QED
    BY <1>15, <2>1, <2>2, <2>3, <2>4 DEF Takes, q
<1>20. \A i, j \in OwnAt(q2) : q2.row[i] = q2.row[j] => i = j
  <2>1. \A i \in OwnAt(q) : q.row[i] \notin s.free
    BY <1>1 DEF PagesOK, OwnsRest, q
  <2>2. \A i, j \in OwnAt(q) : q.row[i] = q.row[j] => i = j
    BY <1>1 DEF PagesOK, NoSharing, q
  <2>3. /\ \A i \in NewAt(q, q2) : q2.row[i] \in s.free
        /\ \A i, j \in NewAt(q, q2) : q2.row[i] = q2.row[j] => i = j
    BY <1>15, <1>19 DEF Takes, q
  <2> QED
    BY <1>17, <2>1, <2>2, <2>3
<1>21. \A i : i \in at <=> i \in OwnAt(q2) /\ prefix < i * PageSize
  <2>1. \A i : i \in OwnAt(q2) <=> i \in 1..Len(q2.row) /\ q2.cache_protected_len < i * PageSize
    BY <1>14, <1>17, OwnPosition
  <2> DEFINE b == CeilAlign(to) \div PageSize
             n2 == Len(q2.row)
  <2>2. b = n2 /\ n2 \in Nat
    <3>1. b \in Nat /\ CeilAlign(to) = b * PageSize /\ CeilAlign(to) \in Nat
      BY <1>3, CeilFacts
    <3>2. n2 * PageSize = CeilAlign(to)
      <4>1. Covered(q2) = to
        <5>1. Covered(q) = prefix /\ q.kv_len \in Nat
          BY <1>1, RowFacts DEF q
        <5>2. q.cache_protected_len =< prefix
          BY <1>2, <5>1 DEF Covered
        <5> QED
          BY <1>2, <1>3, <1>14, <5>2 DEF Covered
      <4> QED
        BY <1>17, <4>1 DEF RowShape
    <3>3. n2 \in Nat
      BY <1>2, <1>4, <1>17
    <3> HIDE DEF b, n2
    <3>4. b =< n2 /\ n2 =< b
      BY <3>1, <3>2, <3>3, PageMonotone
    <3> QED
      BY <3>1, <3>3, <3>4
  <2>3. q.cache_protected_len =< prefix
    <3>1. Covered(q) = prefix /\ q.kv_len \in Nat
      BY <1>1, RowFacts DEF q
    <3> QED
      BY <1>2, <3>1 DEF Covered
  <2>4. prefix \div PageSize \in Nat
    BY PageDivision
  <2>5. ASSUME NEW i, i \in at
        PROVE  i \in OwnAt(q2) /\ prefix < i * PageSize
    <3>1. i \in Int /\ i >= prefix \div PageSize + 1 /\ i =< n2 /\ i >= 1
      BY <2>2, <2>4, <2>5 DEF at
    <3>2. prefix < i * PageSize /\ i * PageSize \in Int
      BY <3>1, PastFloor
    <3>3. q2.cache_protected_len < i * PageSize /\ i \in 1..n2
      BY <1>2, <1>14, <2>2, <2>3, <3>1, <3>2
    <3> QED
      BY <2>1, <3>2, <3>3
  <2>6. ASSUME NEW i \in OwnAt(q2), prefix < i * PageSize
        PROVE  i \in at
    <3>1. i \in 1..n2
      BY <2>1
    <3>2. i \in Int /\ i >= prefix \div PageSize + 1
      BY <2>2, <2>6, <3>1, PastFloor
    <3> QED
      BY <2>2, <2>4, <3>1, <3>2 DEF at
  <2> QED
    BY <2>5, <2>6
<1>22. \A i \in OwnAt(q2) : prefix < i * PageSize => k2[q2.row[i]] = Content(q2, i)
  <2>1. ASSUME NEW i \in OwnAt(q2), prefix < i * PageSize
        PROVE  k2[q2.row[i]] = Content(q2, i)
    <3> DEFINE x == i * PageSize
               m == Min({x, to})
    <3>1. i \in at /\ q2.row[i] \in Pages
      BY <1>14, <1>17, <1>21, <2>1, OwnPage
    <3>2. \A j \in at : q2.row[j] = q2.row[i] => j = i
      BY <1>20, <1>21, <3>1
    <3>3. k2[q2.row[i]] = SubSeq(q.toks, 1, m)
      BY <1>13, <1>14, <3>1, <3>2
    <3>4. x \in Int
      <4>1. i \in 1..Len(q2.row)
        BY <1>14, <1>17, OwnPosition
      <4> QED
        BY <4>1, PageSizeFacts
    <3>5. m \in 0..Len(q.toks)
      <4>1. prefix < x
        BY <2>1
      <4> HIDE DEF x
      <4>2. m = IF x =< to THEN x ELSE to
        BY <1>3, <3>4, MinPair
      <4> HIDE DEF m
      <4> QED
        BY <1>2, <1>3, <3>4, <4>1, <4>2
    <3>6. Content(q2, i) = SubSeq(tk, 1, m)
      BY <1>14, Zenon DEF Content
    <3> HIDE DEF m
    <3> QED
      BY <1>8, <3>3, <3>5, <3>6
  <2> QED
    BY <2>1
<1>23. \A p \in Pages : (\A i \in OwnAt(q2) : prefix < i * PageSize => q2.row[i] # p)
                          => k2[p] = s.kv[p]
  BY <1>13, <1>14, <1>21
<1> DEFINE pg == [x \in {r} |-> taken]
<1>24. Grows(s, u, {r}, pg)
  <2>1. Covered(s.req[r]) = prefix /\ u.req[r] = q2 /\ s.req[r] = q
    BY <1>15 DEF q
  <2>2. pg[r] = taken
    OBVIOUS
  <2>3. \A x \in {r} : Lengthens(s.req[x], u.req[x], pg[x])
    BY <1>16, <2>1, <2>2
  <2> HIDE DEF pg
  <2>4. \A x \in {r} : \A i \in OwnAt(u.req[x]) :
          Covered(s.req[x]) < i * PageSize => u.kv[u.req[x].row[i]] = Content(u.req[x], i)
    BY <1>15, <1>22, <2>1
  <2>5. \A p \in Pages :
          (\A x \in {r} : \A i \in OwnAt(u.req[x]) :
             Covered(s.req[x]) < i * PageSize => u.req[x].row[i] # p) => u.kv[p] = s.kv[p]
    BY <1>15, <1>23, <2>1
  <2>6. \A x \in Reqs \ {r} : u.req[x] = s.req[x]
    BY <1>15
  <2> QED
    BY <1>15, <1>19, <2>3, <2>4, <2>5, <2>6 DEF Grows
<1>25. Good(u)
  <2> HIDE DEF pg
  <2>1. {r} \in SUBSET Reqs
    OBVIOUS
  <2> QED
    BY <1>24, <2>1, GrowOK
<1>26. Prefilled(s, u, r, prefix, n)
  BY <1>4, <1>8, <1>14, <1>15, <1>17, <1>25 DEF Prefilled, need, to, st, q
<1> QED
  BY <1>26 DEF u

-----------------------------------------------------------------------------
(* Decode                                                                  *)

\* A request that a decode batch may carry.
Ready(q) == q.cache_protected_len =< q.kv_len /\ q.kv_len < Len(q.toks)

\* The request after a decode step that gave it the pages pg.
OneMore(q, q2, pg) ==
  /\ q2 \in ReqType /\ pg \in Seq(Pages)
  /\ Len(pg) = IF q.kv_len % PageSize = 0 THEN 1 ELSE 0
  /\ q2.row = q.row \o pg /\ q2.kv_len = q.kv_len + 1
  /\ \E t \in Nat : q2.toks = Append(q.toks, t)
  /\ q2.cache_protected_len = q.cache_protected_len /\ q2.last_node = q.last_node

\* The position of the next token's page.
Slot(q) == q.kv_len \div PageSize + 1

OneMoreTo(q, q2, pg) ==
  /\ Lengthens(q, q2, pg) /\ Slot(q) \in OwnAt(q2)
  /\ \A i \in OwnAt(q2) : Covered(q) < i * PageSize => i = Slot(q)
  /\ Covered(q) < Slot(q) * PageSize
  /\ Content(q2, Slot(q)) = SubSeq(q.toks, 1, q.kv_len + 1)

\* One more token: a page is needed exactly when the last one is full.
LEMMA OneMoreOK ==
  ASSUME NEW q \in ReqType, RowShape(q), Ready(q), NEW q2, NEW pg, OneMore(q, q2, pg)
  PROVE  OneMoreTo(q, q2, pg)
<1> DEFINE c == q.kv_len
           d == c + 1
           j == c \div PageSize + 1
           n2 == Len(q2.row)
<1>1. /\ q.toks \in Path /\ Len(q.toks) \in Nat /\ q.row \in Seq(Pages)
      /\ Len(q.row) \in Nat /\ c \in Nat /\ q.cache_protected_len \in Nat
      /\ Len(q.row) * PageSize = CeilAlign(Covered(q))
  BY RowFacts
<1>2. Covered(q) = c /\ q.cache_protected_len =< c /\ c < Len(q.toks)
  BY <1>1 DEF Ready, Covered
<1>3. /\ q2 \in ReqType /\ pg \in Seq(Pages) /\ Len(pg) = IF c % PageSize = 0 THEN 1 ELSE 0
      /\ q2.row = q.row \o pg /\ q2.kv_len = d
      /\ q2.cache_protected_len = q.cache_protected_len /\ q2.last_node = q.last_node
  BY DEF OneMore
<1>4. PICK t \in Nat : q2.toks = Append(q.toks, t)
  BY DEF OneMore
<1>5. /\ Len(q2.toks) = Len(q.toks) + 1
      /\ \A m \in 0..Len(q.toks) : SubSeq(q2.toks, 1, m) = SubSeq(q.toks, 1, m)
  BY <1>1, <1>4, AppendKeeps
<1>6. d \in Nat /\ c < d /\ d =< Len(q.toks)
  BY <1>1, <1>2
<1> HIDE DEF c, d
<1>7. /\ CeilAlign(c) \in Nat /\ CeilAlign(c) % PageSize = 0 /\ c =< CeilAlign(c)
      /\ CeilAlign(c) < c + PageSize
  BY <1>1, CeilFacts
<1>8. /\ CeilAlign(d) \in Nat /\ CeilAlign(d) % PageSize = 0 /\ d =< CeilAlign(d)
      /\ CeilAlign(d) < d + PageSize
      /\ \A y \in Nat : y % PageSize = 0 /\ d =< y => CeilAlign(d) =< y
  BY <1>6, CeilFacts
<1>9. Len(pg) * PageSize = CeilAlign(d) - CeilAlign(c)
  <2>1. CASE c % PageSize = 0
    <3>1. CeilAlign(c) = c
      BY <1>1, <2>1, CeilOrder
    <3>2. c < CeilAlign(d)
      BY <1>1, <1>6, <1>8
    <3>3. c + PageSize =< CeilAlign(d)
      BY <1>1, <1>8, <2>1, <3>2, AlignedGap
    <3>4. d = c + 1 /\ Len(pg) = 1
      BY <1>3, <2>1 DEF d
    <3>5. CeilAlign(d) = c + PageSize
      BY <1>1, <1>8, <3>3, <3>4, PageSizeFacts
    <3>6. 1 * PageSize = PageSize
      BY PageSizeFacts
    <3> QED
      BY <1>1, <3>1, <3>4, <3>5, <3>6, PageSizeFacts
  <2>2. CASE c % PageSize # 0
    <3>1. c # CeilAlign(c)
      BY <1>7, <2>2
    <3>2. d =< CeilAlign(c)
      BY <1>1, <1>7, <3>1 DEF d
    <3>3. CeilAlign(d) =< CeilAlign(c)
      BY <1>7, <1>8, <3>2
    <3>4. CeilAlign(c) =< CeilAlign(d)
      <4>1. c =< d
        BY <1>1, <1>6
      <4> QED
        BY <1>1, <1>6, <4>1, CeilOrder
    <3>5. Len(pg) = 0 /\ 0 * PageSize = 0
      BY <1>3, <2>2, PageSizeFacts
    <3> QED
      BY <1>7, <1>8, <3>3, <3>4, <3>5
  <2> QED
    BY <2>1, <2>2
<1>10. Lengthens(q, q2, pg)
  <2>1. Covered(q) =< q2.kv_len /\ q2.kv_len =< Len(q.toks)
    BY <1>1, <1>2, <1>3, <1>6
  <2>2. Len(pg) * PageSize = CeilAlign(q2.kv_len) - CeilAlign(Covered(q))
    BY <1>2, <1>3, <1>9
  <2>3. Len(q.toks) =< Len(q2.toks)
    BY <1>1, <1>5
  <2> QED
    BY <1>3, <1>5, <2>1, <2>2, <2>3 DEF Lengthens
<1>11. RowShape(q2) /\ n2 \in Nat
  <2>1. RowShape(q2) /\ n2 = Len(q.row) + Len(pg) /\ Len(pg) \in Nat
    BY <1>10, LengthenFacts
  <2> QED
    BY <1>1, <2>1
<1>12. n2 * PageSize = CeilAlign(d)
  <2>1. Covered(q2) = d
    BY <1>1, <1>2, <1>3, <1>6 DEF Covered
  <2> QED
    BY <1>11, <2>1 DEF RowShape
<1>13. c \div PageSize \in Nat /\ j \in Nat
  <2>1. c \div PageSize \in Nat
    BY <1>1, PageDivision
  <2> QED
    BY <2>1
<1>14. \A i \in Int : (i >= j <=> c < i * PageSize) /\ i * PageSize \in Int
  BY <1>1, PastFloor
<1> HIDE DEF j, n2
<1>15. (j * PageSize) % PageSize = 0 /\ j * PageSize \in Nat
  BY <1>13, PageMultiple
<1>16. c < j * PageSize /\ d =< j * PageSize
  <2>1. c < j * PageSize
    BY <1>13, <1>14
  <2> QED
    BY <1>1, <1>15, <2>1 DEF d
<1>17. j = n2
  <2>1. j =< n2
    <3>1. c < n2 * PageSize
      BY <1>1, <1>6, <1>8, <1>12
    <3> QED
      BY <1>11, <1>14, <3>1
  <2>2. n2 * PageSize =< j * PageSize
    BY <1>8, <1>12, <1>15, <1>16
  <2>3. n2 =< j
    BY <1>11, <1>13, <2>2, PageMonotone
  <2> QED
    BY <1>11, <1>13, <2>1, <2>3
<1>18. \A i : i \in OwnAt(q2) <=> i \in 1..n2 /\ q2.cache_protected_len < i * PageSize
  BY <1>3, <1>11, OwnPosition DEF n2
<1>19. j \in OwnAt(q2)
  <2>1. j \in 1..n2
    <3>1. j >= 1
      BY <1>13 DEF j
    <3> QED
      BY <1>11, <1>17, <3>1
  <2>2. q2.cache_protected_len < j * PageSize
    BY <1>1, <1>2, <1>3, <1>15, <1>16
  <2> QED
    BY <1>18, <2>1, <2>2
<1>20. ASSUME NEW i \in OwnAt(q2), c < i * PageSize
       PROVE  i = j
  <2>1. i \in 1..n2
    BY <1>18
  <2>2. i >= j
    BY <1>11, <1>14, <1>20, <2>1
  <2> QED
    BY <1>11, <1>17, <2>1, <2>2
<1>21. Content(q2, j) = SubSeq(q.toks, 1, d)
  <2> DEFINE x == j * PageSize
  <2>1. Min({x, d}) = d
    <3>1. x \in Int /\ d =< x
      BY <1>15, <1>16
    <3> HIDE DEF x
    <3>2. Min({x, d}) = IF x =< d THEN x ELSE d
      BY <1>6, <3>1, MinPair
    <3> QED
      BY <1>6, <3>1, <3>2
  <2>2. Content(q2, j) = SubSeq(q2.toks, 1, Min({x, q2.kv_len}))
    BY DEF Content
  <2>3. Content(q2, j) = SubSeq(q2.toks, 1, d)
    BY <1>3, <2>1, <2>2
  <2>4. d \in 0..Len(q.toks)
    BY <1>1, <1>6
  <2> QED
    BY <1>5, <2>3, <2>4
<1>22. Slot(q) = j /\ d = q.kv_len + 1
  BY DEF Slot, j, c, d
<1> QED
  BY <1>2, <1>10, <1>16, <1>19, <1>20, <1>21, <1>22 DEF OneMoreTo

\* The rows of a decode batch, and the state after prepare_for_decode and
\* run_batch.
DecodeRows(s, B) ==
  LET N     == NeedsPage(s, B)
      pages == TakePages(s, Cardinality(N))
  IN  [r \in B |-> IF r \in N THEN Append(s.req[r].row, pages[Cardinality({x \in N : x =< r})])
                   ELSE s.req[r].row]

Decoded(s, B, t) ==
  LET N     == NeedsPage(s, B)
      pages == TakePages(s, Cardinality(N))
      rank(r) == Cardinality({x \in N : x =< r})
      row   == [r \in B |-> IF r \in N THEN Append(s.req[r].row, pages[rank(r)])
                            ELSE s.req[r].row]
  IN  [s EXCEPT
         !.free = @ \ ToSet(pages),
         !.kv = WriteSlots(@, row, s.req, B),
         !.req = [r \in Reqs |->
            IF r \notin B THEN s.req[r]
            ELSE [s.req[r] EXCEPT !.row = row[r], !.kv_len = @ + 1,
                                  !.toks = Append(@, t[r])]]]

\* Other pages, other contents and other requests.
Redoes(s, u, f, k, rq) ==
  /\ s \in StateType /\ f \in SUBSET Pages /\ k \in [Pages -> Path]
  /\ rq \in [Reqs -> ReqType] /\ u = [s EXCEPT !.free = f, !.kv = k, !.req = rq]

Redone(s, u, f, k, rq) ==
  /\ u \in StateType /\ u.tree = s.tree /\ u.fault = s.fault /\ u.free = f /\ u.kv = k
  /\ u.req = rq

\* Only these fields change.
LEMMA Redo ==
  ASSUME NEW s, NEW u, NEW f, NEW k, NEW rq, Redoes(s, u, f, k, rq)
  PROVE  Redone(s, u, f, k, rq)
BY DEF Redoes, Redone, StateType

\* What a decode step changes in a request.
DecodeTo(q, q2, row, t) ==
  /\ q2 \in ReqType /\ q2.st = q.st /\ q2.plen = q.plen /\ q2.max_new = q.max_new
  /\ q2.known = q.known /\ q2.fill = q.fill
  /\ q2.cache_protected_len = q.cache_protected_len /\ q2.last_node = q.last_node
  /\ q2.row = row /\ q2.kv_len = q.kv_len + 1 /\ q2.toks = Append(q.toks, t)

\* The fields of a request that is decoded.
LEMMA DecodeOne ==
  ASSUME NEW q \in ReqType, NEW row \in Seq(Pages), NEW t \in Nat
  PROVE  DecodeTo(q, [q EXCEPT !.row = row, !.kv_len = @ + 1, !.toks = Append(@, t)], row, t)
<1> DEFINE k == q.kv_len + 1
           tk == Append(q.toks, t)
           q2 == [q EXCEPT !.row = row, !.kv_len = k, !.toks = tk]
<1>1. q.toks \in Path /\ q.kv_len \in Nat
  BY DEF ReqType
<1>2. k \in Nat /\ tk \in Path
  <2>1. k \in Nat
    BY <1>1
  <2>2. tk \in Path
    BY Zenon, <1>1, AppendKeeps
  <2> QED
    BY <2>1, <2>2
<1>3. [q EXCEPT !.row = row, !.kv_len = @ + 1, !.toks = Append(@, t)] = q2
  BY Zenon
<1> HIDE DEF k, tk
<1>4. q2 \in ReqType
  BY <1>2 DEF ReqType
<1>5. /\ q2.st = q.st /\ q2.plen = q.plen /\ q2.max_new = q.max_new
      /\ q2.known = q.known /\ q2.fill = q.fill
      /\ q2.cache_protected_len = q.cache_protected_len /\ q2.last_node = q.last_node
      /\ q2.row = row /\ q2.kv_len = k /\ q2.toks = tk
  BY DEF ReqType
<1> HIDE DEF q2
<1> QED
  BY <1>3, <1>4, <1>5 DEF DecodeTo, k, tk

\* The rows that a decode batch gets.
RowPlan(s, B, row, pg) ==
  /\ \A r \in B : row[r] \in Seq(Pages) /\ row[r] = s.req[r].row \o pg[r] /\ pg[r] \in Seq(Pages)
  /\ \A r \in B : Len(pg[r]) = IF s.req[r].kv_len % PageSize = 0 THEN 1 ELSE 0
  /\ \A r \in B : s.req[r].kv_len % PageSize = 0 => pg[r][1] \in s.free
  /\ \A r, x \in B : s.req[r].kv_len % PageSize = 0 /\ s.req[x].kv_len % PageSize = 0
                       /\ pg[r][1] = pg[x][1] => r = x

\* The pages a decode batch takes go to the rows that need one, each to another row.
LEMMA DecodeRowsOK ==
  ASSUME NEW s, Good(s), NEW B \in SUBSET Reqs,
         Cardinality(NeedsPage(s, B)) =< Cardinality(s.free)
  PROVE  LET pages == TakePages(s, Cardinality(NeedsPage(s, B)))
         IN  \E pg : /\ RowPlan(s, B, DecodeRows(s, B), pg)
                     /\ ToSet(pages) \subseteq s.free
                     /\ \A p \in ToSet(pages) : \E r \in B :
                          s.req[r].kv_len % PageSize = 0 /\ pg[r][1] = p
                     /\ \A r \in B : s.req[r].kv_len % PageSize = 0 => pg[r][1] \in ToSet(pages)
<1> DEFINE N == NeedsPage(s, B)
           n == Cardinality(N)
           pages == TakePages(s, n)
           rk(r) == Cardinality(UpTo(N, r))
           pg == [r \in B |-> IF r \in N THEN <<pages[rk(r)]>> ELSE <<>>]
           row == DecodeRows(s, B)
<1>1. /\ s \in StateType
      /\ \A r \in Reqs : s.req[r] \in ReqType /\ s.req[r].row \in Seq(Pages)
  <2>1. s \in StateType /\ \A r \in Reqs : s.req[r] \in ReqType
    BY GoodFacts
  <2> QED
    BY <2>1 DEF ReqType
<1>2. N \in SUBSET Nat /\ IsFiniteSet(N) /\ N \in SUBSET B
      /\ \A r \in B : r \in N <=> s.req[r].kv_len % PageSize = 0
  <2>1. N \in SUBSET B /\ \A r \in B : r \in N <=> s.req[r].kv_len % PageSize = 0
    BY DEF NeedsPage
  <2>2. N \in SUBSET Reqs
    BY <2>1
  <2> QED
    BY <2>1, <2>2, PoolAssumption, FS_Subset
<1>3. /\ n \in Nat
      /\ \A x \in N : rk(x) \in 1..n
      /\ \A x, z \in N : rk(x) = rk(z) => x = z
      /\ \A i \in 1..n : \E x \in N : rk(x) = i
  <2> HIDE DEF N
  <2> QED
    BY <1>2, Ranks
<1>4. /\ pages \in Seq(Pages) /\ Len(pages) = n
      /\ \A i \in 1..n : pages[i] \in s.free
      /\ \A i, j \in 1..n : pages[i] = pages[j] => i = j
      /\ \A p : p \in ToSet(pages) <=> \E i \in 1..n : pages[i] = p
  <2>1. Cardinality(s.free) \in Nat
    BY Accounting
  <2>2. n \in 0..Cardinality(s.free)
    BY <1>3, <2>1
  <2> HIDE DEF n
  <2> QED
    BY <1>1, <2>2, TakePagesFacts
<1>5. row = [r \in B |-> IF r \in N THEN Append(s.req[r].row, pages[rk(r)]) ELSE s.req[r].row]
  BY DEF DecodeRows, UpTo
<1> HIDE DEF N, n, pages, row, rk
<1>6. \A r \in N : pages[rk(r)] \in s.free /\ pages[rk(r)] \in Pages
  <2>1. s.free \in SUBSET Pages
    BY <1>1, StateFacts
  <2> QED
    BY <1>3, <1>4, <2>1
<1>7. ASSUME NEW r \in B
      PROVE  /\ pg[r] \in Seq(Pages) /\ row[r] = s.req[r].row \o pg[r]
             /\ row[r] \in Seq(Pages)
             /\ Len(pg[r]) = IF r \in N THEN 1 ELSE 0
             /\ r \in N => pg[r][1] = pages[rk(r)]
  <2> DEFINE a == s.req[r].row
             b == pages[rk(r)]
  <2>1. a \in Seq(Pages)
    BY <1>1
  <2>2. CASE r \in N
    <3>1. pg[r] = <<b>> /\ row[r] = Append(a, b) /\ b \in Pages
      BY <1>5, <1>6, <2>2
    <3> HIDE DEF a, b, pg
    <3>2. Append(a, b) = a \o <<b>> /\ <<b>> \in Seq(Pages) /\ Append(a, b) \in Seq(Pages)
          /\ Len(<<b>>) = 1 /\ <<b>>[1] = b
      BY <2>1, <3>1
    <3> QED
      BY <2>2, <3>1, <3>2 DEF a, b
  <2>3. CASE r \notin N
    <3>1. pg[r] = <<>> /\ row[r] = a
      BY <1>5, <2>3
    <3> HIDE DEF a, pg
    <3>2. a \o <<>> = a /\ <<>> \in Seq(Pages) /\ Len(<<>>) = 0
      BY <2>1
    <3> QED
      BY <2>1, <2>3, <3>1, <3>2 DEF a
  <2> QED
    BY <2>2, <2>3
<1> HIDE DEF pg
<1>8. RowPlan(s, B, row, pg)
  <2>1. \A r \in B : row[r] \in Seq(Pages) /\ row[r] = s.req[r].row \o pg[r]
                      /\ pg[r] \in Seq(Pages)
    BY <1>7
  <2>2. \A r \in B : Len(pg[r]) = IF s.req[r].kv_len % PageSize = 0 THEN 1 ELSE 0
    BY <1>2, <1>7
  <2>3. \A r \in B : s.req[r].kv_len % PageSize = 0 => pg[r][1] \in s.free
    BY <1>2, <1>6, <1>7
  <2>4. ASSUME NEW r \in B, NEW x \in B, s.req[r].kv_len % PageSize = 0,
               s.req[x].kv_len % PageSize = 0, pg[r][1] = pg[x][1]
        PROVE  r = x
    <3>1. r \in N /\ x \in N
      BY <1>2, <2>4
    <3>2. pages[rk(r)] = pages[rk(x)] /\ rk(r) \in 1..n /\ rk(x) \in 1..n
      BY <1>3, <1>7, <2>4, <3>1
    <3>3. rk(r) = rk(x)
      BY <1>4, <3>2
    <3> QED
      BY <1>3, <3>1, <3>3
  <2> QED
    BY <2>1, <2>2, <2>3, <2>4, Zenon DEF RowPlan
<1>9. ToSet(pages) \subseteq s.free
  BY <1>4
<1>10. ASSUME NEW p \in ToSet(pages)
       PROVE  \E r \in B : s.req[r].kv_len % PageSize = 0 /\ pg[r][1] = p
  <2>1. PICK i \in 1..n : pages[i] = p
    BY <1>4
  <2>2. PICK x \in N : rk(x) = i
    BY <1>3
  <2> QED
    BY <1>2, <1>7, <2>1, <2>2
<1>11. \A r \in B : s.req[r].kv_len % PageSize = 0 => pg[r][1] \in ToSet(pages)
  BY <1>2, <1>3, <1>4, <1>7
<1> QED
  BY <1>8, <1>9, <1>10, <1>11 DEF pages, n, N, row

\* The pages of a decode batch are different ones.
LEMMA SlotsDiffer ==
  ASSUME NEW s, Good(s), NEW B \in SUBSET Reqs, NEW rq2, NEW f2,
         Takes(s.free, f2, s.req, rq2, B),
         NEW pg, \A r \in B : OneMoreTo(s.req[r], rq2[r], pg[r])
  PROVE  \A r, x \in B : rq2[r].row[Slot(s.req[r])] = rq2[x].row[Slot(s.req[x])] => r = x
<1>1. /\ \A r \in Reqs : s.req[r] \in ReqType /\ RowShape(s.req[r])
      /\ PagesOK(s.tree.value, s.free, s.req, s.kv)
  BY GoodFacts
<1>2. ASSUME NEW r \in B
      PROVE  LET i == Slot(s.req[r])
             IN  \/ i \in NewAt(s.req[r], rq2[r]) /\ rq2[r].row[i] \in s.free
                 \/ /\ i \in OwnAt(s.req[r]) /\ rq2[r].row[i] = s.req[r].row[i]
                    /\ rq2[r].row[i] \notin s.free
  <2> DEFINE q == s.req[r]
             q2 == rq2[r]
             P == pg[r]
  <2>1. q \in ReqType /\ RowShape(q) /\ Lengthens(q, q2, P) /\ Slot(q) \in OwnAt(q2)
    BY <1>1 DEF OneMoreTo
  <2>2. \A i \in NewAt(q, q2) : q2.row[i] \in s.free
    BY DEF Takes
  <2>3. \A i \in OwnAt(q) : q.row[i] \notin s.free
    BY <1>1 DEF PagesOK, OwnsRest
  <2> HIDE DEF q, q2, P
  <2>4. \A i \in OwnAt(q2) : i \in NewAt(q, q2) \/ (i \in OwnAt(q) /\ q2.row[i] = q.row[i])
    BY <2>1, LengthenFacts
  <2>5. LET i == Slot(q)
        IN  \/ i \in NewAt(q, q2) /\ q2.row[i] \in s.free
            \/ i \in OwnAt(q) /\ q2.row[i] = q.row[i] /\ q2.row[i] \notin s.free
    BY <2>1, <2>2, <2>3, <2>4
  <2> QED
    BY <2>5 DEF q, q2
<1>3. ASSUME NEW r \in B, NEW x \in B,
             rq2[r].row[Slot(s.req[r])] = rq2[x].row[Slot(s.req[x])]
      PROVE  r = x
  <2>1. CASE rq2[r].row[Slot(s.req[r])] \in s.free
    <3>1. Slot(s.req[r]) \in NewAt(s.req[r], rq2[r]) /\ Slot(s.req[x]) \in NewAt(s.req[x], rq2[x])
      BY <1>2, <1>3, <2>1
    <3> QED
      BY <1>3, <3>1 DEF Takes
  <2>2. CASE rq2[r].row[Slot(s.req[r])] \notin s.free
    <3>1. /\ Slot(s.req[r]) \in OwnAt(s.req[r]) /\ Slot(s.req[x]) \in OwnAt(s.req[x])
          /\ s.req[r].row[Slot(s.req[r])] = s.req[x].row[Slot(s.req[x])]
      BY <1>2, <1>3, <2>2
    <3> QED
      BY <1>1, <3>1 DEF PagesOK, NoSharing
  <2> QED
    BY <2>1, <2>2
<1> QED
  BY <1>3

\* What the device writes during a decode step.
SlotArgs(mem, row, reqs, B) ==
  /\ mem \in [Pages -> Path] /\ B \subseteq Reqs
  /\ \A r \in B : reqs[r].toks \in Path /\ reqs[r].kv_len \in Nat
                  /\ reqs[r].kv_len < Len(reqs[r].toks)
  /\ \A r, x \in B : row[r][Slot(reqs[r])] = row[x][Slot(reqs[x])] => r = x

SlotsWritten(k2, mem, row, reqs, B) ==
  /\ k2 \in [Pages -> Path]
  /\ \A p \in Pages : (\A r \in B : row[r][Slot(reqs[r])] # p) => k2[p] = mem[p]
  /\ \A r \in B : row[r][Slot(reqs[r])] \in Pages =>
       k2[row[r][Slot(reqs[r])]] = SubSeq(reqs[r].toks, 1, reqs[r].kv_len + 1)

\* What the device writes in a decode step: one slot per row.
LEMMA SlotFacts ==
  ASSUME NEW mem, NEW row, NEW reqs, NEW B, SlotArgs(mem, row, reqs, B)
  PROVE  SlotsWritten(WriteSlots(mem, row, reqs, B), mem, row, reqs, B)
<1> DEFINE pageOf(r) == row[r][Slot(reqs[r])]
           at(p) == {r \in B : pageOf(r) = p}
           who(p) == CHOOSE x \in at(p) : TRUE
           val(r) == SubSeq(reqs[r].toks, 1, reqs[r].kv_len + 1)
           k2 == WriteSlots(mem, row, reqs, B)
<1>1. k2 = [p \in Pages |-> IF at(p) = {} THEN mem[p] ELSE val(who(p))]
  BY DEF WriteSlots, Slot
<1>2. mem \in [Pages -> Path] /\ \A r, x \in B : pageOf(r) = pageOf(x) => r = x
  BY DEF SlotArgs
<1>3. ASSUME NEW r \in B
      PROVE  val(r) \in Path
  <2> DEFINE tk == reqs[r].toks
             d == reqs[r].kv_len + 1
  <2>1. tk \in Path /\ d \in 0..Len(tk)
    <3>1. tk \in Path /\ reqs[r].kv_len \in Nat /\ reqs[r].kv_len < Len(tk)
      BY DEF SlotArgs
    <3>2. Len(tk) \in Nat
      BY <3>1 DEF Path
    <3> QED
      BY <3>1, <3>2
  <2> HIDE DEF tk, d
  <2>2. SubSeq(tk, 1, d) \in Path
    BY <2>1, Cut
  <2> QED
    BY <2>2 DEF tk, d
<1> HIDE DEF val, pageOf
<1>4. \A p : at(p) # {} => who(p) \in B
  OBVIOUS
<1>5. ASSUME NEW r \in B
      PROVE  at(pageOf(r)) # {} /\ who(pageOf(r)) = r
  <2>1. r \in at(pageOf(r)) /\ \A x \in at(pageOf(r)) : x = r
    BY <1>2
  <2> HIDE DEF at
  <2> QED
    BY <2>1
<1> HIDE DEF at, who, k2
<1>6. k2 \in [Pages -> Path]
  <2>1. \A p \in Pages : (IF at(p) = {} THEN mem[p] ELSE val(who(p))) \in Path
    BY <1>2, <1>3, <1>4
  <2> QED
    BY <1>1, <2>1
<1>7. ASSUME NEW p \in Pages, \A r \in B : pageOf(r) # p
      PROVE  k2[p] = mem[p]
  <2>1. at(p) = {}
    BY <1>7 DEF at
  <2> QED
    BY <1>1, <2>1
<1>8. ASSUME NEW r \in B, pageOf(r) \in Pages
      PROVE  k2[pageOf(r)] = val(r)
  BY <1>1, <1>5, <1>8
<1> QED
  BY <1>6, <1>7, <1>8, Zenon DEF SlotsWritten, pageOf, val, k2

\* What a decode step changes.
DecodedTo(s, u, B) ==
  /\ Good(u) /\ u.fault = s.fault
  /\ \A x \in Reqs : x \notin B => u.req[x] = s.req[x]
  /\ \A r \in B :
       /\ u.req[r].st = s.req[r].st /\ u.req[r].plen = s.req[r].plen
       /\ u.req[r].max_new = s.req[r].max_new /\ u.req[r].known = s.req[r].known
       /\ u.req[r].fill = s.req[r].fill
       /\ u.req[r].cache_protected_len = s.req[r].cache_protected_len
       /\ u.req[r].kv_len = s.req[r].kv_len + 1
       /\ Len(u.req[r].toks) = Len(s.req[r].toks) + 1

\* A decode step for which there are pages keeps the state good.
LEMMA DecodedOK ==
  ASSUME NEW s, Good(s), NEW B \in SUBSET Reqs, \A r \in B : Ready(s.req[r]),
         Cardinality(NeedsPage(s, B)) =< Cardinality(s.free), NEW t \in [B -> Nat]
  PROVE  DecodedTo(s, Decoded(s, B, t), B)
<1> DEFINE pages == TakePages(s, Cardinality(NeedsPage(s, B)))
           row == DecodeRows(s, B)
           f2 == s.free \ ToSet(pages)
           k2 == WriteSlots(s.kv, row, s.req, B)
           next(r) == [s.req[r] EXCEPT !.row = row[r], !.kv_len = @ + 1,
                                       !.toks = Append(@, t[r])]
           rq2 == [r \in Reqs |-> IF r \notin B THEN s.req[r] ELSE next(r)]
           u == Decoded(s, B, t)
<1>1. /\ s \in StateType /\ PagesOK(s.tree.value, s.free, s.req, s.kv)
      /\ \A r \in Reqs : s.req[r] \in ReqType /\ RowShape(s.req[r])
  BY GoodFacts
<1>2. s.free \in SUBSET Pages /\ s.kv \in [Pages -> Path]
  BY <1>1, StateFacts
<1>3. PICK pg : /\ RowPlan(s, B, row, pg)
                /\ ToSet(pages) \subseteq s.free
                /\ \A p \in ToSet(pages) : \E r \in B :
                     s.req[r].kv_len % PageSize = 0 /\ pg[r][1] = p
                /\ \A r \in B : s.req[r].kv_len % PageSize = 0 => pg[r][1] \in ToSet(pages)
  BY DecodeRowsOK
<1>4. u = [s EXCEPT !.free = f2, !.kv = k2, !.req = rq2]
  BY Zenon DEF Decoded, DecodeRows
<1> HIDE DEF pages, row
<1>5. /\ \A r \in B : row[r] \in Seq(Pages) /\ row[r] = s.req[r].row \o pg[r]
                      /\ pg[r] \in Seq(Pages)
      /\ \A r \in B : Len(pg[r]) = IF s.req[r].kv_len % PageSize = 0 THEN 1 ELSE 0
      /\ \A r \in B : s.req[r].kv_len % PageSize = 0 => pg[r][1] \in s.free
      /\ \A r, x \in B : s.req[r].kv_len % PageSize = 0 /\ s.req[x].kv_len % PageSize = 0
                           /\ pg[r][1] = pg[x][1] => r = x
  BY <1>3 DEF RowPlan
<1>6. ASSUME NEW r \in B
      PROVE  DecodeTo(s.req[r], next(r), row[r], t[r])
  <2> DEFINE q == s.req[r]
             w == row[r]
             tt == t[r]
  <2>1. q \in ReqType /\ w \in Seq(Pages) /\ tt \in Nat
    BY <1>1, <1>5
  <2> HIDE DEF q, w, tt
  <2>2. DecodeTo(q, [q EXCEPT !.row = w, !.kv_len = @ + 1, !.toks = Append(@, tt)], w, tt)
    BY <2>1, DecodeOne
  <2> QED
    BY <2>2 DEF q, w, tt
<1> HIDE DEF next
<1>7. /\ \A r \in B : rq2[r] = next(r) /\ DecodeTo(s.req[r], rq2[r], row[r], t[r])
      /\ \A x \in Reqs \ B : rq2[x] = s.req[x]
      /\ rq2 \in [Reqs -> ReqType]
  <2>1. \A r \in B : rq2[r] = next(r) /\ DecodeTo(s.req[r], rq2[r], row[r], t[r])
    BY <1>6
  <2>2. \A x \in Reqs \ B : rq2[x] = s.req[x]
    OBVIOUS
  <2>3. \A x \in Reqs : (IF x \notin B THEN s.req[x] ELSE next(x)) \in ReqType
    BY <1>1, <1>6 DEF DecodeTo
  <2> QED
    BY <2>1, <2>2, <2>3
<1> HIDE DEF rq2, f2, k2, u
<1>8. ASSUME NEW r \in B
      PROVE  OneMoreTo(s.req[r], rq2[r], pg[r])
  <2> DEFINE q == s.req[r]
             q2 == rq2[r]
             P == pg[r]
             tt == t[r]
  <2>1. q \in ReqType /\ RowShape(q) /\ Ready(q) /\ tt \in Nat
    BY <1>1
  <2>2. DecodeTo(q, q2, q.row \o P, tt) /\ P \in Seq(Pages)
        /\ Len(P) = IF q.kv_len % PageSize = 0 THEN 1 ELSE 0
    BY <1>5, <1>7
  <2> HIDE DEF q, q2, P, tt
  <2>3. OneMore(q, q2, P)
    BY <2>1, <2>2 DEF OneMore, DecodeTo
  <2>4. OneMoreTo(q, q2, P)
    BY <2>1, <2>3, OneMoreOK
  <2> QED
    BY <2>4 DEF q, q2, P
<1>9. ASSUME NEW r \in B
      PROVE  /\ \A i \in NewAt(s.req[r], rq2[r]) :
                  /\ s.req[r].kv_len % PageSize = 0 /\ i = Len(s.req[r].row) + 1
                  /\ rq2[r].row[i] = pg[r][1]
             /\ s.req[r].kv_len % PageSize = 0 =>
                  Len(s.req[r].row) + 1 \in NewAt(s.req[r], rq2[r])
  <2> DEFINE q == s.req[r]
             q2 == rq2[r]
             P == pg[r]
             n == Len(q.row)
             a == (q.kv_len % PageSize = 0)
  <2>1. q \in ReqType /\ RowShape(q) /\ Lengthens(q, q2, P) /\ Len(P) = IF a THEN 1 ELSE 0
    BY <1>1, <1>5, <1>8 DEF OneMoreTo
  <2>20. q \in ReqType /\ RowShape(q) /\ Lengthens(q, q2, P)
    BY <2>1
  <2> HIDE DEF q, q2, P, a
  <2>2. /\ Len(q.row) \in Nat /\ \A j \in 1..Len(P) : q2.row[Len(q.row) + j] = P[j]
        /\ \A i : i \in NewAt(q, q2) <=> i \in (Len(q.row) + 1)..(Len(q.row) + Len(P))
    BY <2>20, LengthenFacts
  <2>21. /\ n \in Nat /\ \A j \in 1..Len(P) : q2.row[n + j] = P[j]
         /\ \A i : i \in NewAt(q, q2) <=> i \in (n + 1)..(n + Len(P))
    BY <2>2, Zenon
  <2> HIDE DEF n
  <2>3. CASE a
    <3>1. Len(P) = 1
      BY <2>1, <2>3
    <3>2. \A i : i \in NewAt(q, q2) <=> i = n + 1
      <4>1. ASSUME NEW i
            PROVE  i \in (n + 1)..(n + 1) <=> i = n + 1
        BY <2>21
      <4> QED
        BY <2>21, <3>1, <4>1
    <3>3. q2.row[n + 1] = P[1]
      BY <2>21, <3>1
    <3>4. /\ \A i \in NewAt(q, q2) : a /\ i = n + 1 /\ q2.row[i] = P[1]
          /\ a => n + 1 \in NewAt(q, q2)
      BY <2>3, <3>2, <3>3
    <3> QED
      BY <3>4 DEF q, q2, P, a, n
  <2>4. CASE ~a
    <3>1. Len(P) = 0
      BY <2>1, <2>4
    <3>2. \A i : i \notin NewAt(q, q2)
      <4>1. ASSUME NEW i
            PROVE  i \notin (n + 1)..(n + 0)
        BY <2>21
      <4> QED
        BY <2>21, <3>1, <4>1
    <3> QED
      BY <2>4, <3>2 DEF q, q2, a
  <2> QED
    BY <2>3, <2>4
<1>10. Takes(s.free, f2, s.req, rq2, B)
  <2>1. f2 \subseteq s.free /\ \A p : p \in s.free \ f2 <=> p \in ToSet(pages)
    BY <1>3 DEF f2
  <2>2. \A r \in B : \A i \in NewAt(s.req[r], rq2[r]) : rq2[r].row[i] \in s.free \ f2
    BY <1>3, <1>9, <2>1
  <2>3. ASSUME NEW r \in B, NEW x \in B, NEW i \in NewAt(s.req[r], rq2[r]),
               NEW j \in NewAt(s.req[x], rq2[x]), rq2[r].row[i] = rq2[x].row[j]
        PROVE  r = x /\ i = j
    BY <1>5, <1>9, <2>3
  <2>4. ASSUME NEW p \in s.free \ f2
        PROVE  \E r \in B : \E i \in NewAt(s.req[r], rq2[r]) : rq2[r].row[i] = p
    <3>1. PICK r \in B : s.req[r].kv_len % PageSize = 0 /\ pg[r][1] = p
      BY <1>3, <2>1
    <3> QED
      BY <1>9, <3>1
  <2> QED
    BY <2>1, <2>2, <2>3, <2>4 DEF Takes
<1>11. \A r, x \in B : rq2[r].row[Slot(s.req[r])] = rq2[x].row[Slot(s.req[x])] => r = x
  BY <1>8, <1>10, SlotsDiffer
<1>12. \A r \in B : rq2[r].row = row[r]
  BY <1>7 DEF DecodeTo
<1>13. SlotsWritten(k2, s.kv, row, s.req, B)
  <2>1. \A r \in B : s.req[r].toks \in Path /\ s.req[r].kv_len \in Nat
                     /\ s.req[r].kv_len < Len(s.req[r].toks)
    BY <1>1 DEF ReqType, Ready
  <2>2. SlotArgs(s.kv, row, s.req, B)
    BY <1>2, <1>11, <1>12, <2>1 DEF SlotArgs
  <2> QED
    BY <2>2, SlotFacts DEF k2
<1>14. Redone(s, u, f2, k2, rq2)
  <2>1. f2 \in SUBSET Pages /\ k2 \in [Pages -> Path]
    BY <1>2, <1>13 DEF f2, SlotsWritten
  <2>2. Redoes(s, u, f2, k2, rq2)
    BY <1>1, <1>4, <1>7, <2>1 DEF Redoes
  <2> QED
    BY <2>2, Redo
<1>15. /\ u \in StateType /\ u.tree = s.tree /\ u.fault = s.fault /\ u.free = f2 /\ u.kv = k2
       /\ u.req = rq2
  BY <1>14 DEF Redone
<1>16. ASSUME NEW r \in B
       PROVE  /\ Slot(s.req[r]) \in OwnAt(rq2[r])
              /\ \A i \in OwnAt(rq2[r]) : Covered(s.req[r]) < i * PageSize => i = Slot(s.req[r])
              /\ Covered(s.req[r]) < Slot(s.req[r]) * PageSize
              /\ Content(rq2[r], Slot(s.req[r])) = SubSeq(s.req[r].toks, 1, s.req[r].kv_len + 1)
              /\ Lengthens(s.req[r], rq2[r], pg[r])
              /\ rq2[r].row[Slot(s.req[r])] \in Pages
  <2>1. Lengthens(s.req[r], rq2[r], pg[r]) /\ Slot(s.req[r]) \in OwnAt(rq2[r])
    BY <1>8 DEF OneMoreTo
  <2>2. rq2[r].row[Slot(s.req[r])] \in Pages
    <3> DEFINE q == s.req[r]
               q2 == rq2[r]
               P == pg[r]
               i == Slot(q)
    <3>1. q \in ReqType /\ RowShape(q) /\ Lengthens(q, q2, P) /\ i \in OwnAt(q2) /\ q2 \in ReqType
      BY <1>1, <1>7, <2>1
    <3> HIDE DEF q, q2, P, i
    <3>2. RowShape(q2)
      BY <3>1, LengthenFacts
    <3>3. q2.row[i] \in Pages
      BY <3>1, <3>2, OwnPage
    <3> QED
      BY <3>3 DEF q2, i, q
  <2> QED
    BY <1>8, <2>1, <2>2 DEF OneMoreTo
<1>17. \A r \in B : \A i \in OwnAt(u.req[r]) :
         Covered(s.req[r]) < i * PageSize => u.kv[u.req[r].row[i]] = Content(u.req[r], i)
  <2>1. ASSUME NEW r \in B
        PROVE  k2[rq2[r].row[Slot(s.req[r])]] = Content(rq2[r], Slot(s.req[r]))
    <3>1. k2[row[r][Slot(s.req[r])]] = SubSeq(s.req[r].toks, 1, s.req[r].kv_len + 1)
      BY <1>12, <1>13, <1>16 DEF SlotsWritten
    <3> QED
      BY <1>12, <1>16, <3>1
  <2> QED
    BY <1>15, <1>16, <2>1
<1>18. \A p \in Pages :
         (\A r \in B : \A i \in OwnAt(u.req[r]) :
            Covered(s.req[r]) < i * PageSize => u.req[r].row[i] # p) => u.kv[p] = s.kv[p]
  BY <1>12, <1>13, <1>15, <1>16 DEF SlotsWritten
<1>19. Grows(s, u, B, pg)
  BY <1>7, <1>10, <1>15, <1>16, <1>17, <1>18 DEF Grows
<1>20. Good(u)
  BY <1>19, GrowOK
<1>21. ASSUME NEW r \in B
       PROVE  /\ u.req[r].st = s.req[r].st /\ u.req[r].plen = s.req[r].plen
              /\ u.req[r].max_new = s.req[r].max_new /\ u.req[r].known = s.req[r].known
              /\ u.req[r].fill = s.req[r].fill
              /\ u.req[r].cache_protected_len = s.req[r].cache_protected_len
              /\ u.req[r].kv_len = s.req[r].kv_len + 1
              /\ Len(u.req[r].toks) = Len(s.req[r].toks) + 1
  <2> DEFINE q == s.req[r]
             q2 == rq2[r]
             tt == t[r]
             w == row[r]
  <2>1. DecodeTo(q, q2, w, tt) /\ q.toks \in Path /\ tt \in Nat
    BY <1>1, <1>7 DEF ReqType
  <2>2. u.req[r] = q2
    BY <1>15
  <2> HIDE DEF q, q2, w, tt
  <2>3. Len(Append(q.toks, tt)) = Len(q.toks) + 1
    BY <2>1, AppendKeeps
  <2>4. /\ q2.st = q.st /\ q2.plen = q.plen
        /\ q2.max_new = q.max_new /\ q2.known = q.known
        /\ q2.fill = q.fill /\ q2.cache_protected_len = q.cache_protected_len
        /\ q2.kv_len = q.kv_len + 1 /\ Len(q2.toks) = Len(q.toks) + 1
    BY <2>1, <2>3 DEF DecodeTo
  <2> QED
    BY <2>2, <2>4 DEF q
<1> QED
  BY <1>7, <1>15, <1>20, <1>21 DEF DecodedTo, u

-----------------------------------------------------------------------------
(* The queue of results                                                    *)

\* One if batch b carries a token of r.
Token(b, r) == IF r \in DOMAIN b /\ b[r] # "chunk" THEN 1 ELSE 0

\* A launch adds what its batch carries.
LEMMA QueueAppend ==
  ASSUME NEW Q \in Seq(Batches), Len(Q) < Depth, NEW b \in Batches
  PROVE  /\ Append(Q, b) \in Seq(Batches) /\ Len(Append(Q, b)) =< Depth
         /\ Len(Append(Q, b)) = Len(Q) + 1
         /\ \A r : /\ Due(Append(Q, b), r) = Due(Q, r) + Token(b, r)
                   /\ Due(Q, r) \in 0..1 /\ Due(Q, r) =< Len(Q)
<1> DEFINE n == Len(Q)
           R == Append(Q, b)
<1>1. n \in {0, 1} /\ Depth \in Nat
  <2>1. Depth \in {1, 2} /\ n \in Nat /\ n < Depth
    BY PoolAssumption
  <2> HIDE DEF n
  <2> QED
    BY <2>1
<1>2. /\ R \in Seq(Batches) /\ Len(R) = n + 1 /\ R[n + 1] = b
      /\ \A i \in 1..n : R[i] = Q[i]
  OBVIOUS
<1> HIDE DEF R
<1>3. Len(R) =< Depth
  BY <1>1, <1>2
<1>4. ASSUME NEW r
      PROVE  Due(R, r) = Due(Q, r) + Token(b, r) /\ Due(Q, r) \in 0..1 /\ Due(Q, r) =< n
  <2>1. Token(b, r) \in {0, 1}
    BY DEF Token
  <2>2. CASE n = 0
    <3>1. Carries(Q, 1, r) = 0 /\ Carries(Q, 2, r) = 0 /\ Carries(R, 2, r) = 0
      BY <1>2, <2>2 DEF Carries
    <3>2. Carries(R, 1, r) = Token(b, r)
      BY <1>2, <2>2 DEF Carries, Token
    <3> QED
      BY <2>1, <2>2, <3>1, <3>2 DEF Due
  <2>3. CASE n = 1
    <3>1. Carries(Q, 2, r) = 0 /\ Carries(Q, 1, r) \in {0, 1}
      BY <1>2, <2>3 DEF Carries
    <3>2. R[1] = Q[1] /\ R[2] = b /\ Len(R) = 2
      BY <1>2, <2>3
    <3>3. Carries(R, 1, r) = Carries(Q, 1, r) /\ Carries(R, 2, r) = Token(b, r)
      BY <2>3, <3>2 DEF Carries, Token
    <3> QED
      BY <2>1, <2>3, <3>1, <3>3 DEF Due
  <2> QED
    BY <1>1, <2>2, <2>3
<1> QED
  BY <1>2, <1>3, <1>4 DEF R

\* A result removes it.
LEMMA QueueTail ==
  ASSUME NEW Q \in Seq(Batches), Len(Q) =< Depth, Q # <<>>
  PROVE  /\ Tail(Q) \in Seq(Batches) /\ Len(Tail(Q)) =< Depth /\ Head(Q) \in Batches
         /\ \A r : /\ Due(Q, r) = Due(Tail(Q), r) + Token(Head(Q), r)
                   /\ Due(Tail(Q), r) \in Nat /\ Token(Head(Q), r) \in {0, 1}
<1> DEFINE n == Len(Q)
           R == Tail(Q)
           b == Head(Q)
<1>1. n \in {1, 2} /\ Depth \in Nat
  <2>1. n \in Nat /\ n # 0
    OBVIOUS
  <2>2. Depth \in {1, 2} /\ n =< Depth
    BY PoolAssumption
  <2> HIDE DEF n
  <2> QED
    BY <2>1, <2>2
<1>2. /\ R \in Seq(Batches) /\ Len(R) = n - 1 /\ b = Q[1] /\ b \in Batches
      /\ \A i \in 1..(n - 1) : R[i] = Q[i + 1]
  BY <1>1
<1> HIDE DEF R, b
<1>3. Len(R) =< Depth
  BY <1>1, <1>2
<1>4. ASSUME NEW r
      PROVE  /\ Due(Q, r) = Due(R, r) + Token(b, r) /\ Due(R, r) \in Nat
             /\ Token(b, r) \in {0, 1}
  <2>1. Token(b, r) \in {0, 1}
    BY DEF Token
  <2>2. Carries(Q, 1, r) = Token(b, r)
    BY <1>1, <1>2 DEF Carries, Token
  <2>3. CASE n = 1
    <3>1. Carries(R, 1, r) = 0 /\ Carries(Q, 2, r) = 0 /\ Carries(R, 2, r) = 0
      BY <1>2, <2>3 DEF Carries
    <3> QED
      BY <2>1, <2>2, <3>1 DEF Due
  <2>4. CASE n = 2
    <3>1. R[1] = Q[2] /\ Len(R) = 1
      BY <1>2, <2>4
    <3>2. Carries(R, 1, r) = Carries(Q, 2, r) /\ Carries(R, 2, r) = 0
          /\ Carries(Q, 2, r) \in {0, 1}
      BY <2>4, <3>1 DEF Carries
    <3> QED
      BY <2>1, <2>2, <3>2 DEF Due
  <2> QED
    BY <1>1, <2>1, <2>3, <2>4
<1> QED
  BY <1>2, <1>3, <1>4 DEF R, b

-----------------------------------------------------------------------------
(* Facts about sound states                                                *)

\* TokensOK reads nothing of the queue but what is due.
LEMMA TokensSame ==
  ASSUME NEW q, NEW Q, NEW R, NEW r, Due(Q, r) = Due(R, r), TokensOK(q, Q, r)
  PROVE  TokensOK(q, R, r)
BY DEF TokensOK

\* The facts about the numbers of a request of a sound state.
LEMMA SoundFacts ==
  ASSUME NEW s, NEW Q, Sound(s, Q)
  PROVE  /\ Good(s) /\ s.fault = {} /\ Q \in Seq(Batches) /\ Len(Q) =< Depth /\ Len(Q) \in Nat
         /\ Reserve(s.req) /\ s \in StateType
         /\ \A r \in Reqs : /\ s.req[r] \in ReqType /\ RowShape(s.req[r])
                            /\ Settled(s.req[r]) /\ TokensOK(s.req[r], Q, r)
<1>1. Good(s) /\ s.fault = {} /\ Q \in Seq(Batches) /\ Len(Q) =< Depth /\ Reserve(s.req)
      /\ \A r \in Reqs : Settled(s.req[r]) /\ TokensOK(s.req[r], Q, r)
  BY DEF Sound
<1> QED
  BY <1>1, GoodFacts

\* An extension fits when the budget covers it: alloc_for_extend asks for
\* enough to be evicted.
LEMMA ExtendFits ==
  ASSUME NEW s0, Good(s0), NEW prefix \in Nat, NEW n \in Nat,
         CeilAlign(prefix + n) - CeilAlign(prefix) =< Budget(s0.req),
         NEW s \in EvictToFreeTokens(s0, ExtendDemand(n))
  PROVE  /\ Good(s) /\ s.req = s0.req /\ s.fault = s0.fault
         /\ (CeilAlign(prefix + n) - CeilAlign(prefix)) \div PageSize =< Cardinality(s.free)
         /\ (CeilAlign(prefix + n) - CeilAlign(prefix)) \div PageSize \in Nat
         /\ Cardinality(s.free) \in Nat
<1> DEFINE to == prefix + n
           need == (CeilAlign(to) - CeilAlign(prefix)) \div PageSize
           d == ExtendDemand(n)
           c == Cardinality(s.free)
<1>1. to \in Nat /\ prefix =< to
  OBVIOUS
<1>2. d \in Int
  BY PageSizeFacts DEF ExtendDemand
<1>3. /\ Good(s) /\ s.req = s0.req /\ s.fault = s0.fault
      /\ Available(s) >= d \/ Available(s) = Budget(s0.req)
      /\ Available(s) \in Nat
  <2> HIDE DEF d
  <2>1. s \in EvictToFreeTokens(s0, d)
    BY DEF d
  <2> QED
    BY <1>2, <2>1, EvictToOK
<1>4. c \in Nat /\ Available(s) = c * PageSize
  BY <1>3, Accounting DEF Available
<1>5. /\ CeilAlign(to) \in Nat /\ CeilAlign(to) % PageSize = 0 /\ CeilAlign(to) < to + PageSize
      /\ CeilAlign(prefix) \in Nat /\ prefix =< CeilAlign(prefix)
      /\ CeilAlign(prefix) < prefix + PageSize /\ to =< CeilAlign(to)
  <2> HIDE DEF to
  <2> QED
    BY <1>1, CeilFacts
<1>6. need \in Nat /\ need * PageSize = CeilAlign(to) - CeilAlign(prefix)
  <2> HIDE DEF to
  <2> QED
    BY <1>1, PagesBetween
<1>7. need * PageSize =< d
  <2>1. CASE PageSize = 1
    BY <1>1, <1>5, <1>6, <2>1, PageSizeFacts DEF ExtendDemand
  <2>2. CASE PageSize # 1
    BY <1>1, <1>5, <1>6, <2>2, PageSizeFacts DEF ExtendDemand
  <2> QED
    BY <2>1, <2>2
<1>8. need * PageSize =< c * PageSize
  <2>0. need * PageSize \in Int /\ c * PageSize \in Int
    BY <1>4, <1>6, PageSizeFacts
  <2>1. CASE Available(s) >= d
    <3> HIDE DEF need, c, d
    <3> QED
      BY <1>2, <1>4, <1>7, <2>0, <2>1
  <2>2. CASE Available(s) = Budget(s0.req)
    BY <1>4, <1>6, <2>2
  <2> QED
    BY <1>3, <2>1, <2>2
<1> HIDE DEF need, c
<1>9. need =< c
  BY <1>4, <1>6, <1>8, PageMonotone
<1> QED
  BY <1>3, <1>4, <1>6, <1>9 DEF need, c

\* A prefill of r that the budget covers, from the sound state s0: s is the
\* state after the request was given its prefix and the eviction was done.
Prefills(s0, s, Q, r, prefix, n) ==
  /\ Sound(s0, Q) /\ Len(Q) < Depth /\ Good(s) /\ s.fault = s0.fault /\ r \in Reqs
  /\ \A x \in Reqs : x # r => s.req[x] = s0.req[x]
  /\ SameCore(s0.req[r], s.req[r])
  /\ s0.req[r].st \in {"waiting", "chunked"} /\ Due(Q, r) = 0
  /\ \A x \in Reqs : s0.req[x].st = "chunked" => x = r
  /\ Covered(s.req[r]) = prefix /\ prefix \in Nat /\ n \in Nat
  /\ prefix + n =< Len(s0.req[r].toks)
  /\ CeilAlign(Len(s0.req[r].toks)) - CeilAlign(prefix) =< Budget(s.req)

PrefillBatch(q, r, prefix, n) ==
  [x \in {r} |-> IF prefix + n = Len(q.toks) THEN "extend" ELSE "chunk"]

\* The extension of a prefill keeps the invariant.
LEMMA PrefillSound ==
  ASSUME NEW s0, NEW s, NEW Q, NEW r, NEW prefix, NEW n, Prefills(s0, s, Q, r, prefix, n),
         NEW u, Prefilled(s, u, r, prefix, n)
  PROVE  Sound(u, Append(Q, PrefillBatch(s0.req[r], r, prefix, n)))
<1> DEFINE q0 == s0.req[r]
           q == s.req[r]
           q2 == u.req[r]
           to == prefix + n
           L == Len(q0.toks)
           need == (CeilAlign(to) - CeilAlign(prefix)) \div PageSize
           b == PrefillBatch(q0, r, prefix, n)
           Q2 == Append(Q, b)
<1>1. /\ Sound(s0, Q) /\ Len(Q) < Depth /\ Good(s) /\ s.fault = s0.fault /\ r \in Reqs
      /\ \A x \in Reqs : x # r => s.req[x] = s0.req[x]
      /\ SameCore(q0, q)
      /\ q0.st \in {"waiting", "chunked"} /\ Due(Q, r) = 0
      /\ \A x \in Reqs : s0.req[x].st = "chunked" => x = r
      /\ Covered(q) = prefix /\ prefix \in Nat /\ n \in Nat
      /\ to =< L
      /\ CeilAlign(L) - CeilAlign(prefix) =< Budget(s.req)
  BY DEF Prefills
<1>2. /\ s0.fault = {} /\ Q \in Seq(Batches) /\ s0 \in StateType
      /\ \A x \in Reqs : /\ s0.req[x] \in ReqType /\ RowShape(s0.req[x])
                         /\ Settled(s0.req[x]) /\ TokensOK(s0.req[x], Q, x)
  BY <1>1, SoundFacts
<1>3. /\ Good(u) /\ u.fault = s.fault
      /\ \A x \in Reqs : x # r => u.req[x] = s.req[x]
      /\ q2.plen = q.plen /\ q2.max_new = q.max_new /\ q2.known = q.known
      /\ q2.cache_protected_len = q.cache_protected_len /\ q2.last_node = q.last_node
      /\ q2.kv_len = to /\ q2.fill = to
      /\ q2.st = IF to = Len(q.toks) THEN "running" ELSE "chunked"
      /\ Len(q2.toks) = Len(q.toks) + IF to = Len(q.toks) THEN 1 ELSE 0
      /\ Len(q2.row) = Len(q.row) + need /\ need \in Nat
      /\ need * PageSize = CeilAlign(to) - CeilAlign(prefix)
  BY DEF Prefilled
<1>4. /\ q \in ReqType /\ RowShape(q) /\ q.cache_protected_len \in Nat /\ q.kv_len \in Nat
      /\ q.plen = q0.plen /\ q.max_new = q0.max_new /\ q.known = q0.known /\ q.toks = q0.toks
      /\ q0.plen \in Nat /\ q0.max_new \in Nat /\ q0.known \in Nat /\ L \in Nat
  <2>1. q \in ReqType /\ RowShape(q)
    BY <1>1, GoodFacts
  <2>2. q.cache_protected_len \in Nat /\ q.kv_len \in Nat
    BY <2>1, RowFacts
  <2>3. q0.plen \in Nat /\ q0.max_new \in Nat /\ q0.known \in Nat /\ L \in Nat
    BY <1>1, <1>2, RowFacts
  <2> QED
    BY <1>1, <2>1, <2>2, <2>3 DEF SameCore
<1>5. /\ L = q0.known /\ q0.plen > 0 /\ q0.plen =< q0.known /\ q0.known < q0.plen + q0.max_new
      /\ q0.plen + q0.max_new + PageSize < NumPages * PageSize
  BY <1>1, <1>2 DEF TokensOK
<1>6. b \in Batches /\ (\A x \in Reqs : x # r => Token(b, x) = 0)
      /\ Token(b, r) = IF to = L THEN 1 ELSE 0
  <2>1. b \in [{r} -> {"extend", "chunk", "decode"}] /\ b[r] = IF to = L THEN "extend" ELSE "chunk"
    BY DEF PrefillBatch
  <2>2. {r} \in SUBSET Reqs /\ DOMAIN b = {r}
    BY <1>1, <2>1
  <2> HIDE DEF b
  <2>3. b \in Batches
    BY <2>1, <2>2 DEF Batches
  <2>4. Token(b, r) = IF to = L THEN 1 ELSE 0
    BY <2>1, <2>2 DEF Token
  <2> QED
    BY <2>2, <2>3, <2>4 DEF Token
<1> HIDE DEF b, Q2, q0, q, q2
<1>7. /\ Q2 \in Seq(Batches) /\ Len(Q2) =< Depth
      /\ \A x : Due(Q2, x) = Due(Q, x) + Token(b, x) /\ Due(Q, x) \in 0..1
  BY <1>1, <1>2, <1>6, QueueAppend DEF Q2
<1>8. to \in Nat /\ prefix =< to
  BY <1>1
<1>9. q.cache_protected_len =< prefix
  BY <1>1, <1>4 DEF Covered
<1>10. Settled(q2)
  <2>1. q2.st \in {"chunked", "running"}
    BY <1>3
  <2>2. q2.cache_protected_len =< q2.fill /\ q2.fill =< q2.kv_len /\ q2.fill =< q2.known
    <3>1. /\ q.cache_protected_len \in Nat /\ prefix \in Nat /\ to \in Nat
          /\ q.cache_protected_len =< prefix /\ prefix =< to /\ to =< L /\ L = q0.known
      BY <1>1, <1>4, <1>5, <1>8, <1>9
    <3>2. /\ q2.cache_protected_len = q.cache_protected_len /\ q2.kv_len = to /\ q2.fill = to
          /\ q2.known = q0.known
      BY <1>3, <1>4
    <3> HIDE DEF to, L
    <3> QED
      BY ONLY <3>1, <3>2
  <2> QED
    BY <2>1, <2>2 DEF Settled
<1>11. TokensOK(q2, Q2, r)
  <2>1. Len(q.toks) = L
    BY <1>4
  <2>2. /\ q2.plen > 0 /\ q2.plen =< q2.known /\ q2.known < q2.plen + q2.max_new
        /\ q2.plen + q2.max_new + PageSize < NumPages * PageSize
    BY <1>3, <1>4, <1>5
  <2>3. CASE to = L
    <3>1. q2.st = "running" /\ Len(q2.toks) = L + 1 /\ Due(Q2, r) = 1
      BY <1>1, <1>3, <1>6, <1>7, <2>1, <2>3
    <3>2. Len(q2.toks) = q2.known + Due(Q2, r) /\ q2.kv_len = Len(q2.toks) - 1
      BY <1>3, <1>4, <1>5, <2>3, <3>1
    <3> QED
      BY <2>2, <3>1, <3>2 DEF TokensOK
  <2>4. CASE to # L
    <3>1. q2.st = "chunked" /\ Len(q2.toks) = L /\ Due(Q2, r) = 0
      BY <1>1, <1>3, <1>4, <1>6, <1>7, <2>1, <2>4
    <3>2. Len(q2.toks) = q2.known /\ q2.fill = q2.kv_len /\ q2.kv_len < Len(q2.toks)
      <4>1. to < L
        <5>1. to =< L /\ to \in Nat /\ L \in Nat /\ to # L
          BY <1>1, <1>4, <1>8, <2>4
        <5> HIDE DEF to, L
        <5> QED
          BY <5>1
      <4>2. q2.known = q.known /\ q2.fill = to /\ q2.kv_len = to
        BY <1>3
      <4> HIDE DEF to, L
      <4> QED
        BY <1>4, <1>5, <3>1, <4>1, <4>2
    <3> QED
      BY <2>2, <3>1, <3>2 DEF TokensOK
  <2> QED
    BY <2>3, <2>4
<1>12. \A x \in Reqs : x # r => u.req[x] = s0.req[x]
  BY <1>1, <1>3
<1>13. \A x \in Reqs : Settled(u.req[x]) /\ TokensOK(u.req[x], Q2, x)
  <2>1. ASSUME NEW x \in Reqs, x # r
        PROVE  Settled(u.req[x]) /\ TokensOK(u.req[x], Q2, x)
    <3>1. Due(Q2, x) = Due(Q, x)
      BY <1>6, <1>7, <2>1
    <3>2. Settled(s0.req[x]) /\ TokensOK(s0.req[x], Q, x)
      BY <1>2
    <3>3. TokensOK(s0.req[x], Q2, x)
      BY <3>1, <3>2, TokensSame
    <3> QED
      BY <1>12, <2>1, <3>2, <3>3
  <2>2. Settled(u.req[r]) /\ TokensOK(u.req[r], Q2, r)
    BY <1>10, <1>11 DEF q2
  <2> QED
    BY <2>1, <2>2
<1>14. Reserve(u.req)
  <2>1. \A x \in Reqs : u.req[x].st = "chunked" => x = r
    BY <1>1, <1>12
  <2>2. ASSUME q2.st = "chunked"
        PROVE  CeilAlign(Len(q2.toks)) - CeilAlign(q2.kv_len) =< Budget(u.req)
    <3>1. Len(q2.toks) = L /\ q2.kv_len = to
      <4>1. /\ q2.st = IF to = Len(q.toks) THEN "running" ELSE "chunked"
            /\ Len(q2.toks) = Len(q.toks) + IF to = Len(q.toks) THEN 1 ELSE 0
            /\ q2.kv_len = to
        BY <1>3
      <4>2. Len(q.toks) = L /\ L \in Nat
        BY <1>4
      <4> HIDE DEF to, L
      <4> QED
        BY <2>2, <4>1, <4>2
    <3>2. /\ Budget(s.req) \in Int /\ Budget(u.req) \in Int
          /\ Budget(s.req) - need * PageSize =< Budget(u.req)
      <4> HIDE DEF need
      <4>1. /\ u.req[r].last_node = s.req[r].last_node
            /\ u.req[r].cache_protected_len = s.req[r].cache_protected_len
            /\ Len(u.req[r].row) = Len(s.req[r].row) + need /\ need \in Nat
        BY <1>3 DEF q, q2
      <4> QED
        BY <1>1, <1>3, <4>1, BudgetGrow
    <3>3. CeilAlign(L) \in Nat /\ CeilAlign(to) \in Nat /\ CeilAlign(prefix) \in Nat
      <4> HIDE DEF to, L
      <4> QED
        BY <1>1, <1>4, <1>8, CeilFacts
    <3>4. CeilAlign(L) - CeilAlign(to) =< Budget(u.req)
      <4> HIDE DEF need, to, L
      <4>1. need * PageSize = CeilAlign(to) - CeilAlign(prefix)
        BY <1>3
      <4> QED
        BY <1>1, <3>2, <3>3, <4>1
    <3> QED
      BY <3>1, <3>4
  <2> QED
    BY <2>1, <2>2 DEF Reserve, q2
<1>15. Sound(u, Q2)
  BY <1>1, <1>2, <1>3, <1>7, <1>13, <1>14 DEF Sound
<1> QED
  BY <1>15 DEF Q2, b, q0

\* A whole new state.
LEMMA BecomesState ==
  ASSUME NEW u \in StateType, Becomes(u)
  PROVE  State' = u
<1>1. u = [tree |-> u.tree, free |-> u.free, req |-> u.req, kv |-> u.kv, fault |-> u.fault]
  BY DEF StateType
<1>2. tree' = u.tree /\ free' = u.free /\ req' = u.req /\ kv' = u.kv /\ fault' = u.fault
  BY DEF Becomes
<1> HIDE DEF Becomes
<1> QED
  BY <1>1, <1>2 DEF State

\* A prefill that the budget covers is launched and meets no fault.
LEMMA ExtendStep ==
  ASSUME NEW s0, NEW s1, NEW r, NEW prefix, NEW n, Prefills(s0, s1, queue, r, prefix, n),
         LaunchExtend(s1, r, prefix, n)
  PROVE  Sound(State', queue')
<1>1. /\ Sound(s0, queue) /\ Good(s1) /\ r \in Reqs /\ SameCore(s0.req[r], s1.req[r])
      /\ Covered(s1.req[r]) = prefix /\ prefix \in Nat /\ n \in Nat
      /\ prefix + n =< Len(s0.req[r].toks)
      /\ CeilAlign(Len(s0.req[r].toks)) - CeilAlign(prefix) =< Budget(s1.req)
  BY DEF Prefills
<1> DEFINE L == Len(s0.req[r].toks)
           to == prefix + n
           need == (CeilAlign(to) - CeilAlign(prefix)) \div PageSize
<1>2. L \in Nat /\ to \in Nat /\ to =< L
  <2>1. s0.req[r] \in ReqType
    BY <1>1, SoundFacts
  <2>2. s0.req[r].toks \in Seq(Nat)
    BY <2>1 DEF ReqType, Path
  <2>3. L \in Nat
    BY <2>2
  <2> QED
    BY <1>1, <2>3
<1>3. CeilAlign(to) - CeilAlign(prefix) =< Budget(s1.req)
  <2>1. CeilAlign(L) \in Nat /\ CeilAlign(to) \in Nat /\ CeilAlign(prefix) \in Nat
        /\ CeilAlign(to) =< CeilAlign(L)
    <3> HIDE DEF L, to
    <3> QED
      BY <1>1, <1>2, CeilFacts, CeilOrder
  <2>2. Budget(s1.req) \in Int
    <3>1. /\ Budget(s1.req) = Available(s1) + s1.tree.evictable_size_
          /\ Available(s1) \in Nat /\ s1.tree.evictable_size_ \in Nat
      BY <1>1, Accounting
    <3> QED
      BY <3>1
  <2>3. CeilAlign(L) - CeilAlign(prefix) =< Budget(s1.req)
    BY <1>1
  <2> HIDE DEF L, to
  <2> QED
    BY <2>1, <2>2, <2>3
<1>4. PICK s \in EvictToFreeTokens(s1, ExtendDemand(n)), t \in Sampled :
        IF need > Cardinality(s.free)
          THEN /\ Becomes([s EXCEPT !.fault = @ \cup {"prefill out of memory"}])
               /\ UNCHANGED queue
          ELSE /\ Becomes(Extended(s, r, prefix, n, t))
               /\ queue' = Append(queue, PrefillBatch(s.req[r], r, prefix, n))
  BY Zenon DEF LaunchExtend, Extended, PrefillBatch
<1>5. /\ Good(s) /\ s.req = s1.req /\ s.fault = s1.fault
      /\ need =< Cardinality(s.free) /\ need \in Nat /\ Cardinality(s.free) \in Nat
  BY <1>1, <1>3, ExtendFits
<1>6. t \in Nat
  BY PoolAssumption
<1> DEFINE u == Extended(s, r, prefix, n, t)
           c == Cardinality(s.free)
<1>7. Becomes(u) /\ queue' = Append(queue, PrefillBatch(s.req[r], r, prefix, n))
  <2>1. ~(need > c)
    <3>1. need =< c /\ need \in Nat /\ c \in Nat
      BY <1>5
    <3> HIDE DEF need, c
    <3> QED
      BY <3>1
  <2> QED
    BY <1>4, <2>1, Zenon
<1>8. Covered(s.req[r]) = prefix /\ prefix + n =< Len(s.req[r].toks)
      /\ s.req[r].toks = s0.req[r].toks
  <2>1. s.req[r].toks = s0.req[r].toks
    BY <1>1, <1>5 DEF SameCore
  <2> QED
    BY <1>1, <1>5, <2>1
<1>9. Prefilled(s, u, r, prefix, n)
  <2>1. (CeilAlign(prefix + n) - CeilAlign(prefix)) \div PageSize =< Cardinality(s.free)
    BY <1>5
  <2> HIDE DEF u, need
  <2> QED
    BY <1>1, <1>5, <1>6, <1>8, <2>1, ExtendedOK DEF u
<1>10. Prefills(s0, s, queue, r, prefix, n)
  BY <1>5 DEF Prefills
<1> HIDE DEF u
<1>11. Sound(u, Append(queue, PrefillBatch(s0.req[r], r, prefix, n)))
  BY <1>9, <1>10, PrefillSound
<1>12. PrefillBatch(s0.req[r], r, prefix, n) = PrefillBatch(s.req[r], r, prefix, n)
  BY <1>8, Zenon DEF PrefillBatch
<1>13. State' = u
  <2>1. u \in StateType
    BY <1>11, SoundFacts
  <2> QED
    BY <1>7, <2>1, BecomesState
<1> QED
  BY <1>7, <1>11, <1>12, <1>13

\* The state, read off the variables.
LEMMA StateIs ==
  /\ State.tree = tree /\ State.free = free /\ State.req = req /\ State.kv = kv
  /\ State.fault = fault
BY DEF State

\* stash_chunked_request and add_chunked_req keep the invariant: the pages
\* of the next chunk were set aside when the request was admitted.
LEMMA NextChunkStep ==
  ASSUME Sound(State, queue), NEW r \in Reqs, NEW n \in 1..ChunkSize, NextChunk(r, n)
  PROVE  Sound(State', queue')
<1> DEFINE s == State
           q == s.req[r]
           prefix == q.kv_len
           s1 == CacheUnfinishedReq(s, r, prefix)
           q1 == s1.req[r]
<1>1. /\ Good(s) /\ s.fault = {} /\ queue \in Seq(Batches) /\ Reserve(s.req)
      /\ q \in ReqType /\ RowShape(q) /\ Settled(q) /\ TokensOK(q, queue, r)
  BY SoundFacts
<1>2. /\ Len(queue) < Depth /\ q.st = "chunked" /\ n =< Len(q.toks) - prefix
      /\ LaunchExtend(s1, r, prefix, n)
  BY StateIs DEF NextChunk, CanLaunch
<1> HIDE DEF s, s1
<1>3. /\ Len(q.toks) \in Nat /\ q.kv_len \in Nat /\ q.cache_protected_len \in Nat
      /\ q.fill \in Nat /\ q.cache_protected_len % PageSize = 0
  BY <1>1, RowFacts
<1>4. q.cache_protected_len =< prefix /\ Due(queue, r) = 0
  BY <1>1, <1>2, <1>3 DEF Settled, TokensOK
<1>5. /\ Good(s1) /\ s1.fault = s.fault
      /\ \A x \in Reqs : x # r => s1.req[x] = s.req[x]
      /\ SameCore(q, q1)
      /\ q1.kv_len = q.kv_len /\ q1.fill = q.fill
      /\ q1.cache_protected_len = FloorAlign(prefix)
      /\ Len(q1.row) = Len(q.row)
  <2>1. s.req[r].cache_protected_len =< prefix /\ prefix =< s.req[r].kv_len /\ prefix \in Nat
    BY <1>3, <1>4
  <2> HIDE DEF prefix
  <2> QED
    BY <1>1, <2>1, CacheOK DEF s1
<1>6. FloorAlign(prefix) \in Nat /\ FloorAlign(prefix) =< prefix
      /\ q.cache_protected_len =< FloorAlign(prefix)
  BY <1>3, <1>4, FloorFacts
<1>7. /\ Budget(s.req) \in Int /\ Budget(s1.req) \in Int
      /\ Budget(s.req) =< Budget(s1.req)
  <2>1. /\ s1.req[r].toks = s.req[r].toks /\ Len(s1.req[r].row) = Len(s.req[r].row)
        /\ s.req[r].cache_protected_len =< s1.req[r].cache_protected_len
    BY <1>5, <1>6 DEF SameCore
  <2> QED
    BY <1>1, <1>5, <2>1, BudgetCache
<1>8. /\ CeilAlign(Len(q.toks)) - CeilAlign(prefix) =< Budget(s.req)
      /\ \A x \in Reqs : s.req[x].st = "chunked" => x = r
  BY <1>1, <1>2 DEF Reserve
<1>9. CeilAlign(Len(q.toks)) \in Nat /\ CeilAlign(prefix) \in Nat
  BY <1>3, CeilFacts
<1>10. CeilAlign(Len(q.toks)) - CeilAlign(prefix) =< Budget(s1.req)
  BY <1>7, <1>8, <1>9
<1>11. Covered(q1) = prefix
  BY <1>3, <1>5, <1>6 DEF Covered
<1>12. n \in Nat /\ prefix + n =< Len(q.toks)
  <2>1. n \in Nat
    BY PoolAssumption
  <2>2. Len(q.toks) \in Nat /\ prefix \in Nat /\ n =< Len(q.toks) - prefix
    BY <1>2, <1>3
  <2> HIDE DEF prefix, q
  <2> QED
    BY ONLY <2>1, <2>2
<1>13. Sound(s, queue)
  BY DEF s
<1>14. Prefills(s, s1, queue, r, prefix, n)
  BY <1>2, <1>3, <1>4, <1>5, <1>8, <1>10, <1>11, <1>12, <1>13 DEF Prefills
<1> QED
  BY <1>2, <1>14, ExtendStep

\* The prefix that admission finds: short of the last token.
LEMMA PrefixFacts ==
  ASSUME NEW t, TreeShape(t), NEW toks \in Path, Len(toks) > 0
  PROVE  LET m == Matched(t, PageAligned(Front(toks)))
         IN  /\ m \in Path /\ Len(m) % PageSize = 0 /\ IsPrefix(m, toks)
             /\ m \in DOMAIN t.value \cup {Root} /\ Len(m) < Len(toks) /\ Len(m) \in Nat
<1> DEFINE n == Len(toks) - 1
           f == SubSeq(toks, 1, n)
           key == PageAligned(f)
           m == Matched(t, key)
<1>1. Len(toks) \in Nat
  BY DEF Path
<1>2. n \in 0..Len(toks) /\ n \in Nat /\ n < Len(toks)
  BY <1>1
<1> HIDE DEF n
<1>3. f \in Path /\ Len(f) = n /\ IsPrefix(f, toks)
  BY <1>2, Cut
<1> HIDE DEF f
<1>4. FloorAlign(n) \in 0..Len(f)
  BY <1>2, <1>3, FloorFacts
<1>5. key = SubSeq(f, 1, FloorAlign(n))
  BY <1>3 DEF PageAligned
<1>6. key \in Path /\ IsPrefix(key, f)
  <2> DEFINE k == FloorAlign(n)
  <2>1. k \in 0..Len(f) /\ key = SubSeq(f, 1, k)
    BY <1>4, <1>5
  <2> HIDE DEF k, key
  <2> QED
    BY <1>3, <2>1, Cut
<1> HIDE DEF key
<1>7. /\ m \in Path /\ Len(m) % PageSize = 0 /\ IsPrefix(m, key)
      /\ m \in DOMAIN t.value \cup {Root}
  BY <1>6, MatchedFacts
<1> HIDE DEF m
<1>8. IsPrefix(m, f) /\ IsPrefix(m, toks) /\ Len(m) =< Len(f) /\ Len(m) \in Nat
  BY <1>3, <1>6, <1>7, PrefixOrder
<1>9. Front(toks) = f
  BY DEF Front, f, n
<1> QED
  BY <1>2, <1>3, <1>7, <1>8, <1>9 DEF m, key

\* The larger of two numbers.
LEMMA MaxPair ==
  ASSUME NEW a \in Int, NEW b \in Int
  PROVE  Max({a, b}) = (IF a >= b THEN a ELSE b) /\ Max({a, b}) \in Int
         /\ Max({a, b}) >= a /\ Max({a, b}) >= b
<1> DEFINE m == IF a >= b THEN a ELSE b
<1>1. m \in {a, b} /\ m \in Int /\ m >= a /\ m >= b /\ \A y \in {a, b} : m >= y
  OBVIOUS
<1>2. ASSUME NEW x \in {a, b}, \A y \in {a, b} : x >= y
      PROVE  x = m
  <2>1. x >= m /\ m >= x /\ x \in Int /\ m \in Int
    BY <1>1, <1>2
  <2> HIDE DEF m
  <2> QED
    BY <2>1
<1>3. (CHOOSE x \in {a, b} : \A y \in {a, b} : x >= y) = m
  <2> HIDE DEF m
  <2> QED
    BY <1>1, <1>2
<1> QED
  BY <1>1, <1>3 DEF Max

\* The first chunk is not empty and not longer than the rest.
LEMMA FirstChunkFacts ==
  ASSUME NEW rest \in Nat, rest > 0
  PROVE  FirstChunk(rest) \in Nat /\ FirstChunk(rest) =< rest /\ FirstChunk(rest) > 0
<1> DEFINE c == FloorAlign(ChunkSize)
           d == CeilAlign(rest)
<1>1. ChunkSize \in Nat /\ ChunkSize >= PageSize
  BY PoolAssumption
<1>2. c \in Nat /\ c % PageSize = 0 /\ c =< ChunkSize /\ ChunkSize < c + PageSize
  BY <1>1, FloorFacts
<1>3. d \in Nat /\ d % PageSize = 0 /\ d < rest + PageSize
  BY CeilFacts
<1> HIDE DEF c, d
<1>4. c > 0
  BY <1>1, <1>2, PageSizeFacts
<1>5. CASE d > ChunkSize
  <2>1. c < d
    BY <1>1, <1>2, <1>3, <1>5
  <2>2. c + PageSize =< d
    BY <1>2, <1>3, <2>1, AlignedGap
  <2>3. c =< rest
    BY <1>2, <1>3, <2>2, PageSizeFacts
  <2>4. FirstChunk(rest) = c
    BY <1>5 DEF FirstChunk, c, d
  <2> QED
    BY <1>2, <1>4, <2>3, <2>4
<1>6. CASE ~(d > ChunkSize)
  BY <1>6 DEF FirstChunk, d
<1> QED
  BY <1>5, <1>6

\* A request that no batch carries has no token due.
LEMMA NotInFlight ==
  ASSUME NEW Q \in Seq(Batches), NEW r, r \notin UNION {DOMAIN Q[i] : i \in DOMAIN Q}
  PROVE  Due(Q, r) = 0
<1>1. \A i \in 1..Len(Q) : r \notin DOMAIN Q[i]
  OBVIOUS
<1>2. Len(Q) \in Nat
  OBVIOUS
<1>3. Carries(Q, 1, r) = 0
  BY <1>1, <1>2 DEF Carries
<1>4. Carries(Q, 2, r) = 0
  BY <1>1, <1>2 DEF Carries
<1> QED
  BY <1>3, <1>4 DEF Due

\* add_one_req keeps the invariant: the budget covers the whole prompt, so
\* the first chunk can be allocated and the rest is set aside.
LEMMA AddOneReqStep ==
  ASSUME Sound(State, queue), NEW r \in Reqs, AddOneReq(r)
  PROVE  Sound(State', queue')
<1> DEFINE s == State
           q == s.req[r]
           m == PrefixOf(r)
           s1 == Admitted(s, r, m)
           q1 == s1.req[r]
           L == Len(q.toks)
           p == Len(m)
           rest == L - p
           n == FirstChunk(rest)
<1>1. /\ Good(s) /\ s.fault = {} /\ queue \in Seq(Batches) /\ Reserve(s.req)
      /\ q \in ReqType /\ RowShape(q) /\ Settled(q) /\ TokensOK(q, queue, r)
  BY SoundFacts
<1>2. /\ Len(queue) < Depth /\ q.st = "waiting" /\ r \notin InFlight
      /\ InState("chunked") = {} /\ HasBudget(r)
  BY StateIs DEF AddOneReq, CanLaunch
<1>3. LaunchExtend(s1, r, p, n)
  BY StateIs, Zenon DEF AddOneReq, Admitted, Admission
<1>4. \A x \in Reqs : s.req[x].st # "chunked"
  BY <1>2, StateIs DEF InState
<1>5. Due(queue, r) = 0
  BY <1>1, <1>2, NotInFlight DEF InFlight
<1>6. Empty(q)
  BY <1>1, <1>2 DEF Settled
<1>7. /\ q.toks \in Path /\ L \in Nat /\ q.known \in Nat /\ q.plen \in Nat /\ q.max_new \in Nat
  BY <1>1, RowFacts
<1>8. L = q.known /\ q.plen > 0 /\ q.plen =< q.known /\ L > 0
  BY <1>1, <1>2, <1>7 DEF TokensOK
<1>9. /\ m \in Path /\ p % PageSize = 0 /\ IsPrefix(m, q.toks)
      /\ m \in DOMAIN s.tree.value \cup {Root} /\ p < L /\ p \in Nat
  <2>1. TreeShape(s.tree)
    BY <1>1, GoodFacts
  <2>2. m = Matched(s.tree, PageAligned(Front(q.toks)))
    BY StateIs DEF PrefixOf
  <2> HIDE DEF m, s, q
  <2> QED
    BY <1>7, <1>8, <2>1, <2>2, PrefixFacts
<1>10. TotalTokens(r) < Available(s) + IncLockRef(SplitNode(s.tree, m), m).evictable_size_
  BY <1>2, StateIs DEF HasBudget, Admission
<1>11. TotalTokens(r) = L - p + Max({q.max_new - (q.known - q.plen), 0}) + PageSize
  BY StateIs DEF TotalTokens
<1> HIDE DEF m, s
<1>12. /\ Good(s1) /\ s1.fault = s.fault
       /\ \A x \in Reqs : x # r => s1.req[x] = s.req[x]
       /\ SameCore(q, q1)
       /\ q1.kv_len = 0 /\ q1.cache_protected_len = p
       /\ s1.tree = IncLockRef(SplitNode(s.tree, m), m) /\ s1.free = s.free
  BY <1>1, <1>6, <1>9, AdmittedOK
<1> HIDE DEF s1, q1, q, p
<1> DEFINE x0 == Max({q.max_new - (q.known - q.plen), 0})
<1>13. x0 \in Nat
  <2> DEFINE a == q.max_new - (q.known - q.plen)
  <2>1. a \in Int
    BY <1>7
  <2> HIDE DEF a
  <2>2. Max({a, 0}) \in Int /\ Max({a, 0}) >= 0
    BY <2>1, MaxPair
  <2> QED
    BY <2>2 DEF a
<1>14. Budget(s1.req) \in Int /\ rest + PageSize < Budget(s1.req)
  <2>1. /\ Budget(s1.req) = Available(s1) + s1.tree.evictable_size_
        /\ Available(s1) \in Nat /\ s1.tree.evictable_size_ \in Nat
    BY <1>12, Accounting
  <2>2. Available(s1) = Available(s)
    BY <1>12 DEF Available
  <2>3. TotalTokens(r) < Budget(s1.req)
    BY <1>10, <1>12, <2>1, <2>2
  <2> HIDE DEF x0, L
  <2>4. rest + x0 + PageSize < Budget(s1.req)
    BY <1>11, <2>3 DEF x0, L
  <2> QED
    BY <1>7, <1>9, <1>13, <2>1, <2>4, PageSizeFacts
<1>15. rest \in Nat /\ rest > 0
  <2> HIDE DEF L
  <2> QED
    BY <1>7, <1>9
<1>16. n \in Nat /\ n =< rest /\ n > 0
  <2> HIDE DEF rest
  <2> QED
    BY <1>15, FirstChunkFacts
<1> HIDE DEF n
<1>17. p + n =< L
  <2> HIDE DEF L
  <2> QED
    BY <1>7, <1>9, <1>16
<1>18. Covered(q1) = p
  BY <1>9, <1>12 DEF Covered
<1>19. CeilAlign(L) - CeilAlign(p) =< Budget(s1.req)
  <2> HIDE DEF L
  <2>1. CeilAlign(p) = p
    BY <1>9, CeilOrder
  <2>2. CeilAlign(L) \in Nat /\ CeilAlign(L) < L + PageSize
    BY <1>7, CeilFacts
  <2> QED
    BY <1>7, <1>9, <1>14, <2>1, <2>2, PageSizeFacts
<1>20. Sound(s, queue)
  BY DEF s
<1>21. Prefills(s, s1, queue, r, p, n)
  BY <1>2, <1>4, <1>5, <1>9, <1>12, <1>16, <1>17, <1>18, <1>19, <1>20 DEF Prefills, q, q1
<1> QED
  BY <1>3, <1>21, ExtendStep

-----------------------------------------------------------------------------
(* Arrival, refusal, abort and flush                                       *)

\* One request is left without KV, or with no more of it; the queue stays.
Quiets(s, u, Q, r) ==
  /\ Sound(s, Q) /\ r \in Reqs /\ Good(u) /\ u.fault = s.fault
  /\ \A x \in Reqs : x # r => u.req[x] = s.req[x]
  /\ Empty(u.req[r]) /\ u.req[r].st \in {"idle", "waiting"}
  /\ TokensOK(u.req[r], Q, r)

\* Such a step keeps the invariant.
LEMMA QuietSound ==
  ASSUME NEW s, NEW u, NEW Q, NEW r, Quiets(s, u, Q, r)
  PROVE  Sound(u, Q)
<1>1. /\ Sound(s, Q) /\ r \in Reqs /\ Good(u) /\ u.fault = s.fault
      /\ \A x \in Reqs : x # r => u.req[x] = s.req[x]
      /\ Empty(u.req[r]) /\ u.req[r].st \in {"idle", "waiting"}
      /\ TokensOK(u.req[r], Q, r)
  BY DEF Quiets
<1>2. /\ Good(s) /\ s.fault = {} /\ Q \in Seq(Batches) /\ Len(Q) =< Depth
      /\ Reserve(s.req)
      /\ \A x \in Reqs : /\ s.req[x] \in ReqType /\ RowShape(s.req[x])
                         /\ Settled(s.req[x]) /\ TokensOK(s.req[x], Q, x)
  BY <1>1, SoundFacts
<1>3. /\ Budget(s.req) \in Int /\ Budget(u.req) \in Int /\ Budget(s.req) =< Budget(u.req)
  BY <1>1, <1>2, BudgetRelease
<1>4. \A x \in Reqs : Settled(u.req[x]) /\ TokensOK(u.req[x], Q, x)
  <2>1. Settled(u.req[r])
    BY <1>1 DEF Settled
  <2> QED
    BY <1>1, <1>2, <2>1
<1>5. Reserve(u.req)
  <2>1. ASSUME NEW x \in Reqs, u.req[x].st = "chunked"
        PROVE  /\ CeilAlign(Len(u.req[x].toks)) - CeilAlign(u.req[x].kv_len) =< Budget(u.req)
               /\ \A y \in Reqs : u.req[y].st = "chunked" => y = x
    <3>1. x # r /\ u.req[x] = s.req[x]
      BY <1>1, <2>1
    <3>2. /\ CeilAlign(Len(s.req[x].toks)) - CeilAlign(s.req[x].kv_len) =< Budget(s.req)
          /\ \A y \in Reqs : s.req[y].st = "chunked" => y = x
      BY <1>2, <2>1, <3>1 DEF Reserve
    <3>3. CeilAlign(Len(s.req[x].toks)) \in Nat /\ CeilAlign(s.req[x].kv_len) \in Nat
      BY <1>2, RowFacts, CeilFacts
    <3>4. CeilAlign(Len(s.req[x].toks)) - CeilAlign(s.req[x].kv_len) =< Budget(u.req)
      BY <1>3, <3>2, <3>3
    <3>5. \A y \in Reqs : u.req[y].st = "chunked" => y = x
      BY <1>1, <3>2
    <3> QED
      BY <3>1, <3>4, <3>5
  <2> QED
    BY <2>1 DEF Reserve
<1> QED
  BY <1>1, <1>2, <1>4, <1>5 DEF Sound

\* A request without KV is replaced by another.
LEMMA ReplaceSound ==
  ASSUME NEW s, NEW Q, Sound(s, Q), NEW r \in Reqs, Empty(s.req[r]), NEW q2 \in ReqType,
         Empty(q2), q2.st \in {"idle", "waiting"}, TokensOK(q2, Q, r),
         NEW u, u = [s EXCEPT !.req[r] = q2]
  PROVE  Sound(u, Q)
<1>1. Good(s) /\ s \in StateType
  BY SoundFacts
<1>2. Replaces(s, u, r, q2)
  BY <1>1 DEF Replaces
<1>3. Replaced(s, u, r, q2)
  BY <1>2, WithReq
<1>4. Swaps(s, u, r)
  BY <1>3 DEF Replaced, Swaps
<1>5. Good(u)
  BY <1>1, <1>4, SwapOK
<1>6. Quiets(s, u, Q, r)
  BY <1>3, <1>5 DEF Replaced, Quiets
<1> QED
  BY <1>6, QuietSound

\* A new request, not yet seen by the scheduler.
LEMMA NewReq ==
  ASSUME NEW q \in Sent
  PROVE  LET q2 == [NoReq EXCEPT !.st = "waiting", !.plen = Len(q.ids),
                                 !.max_new = q.max_new, !.toks = q.ids, !.known = Len(q.ids)]
         IN  /\ q2 \in ReqType /\ Empty(q2) /\ q2.st = "waiting"
             /\ \A Q, r : TokensOK(q2, Q, r)
<1> DEFINE L == Len(q.ids)
           ids == q.ids
           mx == q.max_new
           q2 == [NoReq EXCEPT !.st = "waiting", !.plen = L, !.max_new = mx, !.toks = ids,
                               !.known = L]
<1>1. /\ ids \in Seq(Nat) /\ mx \in Nat /\ Len(ids) > 0 /\ mx > 0
      /\ Len(ids) + mx + PageSize < NumPages * PageSize
  BY PoolAssumption
<1>2. ids \in Path /\ L \in Nat /\ L = Len(ids) /\ L > 0
  BY <1>1 DEF Path
<1> HIDE DEF L, ids, mx
<1>3. NoReq \in ReqType /\ Empty(NoReq)
  BY NoReqFacts
<1>4. q2 \in ReqType
  BY <1>1, <1>2, <1>3 DEF ReqType
<1>5. /\ q2.st = "waiting" /\ q2.plen = L /\ q2.max_new = mx /\ q2.toks = ids /\ q2.known = L
      /\ q2.row = NoReq.row /\ q2.kv_len = NoReq.kv_len
      /\ q2.cache_protected_len = NoReq.cache_protected_len
      /\ q2.last_node = NoReq.last_node /\ q2.fill = NoReq.fill
  BY <1>3 DEF ReqType
<1> HIDE DEF q2
<1>6. Empty(q2)
  BY <1>3, <1>5 DEF Empty
<1>7. ASSUME NEW Q, NEW r
      PROVE  TokensOK(q2, Q, r)
  <2>1. /\ q2.plen > 0 /\ q2.plen =< q2.known /\ q2.known < q2.plen + q2.max_new
        /\ q2.plen + q2.max_new + PageSize < NumPages * PageSize
        /\ Len(q2.toks) = q2.known
    BY <1>1, <1>2, <1>5
  <2> QED
    BY <1>5, <2>1 DEF TokensOK
<1> QED
  BY <1>4, <1>5, <1>6, <1>7 DEF q2, L, ids, mx

\* Requests are replaced in the variables as in the state.
LEMMA ReqUpdate ==
  ASSUME State \in StateType, NEW r \in Reqs, NEW q2,
         req' = [req EXCEPT ![r] = q2], UNCHANGED <<tree, free, kv, fault>>
  PROVE  State' = [State EXCEPT !.req[r] = q2]
BY DEF State

\* A request that arrives holds nothing.
LEMMA ArriveStep ==
  ASSUME Sound(State, queue), NEW r \in Reqs, NEW q \in Sent, Arrive(r, q)
  PROVE  Sound(State', queue')
<1> DEFINE q2 == [NoReq EXCEPT !.st = "waiting", !.plen = Len(q.ids),
                               !.max_new = q.max_new, !.toks = q.ids, !.known = Len(q.ids)]
<1>1. /\ req[r].st = "idle" /\ req' = [req EXCEPT ![r] = q2]
      /\ UNCHANGED <<tree, free, kv, fault>> /\ queue' = queue
  BY DEF Arrive
<1>2. /\ q2 \in ReqType /\ Empty(q2) /\ q2.st = "waiting" /\ TokensOK(q2, queue, r)
  BY NewReq
<1> HIDE DEF q2
<1>3. State \in StateType /\ Settled(State.req[r])
  BY SoundFacts
<1>4. Empty(State.req[r])
  BY <1>1, <1>3, StateIs DEF Settled
<1>5. State' = [State EXCEPT !.req[r] = q2]
  BY <1>1, <1>3, ReqUpdate
<1>6. Sound(State', queue)
  <2> DEFINE s == State
             u == State'
  <2>1. Sound(s, queue) /\ Empty(s.req[r]) /\ u = [s EXCEPT !.req[r] = q2]
    BY <1>4, <1>5
  <2> HIDE DEF s, u
  <2>2. Sound(u, queue)
    BY <1>2, <2>1, ReplaceSound
  <2> QED
    BY <2>2 DEF u
<1> QED
  BY <1>1, <1>6

\* A slot without a request has no tokens.
LEMMA NoReqTokens ==
  ASSUME NEW Q, NEW r
  PROVE  TokensOK(NoReq, Q, r)
BY NoReqFacts DEF TokensOK

\* Dropping a waiting request frees nothing that it held.
LEMMA AbortWaitingStep ==
  ASSUME Sound(State, queue), NEW r \in Reqs, AbortWaiting(r)
  PROVE  Sound(State', queue')
<1>1. /\ req[r].st = "waiting" /\ req' = [req EXCEPT ![r] = NoReq]
      /\ UNCHANGED <<tree, free, kv, fault>> /\ queue' = queue
  BY DEF AbortWaiting
<1>2. NoReq \in ReqType /\ Empty(NoReq) /\ NoReq.st = "idle" /\ TokensOK(NoReq, queue, r)
  BY NoReqFacts, NoReqTokens
<1>3. State \in StateType /\ Settled(State.req[r])
  BY SoundFacts
<1>4. Empty(State.req[r])
  BY <1>1, <1>3, StateIs DEF Settled
<1>5. State' = [State EXCEPT !.req[r] = NoReq]
  BY <1>1, <1>3, ReqUpdate
<1>6. Sound(State', queue)
  <2> DEFINE s == State
             u == State'
  <2>1. Sound(s, queue) /\ Empty(s.req[r]) /\ u = [s EXCEPT !.req[r] = NoReq]
    BY <1>4, <1>5
  <2> HIDE DEF s, u
  <2>2. Sound(u, queue)
    BY <1>2, <2>1, ReplaceSound
  <2> QED
    BY <2>2 DEF u
<1> QED
  BY <1>1, <1>6

\* process_pending_chunked_abort.
LEMMA AbortChunkedStep ==
  ASSUME Sound(State, queue), NEW r \in Reqs, AbortChunked(r)
  PROVE  Sound(State', queue')
<1> DEFINE s == State
           s1 == ReleaseNoInsert(s, r)
           u == [s1 EXCEPT !.req[r] = NoReq]
<1>1. s.req[r].st = "chunked" /\ Becomes(u) /\ queue' = queue
  BY StateIs DEF AbortChunked
<1> HIDE DEF s
<1>2. Good(s) /\ s.req[r] \in ReqType /\ RowShape(s.req[r]) /\ Settled(s.req[r])
      /\ Sound(s, queue)
  BY SoundFacts DEF s
<1>3. s.req[r].cache_protected_len =< s.req[r].kv_len
  <2>1. s.req[r].cache_protected_len \in Nat /\ s.req[r].kv_len \in Nat /\ s.req[r].fill \in Nat
    BY <1>2, RowFacts
  <2> QED
    BY <1>1, <1>2, <2>1 DEF Settled
<1>4. Released(s, s1, r)
  BY <1>2, <1>3, ReleaseNoInsertOK
<1> HIDE DEF s1
<1>5. Good(s1) /\ Empty(s1.req[r]) /\ s1.fault = s.fault
      /\ \A x \in Reqs : x # r => s1.req[x] = s.req[x]
  BY <1>4 DEF Released
<1>6. /\ Good(u) /\ u.fault = s1.fault /\ u.req[r] = NoReq
      /\ \A x \in Reqs : x # r => u.req[x] = s1.req[x]
  BY <1>5, OverOK
<1> HIDE DEF u
<1>7. Quiets(s, u, queue, r)
  BY <1>2, <1>5, <1>6, NoReqFacts, NoReqTokens DEF Quiets
<1>8. Sound(u, queue)
  BY <1>7, QuietSound
<1>9. State' = u
  BY <1>1, <1>8, SoundFacts, BecomesState
<1> QED
  BY <1>1, <1>8, <1>9

\* The match of a request that is refused only splits the tree.
LEMMA RejectReqStep ==
  ASSUME Sound(State, queue), NEW r \in Reqs, RejectReq(r)
  PROVE  Sound(State', queue')
<1> DEFINE s == State
           q == s.req[r]
           m == PrefixOf(r)
           T == SplitNode(s.tree, m)
           u == [s EXCEPT !.tree = T]
<1>1. q.st = "waiting" /\ tree' = T /\ UNCHANGED <<free, req, queue, kv, fault>>
  BY StateIs DEF RejectReq
<1>2. State' = u
  BY <1>1 DEF State
<1>3. m = Matched(s.tree, PageAligned(Front(q.toks)))
  BY StateIs DEF PrefixOf
<1> HIDE DEF s, m
<1>4. /\ Good(s) /\ s.fault = {} /\ queue \in Seq(Batches) /\ Len(queue) =< Depth
      /\ Reserve(s.req) /\ s \in StateType
      /\ \A x \in Reqs : /\ s.req[x] \in ReqType /\ RowShape(s.req[x])
                         /\ Settled(s.req[x]) /\ TokensOK(s.req[x], queue, x)
  BY SoundFacts DEF s
<1>5. TreeShape(s.tree) /\ TreeOK(s.tree, Hold(s.req))
      /\ PagesOK(s.tree.value, s.free, s.req, s.kv)
  BY <1>4, GoodFacts
<1>6. q.toks \in Path /\ Len(q.toks) > 0
  <2>1. q.toks \in Path /\ Len(q.toks) \in Nat /\ q.known \in Nat /\ q.plen \in Nat
    BY <1>4, RowFacts
  <2>2. Len(q.toks) = q.known /\ q.plen > 0 /\ q.plen =< q.known
    BY <1>1, <1>4 DEF TokensOK
  <2> QED
    BY <2>1, <2>2
<1>7. m \in DOMAIN s.tree.value \cup {Root}
  BY <1>3, <1>5, <1>6, PrefixFacts
<1>8. TreeOK(T, Hold(s.req)) /\ T.value = s.tree.value
  BY <1>5, <1>7, SplitOK
<1> HIDE DEF T
<1>9. T \in TreeType
  BY <1>8 DEF TreeOK, TreeShape
<1>10. /\ u \in StateType /\ u.tree = T /\ u.free = s.free /\ u.kv = s.kv
       /\ u.fault = s.fault /\ u.req = s.req
  BY <1>4, <1>9, WithTree
<1> HIDE DEF u
<1>11. Good(u)
  BY <1>4, <1>5, <1>8, <1>10 DEF Good
<1>12. Sound(u, queue)
  BY <1>4, <1>10, <1>11 DEF Sound
<1> QED
  BY <1>1, <1>2, <1>12

\* The empty cache.
LEMMA EmptySound ==
  ASSUME NEW s, NEW rq \in [Reqs -> ReqType], \A r \in Reqs : rq[r] = NoReq,
         s = [tree |-> EmptyTree, free |-> Pages, req |-> rq,
              kv |-> [p \in Pages |-> <<>>], fault |-> {}]
  PROVE  Sound(s, <<>>)
<1> DEFINE k == [p \in Pages |-> <<>>]
<1>1. /\ s.tree = EmptyTree /\ s.free = Pages /\ s.req = rq /\ s.kv = k /\ s.fault = {}
  OBVIOUS
<1>2. TreeOK(EmptyTree, Hold(rq))
  <2>1. DOMAIN Hold(rq) = Reqs /\ \A r \in Reqs : Hold(rq)[r] = Root
    BY NoReqFacts DEF Hold, Empty
  <2>2. IsFiniteSet(Reqs)
    BY PoolAssumption
  <2> QED
    BY <2>1, <2>2, EmptyOK
<1>3. k \in [Pages -> Path]
  <2>1. <<>> \in Path
    BY DEF Path
  <2> QED
    BY <2>1
<1> HIDE DEF k
<1>4. s \in StateType
  <2>1. EmptyTree \in TreeType
    BY <1>2 DEF TreeOK, TreeShape
  <2>2. {} \in SUBSET STRING
    OBVIOUS
  <2>3. s = [tree |-> EmptyTree, free |-> Pages, req |-> rq, kv |-> k, fault |-> {}]
    BY DEF k
  <2> QED
    BY <1>3, <2>1, <2>2, <2>3 DEF StateType
<1>5. RowShape(NoReq) /\ OwnAt(NoReq) = {} /\ \A v : ReadsTree(v, NoReq)
  BY NoReqFacts, EmptyRow
<1>6. DOMAIN EmptyTree.value = {}
  BY DEF EmptyTree
<1>7. PagesOK(EmptyTree.value, Pages, rq, k)
  <2>1. TreePagesOK(EmptyTree.value, Pages, k)
    BY <1>6 DEF TreePagesOK
  <2>2. \A r \in Reqs : ReadsTree(EmptyTree.value, rq[r])
                        /\ OwnsRest(EmptyTree.value, Pages, rq[r], k)
    BY <1>5 DEF OwnsRest
  <2>3. NoSharing(rq)
    BY <1>5 DEF NoSharing
  <2>4. Conserved(EmptyTree.value, Pages, rq)
    BY DEF Conserved
  <2> QED
    BY <2>1, <2>2, <2>3, <2>4 DEF PagesOK
<1>8. Good(s)
  BY <1>1, <1>2, <1>4, <1>5, <1>7 DEF Good
<1>9. \A r \in Reqs : Settled(rq[r]) /\ TokensOK(rq[r], <<>>, r)
  BY NoReqFacts, NoReqTokens DEF Settled
<1>10. Reserve(rq)
  BY NoReqFacts DEF Reserve
<1>11. <<>> \in Seq(Batches) /\ Len(<<>>) =< Depth
  BY PoolAssumption
<1> QED
  BY <1>1, <1>8, <1>9, <1>10, <1>11 DEF Sound

\* The scheduler starts with an empty cache.
LEMMA InitSound ==
  ASSUME Init
  PROVE  Sound(State, queue)
<1>1. queue = <<>> /\ req \in [Reqs -> ReqType] /\ \A r \in Reqs : req[r] = NoReq
  BY NoReqFacts DEF Init
<1>2. State = [tree |-> EmptyTree, free |-> Pages, req |-> req,
               kv |-> [p \in Pages |-> <<>>], fault |-> {}]
  BY DEF State, Init
<1> DEFINE s == State
           rq == req
<1>3. rq \in [Reqs -> ReqType] /\ (\A r \in Reqs : rq[r] = NoReq)
      /\ s = [tree |-> EmptyTree, free |-> Pages, req |-> rq,
              kv |-> [p \in Pages |-> <<>>], fault |-> {}]
  BY <1>1, <1>2
<1> HIDE DEF s, rq
<1>4. Sound(s, <<>>)
  BY <1>3, EmptySound
<1> QED
  BY <1>1, <1>4 DEF s

\* flush_cache of an idle scheduler is a fresh start.
LEMMA FlushStep ==
  ASSUME Sound(State, queue), FlushCache
  PROVE  Sound(State', queue')
<1>1. State \in StateType /\ \A r \in Reqs : TokensOK(State.req[r], queue, r)
  BY SoundFacts
<1>2. /\ InState("idle") = Reqs /\ queue = <<>> /\ queue' = queue /\ req' = req
      /\ tree' = EmptyTree /\ free' = Pages /\ kv' = [p \in Pages |-> <<>>]
      /\ fault' = fault /\ fault = {}
  BY DEF FlushCache
<1>3. req \in [Reqs -> ReqType]
  BY <1>1, StateIs, StateFacts
<1>4. \A r \in Reqs : req[r] = NoReq
  <2>1. \A r \in Reqs : req[r].st = "idle"
    BY <1>2 DEF InState
  <2> QED
    BY <1>1, <2>1, StateIs DEF TokensOK
<1> DEFINE u == State'
           rq == req
<1>5. u = [tree |-> EmptyTree, free |-> Pages, req |-> rq,
           kv |-> [p \in Pages |-> <<>>], fault |-> {}]
  BY <1>2 DEF State
<1>6. rq \in [Reqs -> ReqType] /\ \A r \in Reqs : rq[r] = NoReq
  BY <1>3, <1>4
<1> HIDE DEF u, rq
<1>7. Sound(u, <<>>)
  BY <1>5, <1>6, EmptySound
<1> QED
  BY <1>2, <1>7 DEF u

-----------------------------------------------------------------------------
(* Decode steps                                                            *)

\* A decode step of the running requests B.
Decodes(s0, Q, B) ==
  /\ Sound(s0, Q) /\ Len(Q) < Depth /\ B \subseteq Reqs
  /\ \A r \in B : s0.req[r].st = "running"
  /\ \A x \in Reqs : s0.req[x].st # "chunked"

\* A running request may be decoded.
LEMMA RunningReady ==
  ASSUME NEW s, NEW Q, Sound(s, Q), NEW r \in Reqs, s.req[r].st = "running"
  PROVE  /\ Ready(s.req[r]) /\ s.req[r].cache_protected_len =< s.req[r].kv_len
         /\ s.req[r].cache_protected_len =< s.req[r].known
         /\ s.req[r].fill =< s.req[r].kv_len /\ s.req[r].cache_protected_len =< s.req[r].fill
         /\ s.req[r].fill =< s.req[r].known
         /\ s.req[r].known \in Nat /\ s.req[r].kv_len \in Nat /\ s.req[r].fill \in Nat
         /\ Len(s.req[r].toks) \in Nat /\ s.req[r].kv_len = Len(s.req[r].toks) - 1
         /\ Len(s.req[r].toks) = s.req[r].known + Due(Q, r)
<1> DEFINE q == s.req[r]
<1>1. q \in ReqType /\ RowShape(q) /\ Settled(q) /\ TokensOK(q, Q, r)
  BY SoundFacts
<1>2. /\ Len(q.toks) \in Nat /\ q.kv_len \in Nat /\ q.cache_protected_len \in Nat
      /\ q.fill \in Nat /\ q.known \in Nat
  BY <1>1, RowFacts
<1>3. q.st = "running"
  OBVIOUS
<1> HIDE DEF q
<1>4. /\ q.cache_protected_len =< q.fill /\ q.fill =< q.kv_len /\ q.fill =< q.known
      /\ Len(q.toks) = q.known + Due(Q, r) /\ q.kv_len = Len(q.toks) - 1
  BY <1>1, <1>3 DEF Settled, TokensOK
<1>5. Ready(q)
  BY <1>2, <1>4 DEF Ready
<1>6. q.cache_protected_len =< q.kv_len /\ q.cache_protected_len =< q.known
  BY <1>2, <1>4
<1> QED
  BY <1>2, <1>4, <1>5, <1>6 DEF q

\* A decode step whose pages are there keeps the invariant.
LEMMA DecodeSound ==
  ASSUME NEW s0, NEW Q, NEW B, Decodes(s0, Q, B), NEW s, Good(s), s.req = s0.req,
         s.fault = s0.fault, NEW u, DecodedTo(s, u, B)
  PROVE  Sound(u, Append(Q, [r \in B |-> "decode"]))
<1> DEFINE b == [r \in B |-> "decode"]
           Q2 == Append(Q, b)
<1>1. /\ Sound(s0, Q) /\ Len(Q) < Depth /\ B \subseteq Reqs
      /\ \A r \in B : s0.req[r].st = "running"
      /\ \A x \in Reqs : s0.req[x].st # "chunked"
  BY DEF Decodes
<1>2. /\ s0.fault = {} /\ Q \in Seq(Batches)
      /\ \A x \in Reqs : /\ s0.req[x] \in ReqType /\ RowShape(s0.req[x])
                         /\ Settled(s0.req[x]) /\ TokensOK(s0.req[x], Q, x)
  BY <1>1, SoundFacts
<1>3. b \in Batches /\ (\A r \in B : Token(b, r) = 1) /\ \A r \in Reqs \ B : Token(b, r) = 0
  <2>1. b \in [B -> {"extend", "chunk", "decode"}] /\ DOMAIN b = B /\ \A r \in B : b[r] = "decode"
    OBVIOUS
  <2> HIDE DEF b
  <2>2. b \in Batches
    BY <1>1, <2>1 DEF Batches
  <2> QED
    BY <2>1, <2>2 DEF Token
<1> HIDE DEF b, Q2
<1>4. /\ Q2 \in Seq(Batches) /\ Len(Q2) =< Depth
      /\ \A x : Due(Q2, x) = Due(Q, x) + Token(b, x) /\ Due(Q, x) \in 0..1
  BY <1>1, <1>2, <1>3, QueueAppend DEF Q2
<1>5. /\ Good(u) /\ u.fault = {}
      /\ \A x \in Reqs : x \notin B => u.req[x] = s0.req[x]
      /\ \A r \in B :
           /\ u.req[r].st = s0.req[r].st /\ u.req[r].plen = s0.req[r].plen
           /\ u.req[r].max_new = s0.req[r].max_new /\ u.req[r].known = s0.req[r].known
           /\ u.req[r].fill = s0.req[r].fill
           /\ u.req[r].cache_protected_len = s0.req[r].cache_protected_len
           /\ u.req[r].kv_len = s0.req[r].kv_len + 1
           /\ Len(u.req[r].toks) = Len(s0.req[r].toks) + 1
  BY <1>2 DEF DecodedTo
<1>6. ASSUME NEW r \in B
      PROVE  Settled(u.req[r]) /\ TokensOK(u.req[r], Q2, r)
  <2> DEFINE q == s0.req[r]
             q2 == u.req[r]
             d == Due(Q, r)
             d2 == Due(Q2, r)
  <2>1. /\ q.fill =< q.kv_len /\ q.cache_protected_len =< q.fill /\ q.fill =< q.known
        /\ q.known \in Nat /\ q.kv_len \in Nat /\ q.fill \in Nat
        /\ Len(q.toks) \in Nat /\ q.kv_len = Len(q.toks) - 1 /\ Len(q.toks) = q.known + d
    BY <1>1, RunningReady
  <2>2. d2 = d + 1 /\ d \in Nat
    BY <1>3, <1>4
  <2>3. /\ q2.st = "running" /\ q2.plen = q.plen /\ q2.max_new = q.max_new
        /\ q2.known = q.known /\ q2.fill = q.fill
        /\ q2.cache_protected_len = q.cache_protected_len
        /\ q2.kv_len = q.kv_len + 1 /\ Len(q2.toks) = Len(q.toks) + 1
    BY <1>1, <1>5
  <2>4. /\ q.plen > 0 /\ q.plen =< q.known /\ q.known < q.plen + q.max_new
        /\ q.plen + q.max_new + PageSize < NumPages * PageSize
    <3>1. TokensOK(q, Q, r) /\ q.st = "running"
      BY <1>1, <1>2
    <3> QED
      BY <3>1 DEF TokensOK
  <2> HIDE DEF q, q2
  <2>5. Settled(q2)
    BY <2>1, <2>3 DEF Settled
  <2>6. Len(q2.toks) = q2.known + d2 /\ q2.kv_len = Len(q2.toks) - 1
    <3> DEFINE a == Len(q.toks)
               a2 == Len(q2.toks)
    <3>1. a \in Nat /\ a = q.known + d /\ a2 = a + 1 /\ q2.kv_len = q.kv_len + 1
          /\ q.kv_len = a - 1 /\ q2.known = q.known /\ q.known \in Nat
      BY <2>1, <2>3
    <3> HIDE DEF d, d2, a, a2
    <3>4. ASSUME NEW e \in Nat, NEW e2, e2 = e + 1, NEW x \in Nat, NEW y, y = x + e, NEW y2,
                 y2 = y + 1
          PROVE  y2 = x + e2
      BY <3>4
    <3>5. d \in Nat /\ d2 = d + 1
      BY <2>2
    <3>2. a2 = q2.known + d2
      BY <3>1, <3>4, <3>5
    <3>3. q2.kv_len = a2 - 1
      BY <3>1
    <3> QED
      BY <3>2, <3>3 DEF a2
  <2>7. /\ q2.plen > 0 /\ q2.plen =< q2.known /\ q2.known < q2.plen + q2.max_new
        /\ q2.plen + q2.max_new + PageSize < NumPages * PageSize
    BY <2>3, <2>4
  <2>8. TokensOK(q2, Q2, r)
    BY <2>3, <2>6, <2>7 DEF TokensOK
  <2> QED
    BY <2>5, <2>8 DEF q2
<1>7. \A x \in Reqs : Settled(u.req[x]) /\ TokensOK(u.req[x], Q2, x)
  <2>1. ASSUME NEW x \in Reqs, x \notin B
        PROVE  Settled(u.req[x]) /\ TokensOK(u.req[x], Q2, x)
    <3>1. Due(Q2, x) = Due(Q, x)
      BY <1>3, <1>4, <2>1
    <3>2. Settled(s0.req[x]) /\ TokensOK(s0.req[x], Q, x)
      BY <1>2
    <3>3. TokensOK(s0.req[x], Q2, x)
      BY <3>1, <3>2, TokensSame
    <3> QED
      BY <1>5, <2>1, <3>2, <3>3
  <2> QED
    BY <1>6, <2>1
<1>8. Reserve(u.req)
  <2>1. \A x \in Reqs : u.req[x].st # "chunked"
    BY <1>1, <1>5
  <2> QED
    BY <2>1 DEF Reserve
<1>9. Sound(u, Q2)
  BY <1>4, <1>5, <1>7, <1>8 DEF Sound
<1> QED
  BY <1>9 DEF Q2, b

\* What check_decode_mem tells.
LEMMA CheckFacts ==
  ASSUME NEW s, Good(s), NEW B \in SUBSET Reqs
  PROVE  /\ IsFiniteSet(B) /\ Cardinality(B) \in Nat
         /\ Cardinality(NeedsPage(s, B)) \in Nat /\ Cardinality(NeedsPage(s, B)) =< Cardinality(B)
         /\ CheckDecodeMem(s, B) <=> Cardinality(NeedsPage(s, B)) * PageSize =< Budget(s.req)
         /\ Budget(s.req) \in Int
<1>1. IsFiniteSet(B) /\ Cardinality(B) \in Nat
  <2>1. IsFiniteSet(Reqs)
    BY PoolAssumption
  <2> QED
    BY <2>1, FS_Subset, FS_CardinalityType
<1>2. NeedsPage(s, B) \in SUBSET B
  BY DEF NeedsPage
<1>3. IsFiniteSet(NeedsPage(s, B)) /\ Cardinality(NeedsPage(s, B)) =< Cardinality(B)
  BY <1>1, <1>2, FS_Subset
<1>4. Cardinality(NeedsPage(s, B)) \in Nat
  BY <1>3, FS_CardinalityType
<1>5. Available(EvictAll(s)) = Budget(s.req)
  BY EvictAllOK
<1>6. CheckDecodeMem(s, B) <=> Cardinality(NeedsPage(s, B)) * PageSize =< Budget(s.req)
  BY <1>5 DEF CheckDecodeMem
<1>7. Budget(s.req) \in Int
  <2>1. /\ Budget(s.req) = Available(s) + s.tree.evictable_size_
        /\ Available(s) \in Nat /\ s.tree.evictable_size_ \in Nat
    BY Accounting
  <2> QED
    BY <2>1
<1> QED
  BY <1>1, <1>3, <1>4, <1>6, <1>7

\* A decode step that check_decode_mem lets through meets no fault.
LEMMA DecodeStep ==
  ASSUME NEW s0, NEW B, Decodes(s0, queue, B), CheckDecodeMem(s0, B), LaunchDecode(s0, B)
  PROVE  Sound(State', queue')
<1>1. /\ Sound(s0, queue) /\ B \in SUBSET Reqs /\ \A r \in B : s0.req[r].st = "running"
  BY DEF Decodes
<1>2. Good(s0)
  BY <1>1, SoundFacts
<1> DEFINE N0 == NeedsPage(s0, B)
           k == Cardinality(N0)
           l == Cardinality(B)
<1>3. l \in Nat /\ k \in Nat /\ k =< l /\ k * PageSize =< Budget(s0.req) /\ Budget(s0.req) \in Int
  BY <1>1, <1>2, CheckFacts
<1>4. PICK s \in EvictToFreeTokens(s0, Cardinality(B) * PageSize), t \in [B -> Sampled] :
        IF Cardinality(NeedsPage(s, B)) > Cardinality(s.free)
          THEN /\ Becomes([s EXCEPT !.fault = @ \cup {"decode out of memory"}])
               /\ UNCHANGED queue
          ELSE /\ Becomes(Decoded(s, B, t))
               /\ queue' = Append(queue, [r \in B |-> "decode"])
  BY Zenon DEF LaunchDecode, Decoded
<1> DEFINE d == l * PageSize
           c == Cardinality(s.free)
<1>5. d \in Int /\ k * PageSize \in Int /\ k * PageSize =< d
  <2> HIDE DEF k, l
  <2> QED
    BY <1>3, PageMonotone, PageSizeFacts
<1>6. /\ Good(s) /\ s.req = s0.req /\ s.fault = s0.fault
      /\ Available(s) >= d \/ Available(s) = Budget(s0.req)
      /\ Available(s) \in Nat
  <2>1. s \in EvictToFreeTokens(s0, d)
    OBVIOUS
  <2> HIDE DEF d
  <2> QED
    BY <1>2, <1>5, <2>1, EvictToOK
<1>7. NeedsPage(s, B) = N0
  BY <1>6 DEF NeedsPage
<1>8. c \in Nat /\ Available(s) = c * PageSize
  BY <1>6, Accounting DEF Available
<1> HIDE DEF d, k, N0, c, l
<1>9. k * PageSize =< c * PageSize
  <2>0. c * PageSize \in Int
    BY <1>8, PageSizeFacts
  <2>1. CASE Available(s) >= d
    BY <1>5, <1>8, <2>0, <2>1
  <2>2. CASE Available(s) = Budget(s0.req)
    BY <1>3, <1>8, <2>2
  <2> QED
    BY <1>6, <2>1, <2>2
<1>10. k =< c
  BY <1>3, <1>8, <1>9, PageMonotone
<1>11. Cardinality(NeedsPage(s, B)) =< Cardinality(s.free)
       /\ ~(Cardinality(NeedsPage(s, B)) > Cardinality(s.free))
  <2>1. Cardinality(NeedsPage(s, B)) = k /\ Cardinality(s.free) = c
    BY <1>7 DEF k, c
  <2>2. ~(k > c)
    BY <1>3, <1>8, <1>10
  <2> QED
    BY <1>10, <2>1, <2>2
<1> DEFINE u == Decoded(s, B, t)
<1>12. Becomes(u) /\ queue' = Append(queue, [r \in B |-> "decode"])
  BY <1>4, <1>11, Zenon
<1>13. t \in [B -> Nat]
  <2>1. Sampled \subseteq Nat
    BY PoolAssumption
  <2> QED
    BY <2>1
<1>14. \A r \in B : Ready(s.req[r])
  BY <1>1, <1>6, RunningReady
<1> HIDE DEF u
<1>15. DecodedTo(s, u, B)
  BY <1>1, <1>6, <1>11, <1>13, <1>14, DecodedOK DEF u
<1>16. Sound(u, Append(queue, [r \in B |-> "decode"]))
  BY <1>6, <1>15, DecodeSound
<1>17. State' = u
  <2>1. u \in StateType
    BY <1>16, SoundFacts
  <2> QED
    BY <1>12, <2>1, BecomesState
<1> QED
  BY <1>12, <1>16, <1>17

-----------------------------------------------------------------------------
(* Retraction                                                              *)

\* Draining the tree changes no request.
LEMMA EvictAllSound ==
  ASSUME NEW s, NEW Q, Sound(s, Q)
  PROVE  Sound(EvictAll(s), Q) /\ EvictAll(s).req = s.req
<1> DEFINE u == EvictAll(s)
<1>1. Good(s)
  BY DEF Sound
<1>2. Good(u) /\ u.req = s.req /\ u.fault = s.fault
  BY <1>1, EvictAllOK
<1> HIDE DEF u
<1>3. Sound(u, Q)
  BY <1>2 DEF Sound
<1> QED
  BY <1>2, <1>3 DEF u

\* release_req of one request, and the eviction that follows it.
RetractOne(r, x) == EvictAll(Requeue(ReleaseNoInsert(x, r), r))

\* It keeps the invariant, and leaves the request waiting.
LEMMA RetractOneSound ==
  ASSUME NEW s, NEW Q, Sound(s, Q), NEW r \in Reqs, s.req[r].st \in {"running", "waiting"}
  PROVE  LET u == RetractOne(r, s)
         IN  /\ Sound(u, Q) /\ u.req[r].st = "waiting"
             /\ \A x \in Reqs : x # r => u.req[x] = s.req[x]
<1> DEFINE q == s.req[r]
           s1 == ReleaseNoInsert(s, r)
           q1 == s1.req[r]
           s2 == Requeue(s1, r)
           q2 == s2.req[r]
           d == Due(Q, r)
<1>1. /\ Good(s) /\ Q \in Seq(Batches)
      /\ q \in ReqType /\ RowShape(q) /\ Settled(q) /\ TokensOK(q, Q, r)
  BY SoundFacts
<1>2. /\ Len(q.toks) \in Nat /\ q.kv_len \in Nat /\ q.cache_protected_len \in Nat
      /\ q.fill \in Nat /\ q.known \in Nat
  BY <1>1, RowFacts
<1>3. q.cache_protected_len =< q.kv_len
  <2>1. CASE q.st = "running"
    BY <1>1, <1>2, <2>1 DEF Settled
  <2>2. CASE q.st = "waiting"
    BY <1>1, <1>2, <2>2 DEF Settled, Empty
  <2> QED
    BY <2>1, <2>2
<1>4. q.known =< Len(q.toks)
  <2>1. d \in Nat
    BY DEF Due, Carries
  <2> HIDE DEF d
  <2>2. CASE q.st = "running"
    <3>1. Len(q.toks) = q.known + d
      BY <1>1, <2>2 DEF TokensOK, d
    <3> HIDE DEF q
    <3> QED
      BY <1>2, <2>1, <3>1
  <2>3. CASE q.st = "waiting"
    BY <1>1, <1>2, <2>3 DEF TokensOK
  <2> QED
    BY <2>2, <2>3
<1>5. Released(s, s1, r)
  BY <1>1, <1>3, ReleaseNoInsertOK
<1> HIDE DEF s1
<1>6. /\ Good(s1) /\ s1.fault = s.fault /\ Empty(q1)
      /\ \A x \in Reqs : x # r => s1.req[x] = s.req[x]
      /\ q1.plen = q.plen /\ q1.max_new = q.max_new /\ q1.toks = q.toks /\ q1.known = q.known
  BY <1>5 DEF Released, SameCore
<1>7. /\ Good(s2) /\ s2.fault = s1.fault
      /\ \A x \in Reqs : x # r => s2.req[x] = s1.req[x]
      /\ Empty(q2) /\ q2.st = "waiting"
      /\ Len(q2.toks) = q1.known /\ q2.known = q1.known
      /\ q2.plen = q1.plen /\ q2.max_new = q1.max_new
  BY <1>4, <1>6, RequeueOK
<1> HIDE DEF s2
<1>8. TokensOK(q2, Q, r)
  <2>1. /\ q.plen > 0 /\ q.plen =< q.known /\ q.known < q.plen + q.max_new
        /\ q.plen + q.max_new + PageSize < NumPages * PageSize
    BY <1>1 DEF TokensOK
  <2>2. /\ q2.plen > 0 /\ q2.plen =< q2.known /\ q2.known < q2.plen + q2.max_new
        /\ q2.plen + q2.max_new + PageSize < NumPages * PageSize
    BY <1>6, <1>7, <2>1
  <2> QED
    BY <1>7, <2>2 DEF TokensOK
<1>9. Quiets(s, s2, Q, r)
  BY <1>6, <1>7, <1>8 DEF Quiets
<1>10. Sound(s2, Q)
  BY <1>9, QuietSound
<1>11. Sound(EvictAll(s2), Q) /\ EvictAll(s2).req = s2.req
  BY <1>10, EvictAllSound
<1>12. RetractOne(r, s) = EvictAll(s2)
  BY DEF RetractOne, s2, s1
<1> QED
  BY <1>6, <1>7, <1>11, <1>12

\* retract_decode leaves every request it popped waiting, and the others as
\* they were.
LEMMA RetractSound ==
  ASSUME NEW s, NEW Q, Sound(s, Q), NEW R \in SUBSET Reqs, \A r \in R : s.req[r].st = "running"
  PROVE  LET u == Retract(s, R)
         IN  /\ Sound(u, Q) /\ \A r \in R : u.req[r].st = "waiting"
             /\ \A x \in Reqs \ R : u.req[x] = s.req[x]
<1> DEFINE pick(T) == CHOOSE x \in T : TRUE
           base == EvictAll(s)
           Def(g) == [T \in SUBSET R |-> IF T = {} THEN base
                                        ELSE RetractOne(pick(T), g[T \ {pick(T)}])]
           fold == CHOOSE g : g = Def(g)
           X == {y \in StateType : /\ Sound(y, Q)
                                   /\ \A r \in R : y.req[r].st \in {"running", "waiting"}
                                   /\ \A x \in Reqs \ R : y.req[x] = s.req[x]}
           F == [z \in R \X X |-> RetractOne(z[1], z[2])]
           c == [T \in SUBSET R |-> pick(T)]
<1>1. Retract(s, R) = fold[R]
  BY DEF Retract, FoldSet, MapThenFoldSet, RetractOne
<1>2. Sound(base, Q) /\ base.req = s.req /\ base \in X
  <2>1. Sound(base, Q) /\ base.req = s.req
    BY EvictAllSound
  <2>2. base \in StateType
    BY <2>1, SoundFacts
  <2> HIDE DEF base
  <2> QED
    BY <2>1, <2>2
<1>3. \A T \in SUBSET R : T # {} => pick(T) \in T
  OBVIOUS
<1> HIDE DEF pick, base
<1>4. ASSUME NEW r \in R, NEW y \in X
      PROVE  /\ RetractOne(r, y) \in X /\ RetractOne(r, y).req[r].st = "waiting"
             /\ \A x \in Reqs : x # r => RetractOne(r, y).req[x] = y.req[x]
  <2> DEFINE u == RetractOne(r, y)
  <2>1. Sound(y, Q) /\ y.req[r].st \in {"running", "waiting"}
    BY <1>4
  <2>2. /\ Sound(u, Q) /\ u.req[r].st = "waiting"
        /\ \A x \in Reqs : x # r => u.req[x] = y.req[x]
    BY <2>1, RetractOneSound
  <2>3. u \in StateType
    BY <2>2, SoundFacts
  <2> HIDE DEF u
  <2>4. u \in X
    BY <1>4, <2>2, <2>3
  <2> QED
    BY <2>2, <2>4 DEF u
<1> HIDE DEF X
<1>5. F \in [R \X X -> X] /\ \A r \in R, y \in X : F[<<r, y>>] = RetractOne(r, y)
  BY <1>4
<1>6. \A T \in SUBSET R : T # {} => c[T] \in T
  BY <1>3
<1>7. \A T \in SUBSET R : c[T] = pick(T)
  OBVIOUS
<1>8. IsFiniteSet(R)
  <2>1. IsFiniteSet(Reqs)
    BY PoolAssumption
  <2> QED
    BY <2>1, FS_Subset
<1> HIDE DEF F, c
<1>9. PICK g : IsFold(g, SUBSET R, X, base, F, c)
  BY <1>2, <1>5, <1>6, <1>8, FoldExists
<1>10. /\ g \in [SUBSET R -> X]
       /\ \A T \in SUBSET R : g[T] = IF T = {} THEN base
                                     ELSE RetractOne(pick(T), g[T \ {pick(T)}])
  <2>1. g \in [SUBSET R -> X]
    BY <1>9 DEF IsFold
  <2>2. ASSUME NEW T \in SUBSET R
        PROVE  g[T] = IF T = {} THEN base ELSE RetractOne(pick(T), g[T \ {pick(T)}])
    <3>1. g[T] = IF T = {} THEN base ELSE F[<<c[T], g[T \ {c[T]}]>>]
      BY <1>9 DEF IsFold
    <3>2. CASE T = {}
      BY <3>1, <3>2
    <3>3. CASE T # {}
      <4>1. c[T] = pick(T) /\ pick(T) \in R /\ T \ {pick(T)} \in SUBSET R
        BY <1>3, <1>7, <3>3
      <4>2. g[T \ {pick(T)}] \in X
        BY <2>1, <4>1
      <4> QED
        BY <1>5, <3>1, <3>3, <4>1, <4>2
    <3> QED
      BY <3>2, <3>3
  <2> QED
    BY <2>1, <2>2
<1>11. g = Def(g)
  BY <1>10
<1>12. fold = Def(fold)
  <2> HIDE DEF Def
  <2> QED
    BY <1>11
<1> HIDE DEF fold
<1>13. \A T \in SUBSET R : fold[T] = IF T = {} THEN base
                                     ELSE RetractOne(pick(T), fold[T \ {pick(T)}])
  BY <1>12
<1> DEFINE OK(T) == /\ fold[T] \in X /\ \A r \in T : fold[T].req[r].st = "waiting"
           Flawed == {T \in SUBSET R : ~OK(T)}
<1>14. Flawed = {}
  <2>1. SUFFICES ASSUME Flawed # {}
                 PROVE  FALSE
    OBVIOUS
  <2>2. PICK T \in Flawed : \A U \in SUBSET T : U # T => U \notin Flawed
    <3>1. Flawed \subseteq SUBSET R
      OBVIOUS
    <3> HIDE DEF Flawed
    <3> QED
      BY <1>8, <2>1, <3>1, SmallestFlawed
  <2>3. T \in SUBSET R /\ ~OK(T)
    BY <2>2
  <2>4. CASE T = {}
    <3>1. fold[T] = base
      BY <1>13, <2>3, <2>4
    <3> QED
      BY <1>2, <2>3, <2>4, <3>1
  <2>5. CASE T # {}
    <3> DEFINE x == pick(T)
               V == T \ {x}
    <3>1. x \in T /\ x \in R
      BY <1>3, <2>3, <2>5
    <3>2. V \in SUBSET T /\ V # T /\ V \in SUBSET R
      BY <2>3, <3>1
    <3>3. OK(V)
      BY <2>2, <3>2
    <3>4. fold[T] = RetractOne(x, fold[V])
      BY <1>13, <2>3, <2>5
    <3> HIDE DEF x
    <3>5. /\ RetractOne(x, fold[V]) \in X /\ RetractOne(x, fold[V]).req[x].st = "waiting"
          /\ \A z \in Reqs : z # x => RetractOne(x, fold[V]).req[z] = fold[V].req[z]
      BY <1>4, <3>1, <3>3
    <3>6. \A r \in T : fold[T].req[r].st = "waiting"
      BY <2>3, <3>3, <3>4, <3>5
    <3> QED
      BY <2>3, <3>4, <3>5, <3>6
  <2> QED
    BY <2>4, <2>5
<1>15. fold[R] \in X /\ \A r \in R : fold[R].req[r].st = "waiting"
  <2>1. R \in SUBSET R
    OBVIOUS
  <2> HIDE DEF OK
  <2>2. OK(R)
    BY <1>14, <2>1
  <2> QED
    BY <2>2 DEF OK
<1> QED
  BY <1>1, <1>15 DEF X

\* The running batch is decoded.
LEMMA UpdateRunningBatchStep ==
  ASSUME Sound(State, queue), UpdateRunningBatch
  PROVE  Sound(State', queue')
<1> DEFINE s == State
           B == InState("running")
<1>1. /\ Len(queue) < Depth /\ InState("chunked") = {} /\ CheckDecodeMem(s, B)
      /\ LaunchDecode(s, B)
  BY DEF UpdateRunningBatch, CanLaunch
<1>2. /\ B \subseteq Reqs /\ \A r \in B : s.req[r].st = "running"
      /\ \A x \in Reqs : s.req[x].st # "chunked"
  BY <1>1, StateIs DEF InState
<1>3. Sound(s, queue)
  OBVIOUS
<1> HIDE DEF s, B
<1>4. Decodes(s, queue, B)
  BY <1>1, <1>2, <1>3 DEF Decodes
<1> QED
  BY <1>1, <1>4, DecodeStep

\* The last request that runs always fits: admission lets nobody in who would
\* need more than the pool, less the page that rounding may cost.
LEMMA LastFits ==
  ASSUME NEW s, NEW Q, Sound(s, Q), Len(Q) < Depth, NEW r \in Reqs, s.req[r].st = "running",
         \A x \in Reqs : x # r => s.req[x].st \in {"idle", "waiting"}
  PROVE  CheckDecodeMem(s, {r})
<1> DEFINE q == s.req[r]
           k == Cardinality(NeedsPage(s, {r}))
           d == Due(Q, r)
<1>1. Good(s) /\ Q \in Seq(Batches) /\ Settled(q) /\ TokensOK(q, Q, r)
  BY SoundFacts
<1>2. /\ k \in Nat /\ k =< Cardinality({r}) /\ Budget(s.req) \in Int
      /\ CheckDecodeMem(s, {r}) <=> k * PageSize =< Budget(s.req)
  BY <1>1, CheckFacts
<1>3. \A x \in Reqs : x # r => Empty(s.req[x])
  <2>1. \A x \in Reqs : Settled(s.req[x])
    BY SoundFacts
  <2> QED
    BY <2>1 DEF Settled
<1>4. /\ q.cache_protected_len =< q.kv_len /\ q.kv_len \in Nat /\ q.known \in Nat
      /\ q.kv_len = Len(q.toks) - 1 /\ Len(q.toks) = q.known + d /\ Len(q.toks) \in Nat
  BY RunningReady
<1>5. Budget(s.req) >= NumPages * PageSize - CeilAlign(q.kv_len)
  BY <1>1, <1>3, <1>4, BudgetAlone
<1>6. k =< 1
  BY <1>2, FS_Singleton
<1>7. d \in 0..1
  <2>1. [x \in {r} |-> "decode"] \in Batches
    <3>1. {r} \in SUBSET Reqs /\ [x \in {r} |-> "decode"] \in [{r} -> {"extend", "chunk", "decode"}]
      OBVIOUS
    <3> QED
      BY <3>1 DEF Batches
  <2> QED
    BY <1>1, <2>1, QueueAppend
<1>8. /\ q.known < q.plen + q.max_new /\ q.plen + q.max_new + PageSize < NumPages * PageSize
      /\ q.plen \in Nat /\ q.max_new \in Nat
  <2>1. q.plen \in Nat /\ q.max_new \in Nat
    BY SoundFacts, RowFacts
  <2> QED
    BY <1>1, <2>1 DEF TokensOK
<1> DEFINE l == q.kv_len
           T == NumPages * PageSize
<1>9. l + PageSize < T /\ l \in Nat /\ T \in Nat
  <2>1. T \in Nat
    <3>1. NumPages \in Nat
      BY PoolAssumption
    <3> QED
      BY <3>1, PageSizeFacts
  <2>2. q.kv_len =< q.known
    <3> HIDE DEF q, d
    <3> QED
      BY <1>4, <1>7
  <2>3. q.kv_len + PageSize < T
    <3> HIDE DEF q, T
    <3>1. q.plen + q.max_new + PageSize < T
      BY <1>8 DEF T
    <3>2. /\ q.kv_len \in Nat /\ q.known \in Nat /\ q.plen \in Nat /\ q.max_new \in Nat
          /\ q.known < q.plen + q.max_new /\ PageSize \in Nat /\ T \in Nat
      BY <1>4, <1>8, <2>1, PageSizeFacts
    <3> QED
      BY ONLY <2>2, <3>1, <3>2
  <2> QED
    BY <1>4, <2>1, <2>3
<1>10. Budget(s.req) >= T - CeilAlign(l)
  BY <1>5
<1> HIDE DEF l, T, k
<1>11. CASE k = 0
  <2>1. CeilAlign(l) \in Nat /\ CeilAlign(l) < l + PageSize
    BY <1>9, CeilFacts
  <2>2. 0 =< Budget(s.req)
    BY <1>2, <1>9, <1>10, <2>1, PageSizeFacts
  <2>3. k * PageSize = 0
    BY <1>11, PageSizeFacts
  <2> QED
    BY <1>2, <2>2, <2>3
<1>12. CASE k = 1
  <2>1. l % PageSize = 0
    <3>1. SUFFICES ASSUME ~(q.kv_len % PageSize = 0)
                   PROVE  FALSE
      BY DEF l
    <3>2. NeedsPage(s, {r}) = {}
      BY <3>1 DEF NeedsPage
    <3>3. k = 0
      BY <3>2, FS_EmptySet DEF k
    <3> QED
      BY <1>12, <3>3
  <2>2. CeilAlign(l) = l
    BY <1>9, <2>1, CeilOrder
  <2>3. PageSize =< Budget(s.req)
    BY <1>2, <1>9, <1>10, <2>2, PageSizeFacts
  <2>4. k * PageSize = PageSize
    BY <1>12, PageSizeFacts
  <2> QED
    BY <1>2, <2>3, <2>4
<1> QED
  BY <1>2, <1>6, <1>11, <1>12

\* Under memory pressure requests are retracted until the rest can be
\* decoded; "last request aborted" is not reached.
LEMMA RetractDecodeStep ==
  ASSUME Sound(State, queue), RetractDecode
  PROVE  Sound(State', queue')
<1> DEFINE s == State
           B == InState("running")
<1>1. Sound(s, queue) /\ Len(queue) < Depth /\ InState("chunked") = {}
  BY DEF RetractDecode, CanLaunch
<1>2. /\ B \subseteq Reqs /\ \A r \in B : s.req[r].st = "running"
      /\ \A x \in Reqs \ B : s.req[x].st # "running"
      /\ \A x \in Reqs : s.req[x].st # "chunked"
  BY <1>1, StateIs DEF InState
<1>3. PICK R \in RetractChoices(s, B) :
        CheckDecodeMem(Retract(s, R), B \ R) => LaunchDecode(Retract(s, R), B \ R)
      
  BY Zenon DEF RetractDecode
<1>4. /\ R \in SUBSET B
      /\ Cardinality(B \ R) = 1 \/ CheckDecodeMem(Retract(s, R), B \ R)
  BY <1>3, Zenon DEF RetractChoices
<1> DEFINE u == Retract(s, R)
           C == B \ R
<1>5. /\ Sound(u, queue) /\ \A r \in R : u.req[r].st = "waiting"
      /\ \A x \in Reqs \ R : u.req[x] = s.req[x]
  <2>1. R \in SUBSET Reqs /\ \A r \in R : s.req[r].st = "running"
    BY <1>2, <1>4
  <2> HIDE DEF s, B
  <2> QED
    BY <1>1, <2>1, RetractSound
<1>6. CheckDecodeMem(u, C) => LaunchDecode(u, C)
  BY <1>3
<1>7. Cardinality(C) = 1 \/ CheckDecodeMem(u, C)
  BY <1>4
<1> HIDE DEF s, B, u
<1>8. /\ C \subseteq Reqs /\ \A r \in C : u.req[r].st = "running"
      /\ \A x \in Reqs : u.req[x].st # "chunked"
  BY <1>2, <1>4, <1>5
<1>9. Decodes(u, queue, C)
  BY <1>1, <1>5, <1>8 DEF Decodes
<1>10. CheckDecodeMem(u, C)
  <2>1. SUFFICES ASSUME Cardinality(C) = 1
                 PROVE  CheckDecodeMem(u, C)
    BY <1>7
  <2>2. IsFiniteSet(C)
    <3>1. IsFiniteSet(Reqs)
      BY PoolAssumption
    <3> QED
      BY <1>8, <3>1, FS_Subset
  <2>3. PICK r : C = {r}
    <3> HIDE DEF C
    <3> QED
      BY <2>1, <2>2, FS_Singleton
  <2>4. r \in Reqs /\ u.req[r].st = "running"
    BY <1>8, <2>3
  <2>5. \A x \in Reqs : x # r => u.req[x].st \in {"idle", "waiting"}
    <3>1. ASSUME NEW x \in Reqs, x # r
          PROVE  u.req[x].st \in {"idle", "waiting"}
      <4>1. u.req[x] \in ReqType
        BY <1>5, SoundFacts
      <4>2. u.req[x].st \in {"idle", "waiting", "chunked", "running"}
        BY <4>1 DEF ReqType
      <4>3. u.req[x].st # "running"
        <5>1. CASE x \in R
          BY <1>5, <5>1
        <5>2. CASE x \notin R
          <6>1. x \notin B
            BY <2>3, <3>1, <5>2
          <6> QED
            BY <1>2, <1>5, <5>2, <6>1
        <5> QED
          BY <5>1, <5>2
      <4> QED
        BY <1>8, <4>2, <4>3
    <3> QED
      BY <3>1
  <2>6. CheckDecodeMem(u, {r})
    BY <1>1, <1>5, <2>4, <2>5, LastFits
  <2> QED
    BY <2>3, <2>6
<1>11. LaunchDecode(u, C)
  BY <1>6, <1>10
<1> QED
  BY <1>9, <1>10, <1>11, DecodeStep

-----------------------------------------------------------------------------
(* Results                                                                 *)

\* One more token of a request is known.
Counted(s, r) == [s EXCEPT !.req[r].known = @ + 1]

\* That leaves rows and pages alone.
LEMMA CountedOK ==
  ASSUME NEW s, Good(s), NEW r \in Reqs
  PROVE  LET u == Counted(s, r)
         IN  /\ Good(u) /\ u.fault = s.fault
             /\ \A x \in Reqs : x # r => u.req[x] = s.req[x]
             /\ u.req[r].known = s.req[r].known + 1 /\ u.req[r].st = s.req[r].st
             /\ u.req[r].plen = s.req[r].plen /\ u.req[r].max_new = s.req[r].max_new
             /\ u.req[r].toks = s.req[r].toks /\ u.req[r].row = s.req[r].row
             /\ u.req[r].kv_len = s.req[r].kv_len /\ u.req[r].fill = s.req[r].fill
             /\ u.req[r].cache_protected_len = s.req[r].cache_protected_len
<1> DEFINE q == s.req[r]
           q2 == [q EXCEPT !.known = q.known + 1]
           u == Counted(s, r)
<1>1. s \in StateType /\ q \in ReqType /\ RowShape(q)
  BY GoodFacts
<1>2. u = [s EXCEPT !.req[r] = q2]
  BY <1>1 DEF Counted, StateType, ReqType
<1> HIDE DEF u
<1>3. q.known + 1 \in Nat
  BY <1>1 DEF ReqType
<1>4. /\ q2 \in ReqType /\ q2.st = q.st /\ q2.toks = q.toks /\ q2.known = q.known + 1
      /\ q2.plen = q.plen /\ q2.max_new = q.max_new /\ q2.row = q.row
      /\ q2.kv_len = q.kv_len /\ q2.cache_protected_len = q.cache_protected_len
      /\ q2.last_node = q.last_node /\ q2.fill = q.fill
  BY <1>1, <1>3 DEF ReqType
<1> HIDE DEF q2
<1>5. /\ u \in StateType /\ u.tree = s.tree /\ u.free = s.free /\ u.kv = s.kv
      /\ u.fault = s.fault /\ u.req[r] = q2
      /\ \A x \in Reqs : x # r => u.req[x] = s.req[x]
  <2>1. Replaces(s, u, r, q2)
    BY <1>1, <1>2, <1>4 DEF Replaces
  <2> QED
    BY <2>1, WithReq DEF Replaced
<1>6. \A x \in Reqs : /\ u.req[x].toks = s.req[x].toks /\ u.req[x].row = s.req[x].row
                      /\ u.req[x].kv_len = s.req[x].kv_len
                      /\ u.req[x].cache_protected_len = s.req[x].cache_protected_len
                      /\ u.req[x].last_node = s.req[x].last_node
  BY <1>4, <1>5
<1>7. Hold(u.req) = Hold(s.req)
  BY <1>6 DEF Hold
<1>8. \A x \in Reqs : RowShape(u.req[x])
  <2>1. \A x \in Reqs : RowShape(s.req[x])
    BY GoodFacts
  <2> QED
    BY <1>6, <2>1 DEF RowShape, Covered
<1>9. PagesOK(u.tree.value, u.free, u.req, u.kv)
  <2> DEFINE v == s.tree.value
             f == s.free
             k == s.kv
  <2>1. PagesOK(v, f, s.req, k)
    BY GoodFacts
  <2>2. \A x \in Reqs : OwnAt(u.req[x]) = OwnAt(s.req[x])
    BY <1>6 DEF OwnAt
  <2>3. \A x \in Reqs : \A i : Content(u.req[x], i) = Content(s.req[x], i)
    BY <1>6 DEF Content
  <2> HIDE DEF v, f, k
  <2>4. TreePagesOK(v, f, k)
    BY <2>1 DEF PagesOK
  <2>5. ASSUME NEW x \in Reqs
        PROVE  ReadsTree(v, u.req[x]) /\ OwnsRest(v, f, u.req[x], k)
    <3>1. ReadsTree(v, s.req[x]) /\ OwnsRest(v, f, s.req[x], k)
      BY <2>1 DEF PagesOK
    <3>2. ReadsTree(v, u.req[x])
      BY <1>6, <3>1 DEF ReadsTree
    <3>3. OwnsRest(v, f, u.req[x], k)
      BY <1>6, <2>2, <2>3, <3>1 DEF OwnsRest
    <3> QED
      BY <3>2, <3>3
  <2>6. NoSharing(u.req)
    <3>1. NoSharing(s.req)
      BY <2>1 DEF PagesOK
    <3> QED
      BY <1>6, <2>2, <3>1 DEF NoSharing
  <2>7. Conserved(v, f, u.req)
    <3>1. Conserved(v, f, s.req)
      BY <2>1 DEF PagesOK
    <3> QED
      BY <1>6, <2>2, <3>1 DEF Conserved
  <2>8. PagesOK(v, f, u.req, k)
    BY <2>4, <2>5, <2>6, <2>7 DEF PagesOK
  <2> QED
    BY <1>5, <2>8 DEF v, f, k
<1>10. Good(u)
  <2>1. TreeOK(s.tree, Hold(s.req))
    BY GoodFacts
  <2> QED
    BY <1>5, <1>7, <1>8, <1>9, <2>1 DEF Good
<1> QED
  BY <1>4, <1>5, <1>10 DEF u

\* What the scheduler knows when it processes the result of one request.
Answers(s, Q, r, f) ==
  /\ Good(s) /\ s.fault = {} /\ r \in Reqs
  /\ Settled(s.req[r]) /\ TokensOK(s.req[r], Q, r)
  /\ Q \in Seq(Batches) /\ Len(Q) =< Depth /\ Q # <<>>
  /\ r \in DOMAIN Head(Q)
  /\ s.req[r].st = "running" /\ Head(Q)[r] # "chunk"
       /\ s.req[r].known + 1 - s.req[r].plen >= s.req[r].max_new => f

\* And what processing it leaves.
Answered(s, u, Q, r) ==
  /\ Good(u) /\ u.fault = {}
  /\ \A x \in Reqs : x # r => u.req[x] = s.req[x]
  /\ Settled(u.req[r]) /\ TokensOK(u.req[r], Tail(Q), r)
  /\ Budget(s.req) \in Int /\ Budget(u.req) \in Int /\ Budget(s.req) =< Budget(u.req)
  /\ u.req[r].st = "chunked" \/ s.req[r].st = "chunked" => u.req[r] = s.req[r]

\* One request's part of process_batch_result.
LEMMA ProcessOneOK ==
  ASSUME NEW s, NEW Q, NEW r, NEW f \in BOOLEAN, Answers(s, Q, r, f)
  PROVE  Answered(s, ProcessOne(s, r, Head(Q)[r], f), Q, r)
<1> DEFINE q == s.req[r]
           ran == Head(Q)[r]
           u == ProcessOne(s, r, ran, f)
           s1 == Counted(s, r)
           q1 == s1.req[r]
           d == Due(Q, r)
           d2 == Due(Tail(Q), r)
<1>1. /\ Good(s) /\ s.fault = {} /\ r \in Reqs /\ Settled(q) /\ TokensOK(q, Q, r)
      /\ Q \in Seq(Batches) /\ Len(Q) =< Depth /\ Q # <<>> /\ r \in DOMAIN Head(Q)
      /\ q.st = "running" /\ ran # "chunk" /\ q.known + 1 - q.plen >= q.max_new => f
  BY DEF Answers
<1>2. d = d2 + Token(Head(Q), r) /\ d2 \in Nat /\ Token(Head(Q), r) \in {0, 1}
  BY <1>1, QueueTail
<1>3. Token(Head(Q), r) = IF ran # "chunk" THEN 1 ELSE 0
  BY <1>1 DEF Token
<1>4. u = IF q.st # "running" \/ ran = "chunk" THEN s
          ELSE IF f THEN [ReleaseInsert(s1, r) EXCEPT !.req[r] = NoReq]
          ELSE IF ran = "extend" THEN CacheUnfinishedReq(s1, r, q.fill)
          ELSE s1
  BY Zenon DEF ProcessOne, Counted
<1>5. q \in ReqType /\ RowShape(q)
  BY <1>1, GoodFacts
<1>6. /\ q.known \in Nat /\ q.fill \in Nat /\ q.kv_len \in Nat /\ q.cache_protected_len \in Nat
      /\ q.plen \in Nat /\ q.max_new \in Nat /\ Len(q.toks) \in Nat
      /\ q.cache_protected_len % PageSize = 0
  BY <1>5, RowFacts
<1>7. Budget(s.req) \in Int
  <2>1. /\ Budget(s.req) = Available(s) + s.tree.evictable_size_
        /\ Available(s) \in Nat /\ s.tree.evictable_size_ \in Nat
    BY <1>1, Accounting
  <2> QED
    BY <2>1
<1> HIDE DEF d, d2, ran, u
<1>8. CASE q.st # "running" \/ ran = "chunk"
  <2>1. u = s
    BY <1>4, <1>8
  <2>2. TokensOK(q, Tail(Q), r)
    <3>1. CASE q.st = "chunked"
      <4>1. d = 0
        BY <1>1, <3>1 DEF TokensOK, d
      <4>2. d2 = 0
        BY <1>2, <4>1
      <4> QED
        BY <1>1, <4>1, <4>2, TokensSame DEF d, d2
    <3>2. CASE q.st \in {"idle", "waiting"}
      BY <1>1, <3>2 DEF TokensOK
    <3>3. CASE q.st = "running"
      <4>1. d = d2
        BY <1>2, <1>3, <1>8, <3>3
      <4> QED
        BY <1>1, <4>1, TokensSame DEF d, d2
    <3>4. q.st \in {"idle", "waiting", "chunked", "running"}
      BY <1>5 DEF ReqType
    <3> QED
      BY <3>1, <3>2, <3>3, <3>4
  <2>3. Answered(s, s, Q, r)
    BY <1>1, <1>7, <2>2 DEF Answered
  <2> QED
    BY <2>1, <2>3 DEF u, ran
<1>9. CASE q.st = "running" /\ ran # "chunk"
  <2>1. d = d2 + 1
    BY <1>2, <1>3, <1>9
  <2>2. /\ Good(s1) /\ s1.fault = s.fault
        /\ \A x \in Reqs : x # r => s1.req[x] = s.req[x]
        /\ q1.known = q.known + 1 /\ q1.st = q.st
        /\ q1.plen = q.plen /\ q1.max_new = q.max_new
        /\ q1.toks = q.toks /\ q1.row = q.row
        /\ q1.kv_len = q.kv_len /\ q1.fill = q.fill
        /\ q1.cache_protected_len = q.cache_protected_len
    BY <1>1, CountedOK
  <2> HIDE DEF s1
  <2>3. /\ q.cache_protected_len =< q.fill /\ q.fill =< q.kv_len /\ q.fill =< q.known
        /\ q.plen > 0 /\ q.plen =< q.known
        /\ q.plen + q.max_new + PageSize < NumPages * PageSize
        /\ q.kv_len = Len(q.toks) - 1
    BY <1>1, <1>9 DEF Settled, TokensOK
  <2>4. Len(q.toks) = q.known + d
    BY <1>1, <1>9 DEF TokensOK, d
  <2>5. Budget(s1.req) \in Int /\ Budget(s.req) =< Budget(s1.req)
    <3>1. /\ Len(q1.row) = Len(q.row) /\ q.cache_protected_len =< q1.cache_protected_len
          /\ q1.toks = q.toks
      BY <1>6, <2>2
    <3> QED
      BY <1>1, <2>2, <3>1, BudgetCache
  <2>6. CASE f
    <3> DEFINE s2 == ReleaseInsert(s1, r)
               s3 == [s2 EXCEPT !.req[r] = NoReq]
    <3>1. q1.cache_protected_len =< q1.kv_len /\ q1.cache_protected_len =< q1.known
      <4>1. /\ q.cache_protected_len \in Nat /\ q.fill \in Nat /\ q.kv_len \in Nat
            /\ q.known \in Nat
        BY <1>6
      <4>2. /\ q1.cache_protected_len = q.cache_protected_len /\ q1.kv_len = q.kv_len
            /\ q1.known = q.known + 1
        BY <2>2
      <4>3. q.cache_protected_len =< q.fill /\ q.fill =< q.kv_len /\ q.fill =< q.known
        BY <2>3
      <4> HIDE DEF q, q1
      <4> QED
        BY ONLY <4>1, <4>2, <4>3
    <3>2. Released(s1, s2, r)
      BY <1>1, <2>2, <3>1, ReleaseInsertOK
    <3> HIDE DEF s2
    <3>3. /\ Good(s2) /\ s2.fault = s1.fault /\ Empty(s2.req[r])
          /\ \A x \in Reqs : x # r => s2.req[x] = s1.req[x]
      BY <3>2 DEF Released
    <3>4. /\ Good(s3) /\ s3.fault = s2.fault /\ s3.req[r] = NoReq
          /\ \A x \in Reqs : x # r => s3.req[x] = s2.req[x]
      BY <1>1, <3>3, OverOK
    <3>5. u = s3
      BY <1>4, <1>9, <2>6 DEF s2
    <3> HIDE DEF s3
    <3>6. \A x \in Reqs : x # r => s3.req[x] = s.req[x]
      BY <2>2, <3>3, <3>4
    <3>7. Empty(s3.req[r]) /\ s3.req[r].st = "idle" /\ Settled(s3.req[r])
      BY <3>4, NoReqFacts DEF Settled
    <3>8. Budget(s3.req) \in Int /\ Budget(s.req) =< Budget(s3.req)
      BY <1>1, <3>4, <3>6, <3>7, BudgetRelease
    <3>9. TokensOK(s3.req[r], Tail(Q), r)
      BY <3>4, NoReqTokens
    <3>10. Answered(s, s3, Q, r)
      BY <1>1, <1>7, <1>9, <2>2, <3>3, <3>4, <3>6, <3>7, <3>8, <3>9 DEF Answered
    <3> QED
      BY <3>5, <3>10 DEF u, ran
  <2>7. CASE ~f
    <3>1. q1.known < q1.plen + q1.max_new
      <4>1. ~(q.known + 1 - q.plen >= q.max_new)
        BY <1>1, <1>9, <2>7
      <4>2. q.known \in Nat /\ q.plen \in Nat /\ q.max_new \in Nat
        BY <1>6
      <4>3. q1.known = q.known + 1 /\ q1.plen = q.plen /\ q1.max_new = q.max_new
        BY <2>2
      <4> HIDE DEF q, q1
      <4> QED
        BY ONLY <4>1, <4>2, <4>3
    <3>2. ASSUME NEW w, Good(w), w.fault = {}, \A x \in Reqs : x # r => w.req[x] = s.req[x],
                 SameCore(q1, w.req[r]), w.req[r].kv_len = q1.kv_len,
                 w.req[r].fill = q1.fill, w.req[r].cache_protected_len =< q1.fill,
                 Budget(w.req) \in Int, Budget(s.req) =< Budget(w.req)
          PROVE  Answered(s, w, Q, r)
      <4> DEFINE p == w.req[r]
      <4>1. /\ p.st = "running" /\ p.plen = q.plen /\ p.max_new = q.max_new
            /\ p.toks = q.toks /\ p.known = q.known + 1 /\ p.kv_len = q.kv_len
            /\ p.fill = q.fill /\ p.cache_protected_len =< p.fill
        BY <1>9, <2>2, <3>2 DEF SameCore
      <4> HIDE DEF p, q, q1
      <4>2. Settled(p)
        BY <1>6, <2>3, <4>1 DEF Settled
      <4>3. Len(p.toks) = p.known + d2 /\ p.kv_len = Len(p.toks) - 1
        <5>1. Len(p.toks) = Len(q.toks)
          BY <4>1
        <5>2. d2 \in Nat /\ q.known \in Nat /\ Len(q.toks) \in Nat
          BY <1>2, <1>6
        <5>3. /\ Len(q.toks) = q.known + d /\ q.kv_len = Len(q.toks) - 1
              /\ p.known = q.known + 1 /\ p.kv_len = q.kv_len
          BY <2>3, <2>4, <4>1
        <5> QED
          BY ONLY <2>1, <5>1, <5>2, <5>3
      <4>4. /\ p.plen > 0 /\ p.plen =< p.known /\ p.known < p.plen + p.max_new
            /\ p.plen + p.max_new + PageSize < NumPages * PageSize
        <5>1. p.known < p.plen + p.max_new
          BY <2>2, <3>1, <4>1
        <5>2. p.plen =< p.known
          BY <1>6, <2>3, <4>1
        <5> QED
          BY <2>3, <4>1, <5>1, <5>2
      <4>5. TokensOK(p, Tail(Q), r)
        BY <4>1, <4>3, <4>4 DEF TokensOK, d2
      <4> QED
        BY <1>7, <1>9, <3>2, <4>1, <4>2, <4>5 DEF Answered, p, q
    <3>3. CASE ran = "extend"
      <4> DEFINE w == CacheUnfinishedReq(s1, r, q.fill)
      <4>1. /\ Good(w) /\ w.fault = s1.fault
            /\ \A x \in Reqs : x # r => w.req[x] = s1.req[x]
            /\ SameCore(q1, w.req[r])
            /\ w.req[r].kv_len = q1.kv_len /\ w.req[r].fill = q1.fill
            /\ w.req[r].cache_protected_len = FloorAlign(q.fill)
            /\ Len(w.req[r].row) = Len(q1.row)
        <5> DEFINE n == q.fill
        <5>1. s1.req[r].cache_protected_len =< n /\ n =< s1.req[r].kv_len /\ n \in Nat
          BY <1>6, <2>2, <2>3
        <5>2. r \in Reqs /\ Good(s1)
          BY <1>1, <2>2
        <5> HIDE DEF n
        <5>3. LET v == CacheUnfinishedReq(s1, r, n)
              IN  /\ Good(v) /\ v.fault = s1.fault
                  /\ \A x \in Reqs : x # r => v.req[x] = s1.req[x]
                  /\ SameCore(s1.req[r], v.req[r])
                  /\ v.req[r].kv_len = s1.req[r].kv_len /\ v.req[r].fill = s1.req[r].fill
                  /\ v.req[r].cache_protected_len = FloorAlign(n)
                  /\ Len(v.req[r].row) = Len(s1.req[r].row)
          BY <5>1, <5>2, CacheOK
        <5> QED
          BY <5>3 DEF n
      <4>2. u = w
        BY <1>4, <1>9, <2>7, <3>3
      <4> HIDE DEF w
      <4>3. FloorAlign(q.fill) =< q.fill /\ q.cache_protected_len =< FloorAlign(q.fill)
            /\ FloorAlign(q.fill) \in Nat
        BY <1>6, <2>3, FloorFacts
      <4>4. w.req[r].toks = q1.toks
        BY <4>1 DEF SameCore
      <4>5. Budget(w.req) \in Int /\ Budget(s1.req) =< Budget(w.req)
        <5>1. q1.cache_protected_len =< w.req[r].cache_protected_len
          BY <2>2, <4>1, <4>3
        <5> QED
          BY <1>1, <2>2, <4>1, <4>4, <5>1, BudgetCache
      <4>6. Budget(s.req) =< Budget(w.req)
        BY <1>7, <2>5, <4>5
      <4>7. Answered(s, w, Q, r)
        <5>1. w.fault = {} /\ \A x \in Reqs : x # r => w.req[x] = s.req[x]
          BY <1>1, <2>2, <4>1
        <5>2. w.req[r].cache_protected_len =< q1.fill
          BY <2>2, <4>1, <4>3
        <5> QED
          BY <3>2, <4>1, <4>5, <4>6, <5>1, <5>2
      <4> QED
        BY <4>2, <4>7 DEF u, ran
    <3>4. CASE ran # "extend"
      <4>1. u = s1
        BY <1>4, <1>9, <2>7, <3>4
      <4>2. SameCore(q1, s1.req[r])
        BY DEF SameCore
      <4>3. s1.fault = {} /\ q1.cache_protected_len =< q1.fill
        BY <1>1, <2>2, <2>3
      <4>4. Answered(s, s1, Q, r)
        BY <2>2, <2>5, <3>2, <4>2, <4>3
      <4> QED
        BY <4>1, <4>4 DEF u, ran
    <3> QED
      BY <3>3, <3>4
  <2> QED
    BY <2>6, <2>7
<1> QED
  BY <1>8, <1>9

\* Some requests of the first batch have been processed: each is as it was or
\* as processing it leaves it, and nobody has lost budget.
Partway(s, y) ==
  /\ Good(y) /\ y.fault = {}
  /\ Budget(s.req) \in Int /\ Budget(y.req) \in Int /\ Budget(s.req) =< Budget(y.req)
  /\ \A r \in Reqs :
       y.req[r].st = "chunked" \/ s.req[r].st = "chunked" => y.req[r] = s.req[r]

\* A request that has been processed.
Done(y, Q, r) == Settled(y.req[r]) /\ TokensOK(y.req[r], Tail(Q), r)

\* A request that is not in the batch is as if it had been processed.
LEMMA OthersDone ==
  ASSUME NEW s, NEW Q, Sound(s, Q), Q # <<>>, NEW r \in Reqs, r \notin DOMAIN Head(Q)
  PROVE  Done(s, Q, r)
<1>1. Q \in Seq(Batches) /\ Len(Q) =< Depth /\ Settled(s.req[r]) /\ TokensOK(s.req[r], Q, r)
  BY SoundFacts
<1>2. Token(Head(Q), r) = 0
  BY DEF Token
<1>3. Due(Q, r) = Due(Tail(Q), r) + Token(Head(Q), r) /\ Due(Tail(Q), r) \in Nat
  BY <1>1, QueueTail
<1>4. Due(Q, r) = Due(Tail(Q), r)
  BY <1>2, <1>3
<1>5. TokensOK(s.req[r], Tail(Q), r)
  BY <1>1, <1>4, TokensSame
<1> QED
  BY <1>1, <1>5 DEF Done

\* The batch's requests, in the order of their slots, with those that end.
Judged(s, Q, fin) ==
  /\ Sound(s, Q) /\ Q # <<>>
  /\ \A r \in DOMAIN Head(Q) :
       s.req[r].st = "running" /\ Head(Q)[r] # "chunk"
         /\ s.req[r].known + 1 - s.req[r].plen >= s.req[r].max_new => r \in fin

\* One of them, when the ones before it have been processed.
Step(Q, fin, r, y) == ProcessOne(y, r, Head(Q)[r], r \in fin)

\* Processing it is sound, and leaves the others as they were.
LEMMA StepOK ==
  ASSUME NEW s, NEW Q, NEW fin, Judged(s, Q, fin), NEW r \in DOMAIN Head(Q), r \in Reqs,
         NEW y, Partway(s, y), y.req[r] = s.req[r]
  PROVE  LET u == Step(Q, fin, r, y)
         IN  /\ Partway(s, u) /\ Done(u, Q, r)
             /\ \A x \in Reqs : x # r => u.req[x] = y.req[x]
<1> DEFINE f == r \in fin
           u == ProcessOne(y, r, Head(Q)[r], f)
<1>1. Sound(s, Q) /\ Q # <<>>
  BY DEF Judged
<1>2. Q \in Seq(Batches) /\ Len(Q) =< Depth /\ Settled(s.req[r]) /\ TokensOK(s.req[r], Q, r)
  BY <1>1, SoundFacts
<1>3. /\ Good(y) /\ y.fault = {}
      /\ Budget(s.req) \in Int /\ Budget(y.req) \in Int /\ Budget(s.req) =< Budget(y.req)
      /\ \A x \in Reqs :
           y.req[x].st = "chunked" \/ s.req[x].st = "chunked" => y.req[x] = s.req[x]
  BY DEF Partway
<1>4. y.req[r].st = "running" /\ Head(Q)[r] # "chunk"
        /\ y.req[r].known + 1 - y.req[r].plen >= y.req[r].max_new => f
  BY DEF Judged
<1>5. f \in BOOLEAN
  BY DEF f
<1> HIDE DEF f
<1>6. Answers(y, Q, r, f)
  BY <1>1, <1>2, <1>3, <1>4 DEF Answers
<1>7. Answered(y, u, Q, r)
  BY <1>5, <1>6, ProcessOneOK
<1>8. Step(Q, fin, r, y) = u
  BY DEF Step, f
<1> HIDE DEF u
<1>9. /\ Good(u) /\ u.fault = {}
      /\ \A x \in Reqs : x # r => u.req[x] = y.req[x]
      /\ Settled(u.req[r]) /\ TokensOK(u.req[r], Tail(Q), r)
      /\ Budget(u.req) \in Int /\ Budget(y.req) =< Budget(u.req)
      /\ u.req[r].st = "chunked" \/ y.req[r].st = "chunked" => u.req[r] = y.req[r]
  BY <1>7 DEF Answered
<1>10. Budget(s.req) =< Budget(u.req)
  BY <1>3, <1>9
<1>11. \A x \in Reqs :
         u.req[x].st = "chunked" \/ s.req[x].st = "chunked" => u.req[x] = s.req[x]
  BY <1>3, <1>9
<1>12. Partway(s, u)
  BY <1>3, <1>9, <1>10, <1>11 DEF Partway
<1> QED
  BY <1>8, <1>9, <1>12 DEF Done

\* The whole batch.
Results(s, Q, fin) ==
  FoldLeft(LAMBDA y, r : ProcessOne(y, r, Head(Q)[r], r \in fin), s,
           Ascending(DOMAIN Head(Q)))

\* When every request is done the state is sound for the shorter queue.
LEMMA AllDone ==
  ASSUME NEW s, NEW Q, Sound(s, Q), Q # <<>>, NEW u, Partway(s, u),
         \A r \in Reqs : Done(u, Q, r)
  PROVE  Sound(u, Tail(Q))
<1>1. Q \in Seq(Batches) /\ Len(Q) =< Depth /\ Reserve(s.req)
  BY SoundFacts
<1>2. Tail(Q) \in Seq(Batches) /\ Len(Tail(Q)) =< Depth
  BY <1>1, QueueTail
<1>3. /\ Good(u) /\ u.fault = {}
      /\ Budget(s.req) \in Int /\ Budget(u.req) \in Int /\ Budget(s.req) =< Budget(u.req)
      /\ \A r \in Reqs :
           u.req[r].st = "chunked" \/ s.req[r].st = "chunked" => u.req[r] = s.req[r]
  BY DEF Partway
<1>4. \A r \in Reqs : Settled(u.req[r]) /\ TokensOK(u.req[r], Tail(Q), r)
  BY DEF Done
<1>5. ASSUME NEW r \in Reqs, u.req[r].st = "chunked"
      PROVE  /\ CeilAlign(Len(u.req[r].toks)) - CeilAlign(u.req[r].kv_len) =< Budget(u.req)
             /\ \A x \in Reqs : u.req[x].st = "chunked" => x = r
  <2>1. u.req[r] = s.req[r] /\ s.req[r].st = "chunked"
    BY <1>3, <1>5
  <2> DEFINE a == CeilAlign(Len(s.req[r].toks))
             c == CeilAlign(s.req[r].kv_len)
  <2>2. a - c =< Budget(s.req) /\ \A x \in Reqs : s.req[x].st = "chunked" => x = r
    BY <1>1, <2>1 DEF Reserve
  <2>3. a \in Nat /\ c \in Nat
    <3>1. Len(s.req[r].toks) \in Nat /\ s.req[r].kv_len \in Nat
      BY SoundFacts, RowFacts
    <3> QED
      BY <3>1, CeilFacts
  <2>4. \A x \in Reqs : u.req[x].st = "chunked" => s.req[x].st = "chunked"
    BY <1>3
  <2> HIDE DEF a, c
  <2>5. a - c =< Budget(u.req)
    BY <1>3, <2>2, <2>3
  <2> QED
    BY <2>1, <2>2, <2>4, <2>5 DEF a, c
<1>6. Reserve(u.req)
  BY <1>5 DEF Reserve
<1> QED
  BY <1>2, <1>3, <1>4, <1>6 DEF Sound

\* process_batch_result keeps the invariant.
LEMMA ResultsSound ==
  ASSUME NEW s, NEW Q, NEW fin, Judged(s, Q, fin)
  PROVE  Sound(Results(s, Q, fin), Tail(Q))
<1> DEFINE b == Head(Q)
           D == DOMAIN b
           a == Ascending(D)
           n == Cardinality(D)
           S == 1..n
           step(i, y) == Step(Q, fin, a[i], y)
           pick(T) == Max(T)
           Def(g) == [T \in SUBSET S |-> IF T = {} THEN s ELSE step(pick(T), g[T \ {pick(T)}])]
           fold == CHOOSE g : g = Def(g)
           X == {y \in StateType : Partway(s, y)}
           F == [z \in S \X X |-> IF z[2].req[a[z[1]]] = s.req[a[z[1]]]
                                    THEN step(z[1], z[2]) ELSE z[2]]
           c == [T \in SUBSET S |-> pick(T)]
<1>1. /\ Sound(s, Q) /\ Q # <<>> /\ Good(s) /\ s.fault = {} /\ Q \in Seq(Batches)
      /\ Len(Q) =< Depth /\ s \in StateType
  BY SoundFacts DEF Judged
<1>2. D \in SUBSET Reqs
  <2>1. b \in Batches
    BY <1>1, QueueTail
  <2> QED
    BY <2>1 DEF Batches
<1>3. D \in SUBSET Nat /\ IsFiniteSet(D)
  <2>1. Reqs \subseteq Nat /\ IsFiniteSet(Reqs)
    BY PoolAssumption
  <2> QED
    BY <1>2, <2>1, FS_Subset
<1> HIDE DEF D
<1>4. /\ n \in Nat /\ a \in Seq(D) /\ Len(a) = n
      /\ \A i, j \in 1..n : a[i] = a[j] => i = j
      /\ \A x \in D : \E i \in 1..n : a[i] = x
  BY <1>3, AscendingFacts
<1>5. DOMAIN a = S /\ \A i \in S : a[i] \in D
  BY <1>4
<1>6. Results(s, Q, fin) = fold[S]
  <2>1. Results(s, Q, fin) = (CHOOSE g : g = [T \in SUBSET (DOMAIN a) |->
           IF T = {} THEN s ELSE step(pick(T), g[T \ {pick(T)}])])[DOMAIN a]
    BY DEF Results, FoldLeft, MapThenFoldSet, Step, D
  <2> QED
    BY <1>5, <2>1
<1>7. s \in X
  <2>1. Budget(s.req) \in Int
    <3>1. /\ Budget(s.req) = Available(s) + s.tree.evictable_size_
          /\ Available(s) \in Nat /\ s.tree.evictable_size_ \in Nat
      BY <1>1, Accounting
    <3> QED
      BY <3>1
  <2>2. Partway(s, s)
    BY <1>1, <2>1 DEF Partway
  <2> QED
    BY <1>1, <2>2
<1>8. \A T \in SUBSET S : T # {} => pick(T) \in T
  <2> HIDE DEF n
  <2> QED
    BY <1>4, MaxIn
<1>9. IsFiniteSet(S)
  <2> HIDE DEF n
  <2> QED
    BY <1>4, FS_Interval
<1> HIDE DEF pick, a, n
<1>10. ASSUME NEW i \in S, NEW y \in X, y.req[a[i]] = s.req[a[i]]
       PROVE  /\ step(i, y) \in X /\ Done(step(i, y), Q, a[i])
              /\ \A x \in Reqs : x # a[i] => step(i, y).req[x] = y.req[x]
  <2> DEFINE r == a[i]
             u == Step(Q, fin, r, y)
  <2>1. r \in DOMAIN Head(Q) /\ r \in Reqs
    BY <1>2, <1>5 DEF D
  <2>2. Partway(s, y) /\ y.req[r] = s.req[r]
    BY <1>10
  <2> HIDE DEF r
  <2>3. /\ Partway(s, u) /\ Done(u, Q, r)
        /\ \A x \in Reqs : x # r => u.req[x] = y.req[x]
    BY <2>1, <2>2, StepOK
  <2>4. u \in StateType
    BY <2>3, GoodFacts DEF Partway
  <2> QED
    BY <2>3, <2>4 DEF r
<1>11. X \subseteq StateType
  OBVIOUS
<1>12. \A y \in X : Partway(s, y)
  OBVIOUS
<1> HIDE DEF X
<1> HIDE DEF step
<1>13. /\ F \in [S \X X -> X]
       /\ \A i \in S, y \in X :
            F[<<i, y>>] = IF y.req[a[i]] = s.req[a[i]] THEN step(i, y) ELSE y
  <2>1. \A i \in S, y \in X : y.req[a[i]] = s.req[a[i]] => step(i, y) \in X
    BY <1>10
  <2> QED
    BY <2>1
<1>14. \A T \in SUBSET S : c[T] = pick(T) /\ (T # {} => c[T] \in T)
  BY <1>8
<1> HIDE DEF F, c
<1>15. PICK g : IsFold(g, SUBSET S, X, s, F, c)
  BY <1>7, <1>9, <1>13, <1>14, FoldExists
<1> DEFINE OK(T) == /\ \A i \in T : Done(g[T], Q, a[i])
                    /\ \A x \in Reqs : (\A i \in T : a[i] # x) => g[T].req[x] = s.req[x]
<1>16. /\ g \in [SUBSET S -> X] /\ g[{}] = s
       /\ \A T \in SUBSET S : T # {} => g[T] = F[<<pick(T), g[T \ {pick(T)}]>>]
  BY <1>14, <1>15 DEF IsFold
<1>17. ASSUME NEW T \in SUBSET S, T # {}, OK(T \ {pick(T)})
       PROVE  g[T] = step(pick(T), g[T \ {pick(T)}]) /\ OK(T)
  <2> DEFINE x == pick(T)
             V == T \ {x}
             y == g[V]
             u == step(x, y)
  <2>1. x \in T /\ x \in S /\ V \in SUBSET S
    BY <1>8, <1>17
  <2>2. y \in X
    BY <1>16, <2>1
  <2>3. a[x] \in Reqs
    BY <1>2, <1>5, <2>1
  <2>4. \A i \in V : a[i] # a[x]
    BY <1>4, <2>1
  <2>5. y.req[a[x]] = s.req[a[x]]
    BY <1>17, <2>3, <2>4
  <2>6. g[T] = u
    <3>1. g[T] = F[<<x, y>>]
      BY <1>16, <1>17
    <3>2. F[<<x, y>>] = IF y.req[a[x]] = s.req[a[x]] THEN step(x, y) ELSE y
      BY <1>13, <2>1, <2>2
    <3> HIDE DEF x, y
    <3>3. F[<<x, y>>] = step(x, y)
      BY <2>5, <3>2
    <3> QED
      BY <3>1, <3>3
  <2>7. /\ Done(u, Q, a[x]) /\ \A z \in Reqs : z # a[x] => u.req[z] = y.req[z]
    BY <1>10, <2>1, <2>2, <2>5
  <2> HIDE DEF x
  <2>8. \A i \in V : Done(y, Q, a[i])
    BY <1>17 DEF x
  <2>9. \A i \in T : Done(u, Q, a[i])
    <3>1. ASSUME NEW i \in T, i # x
          PROVE  Done(u, Q, a[i])
      <4>1. i \in V /\ i \in S
        BY <3>1
      <4>2. a[i] \in Reqs /\ a[i] # a[x]
        BY <1>2, <1>5, <2>4, <4>1
      <4>3. u.req[a[i]] = y.req[a[i]]
        BY <2>7, <4>2
      <4>4. Done(y, Q, a[i])
        BY <2>8, <4>1
      <4> QED
        BY <4>3, <4>4 DEF Done
    <3> QED
      BY <2>7, <3>1
  <2>10. \A z \in Reqs : (\A i \in V : a[i] # z) => y.req[z] = s.req[z]
    BY <1>17 DEF x
  <2>11. \A z \in Reqs : (\A i \in T : a[i] # z) => u.req[z] = s.req[z]
    BY <2>1, <2>7, <2>10
  <2> HIDE DEF u
  <2>12. OK(T)
    BY <2>6, <2>9, <2>11
  <2> QED
    BY <2>6, <2>12 DEF x, u
<1>18. ASSUME NEW T \in SUBSET S
       PROVE  OK(T)
  <2> DEFINE Flawed == {U \in SUBSET S : ~OK(U)}
  <2>1. Flawed = {}
    <3>1. SUFFICES ASSUME Flawed # {}
                   PROVE  FALSE
      OBVIOUS
    <3>2. PICK U \in Flawed : \A V \in SUBSET U : V # U => V \notin Flawed
      <4>1. Flawed \subseteq SUBSET S
        OBVIOUS
      <4> HIDE DEF Flawed
      <4> QED
        BY <1>9, <3>1, <4>1, SmallestFlawed
    <3>3. U \in SUBSET S /\ ~OK(U)
      BY <3>2
    <3>4. CASE U = {}
      BY <1>16, <3>3, <3>4
    <3>5. CASE U # {}
      <4> DEFINE V == U \ {pick(U)}
      <4>1. V \in SUBSET U /\ V # U /\ V \in SUBSET S
        BY <1>8, <3>3, <3>5
      <4>2. OK(V)
        BY <3>2, <4>1
      <4> HIDE DEF OK
      <4> QED
        BY <1>17, <3>3, <3>5, <4>2
    <3> QED
      BY <3>4, <3>5
  <2> HIDE DEF OK
  <2> QED
    BY <2>1
<1>19. \A T \in SUBSET S : g[T] = IF T = {} THEN s ELSE step(pick(T), g[T \ {pick(T)}])
  <2>1. ASSUME NEW T \in SUBSET S, T # {}
        PROVE  g[T] = step(pick(T), g[T \ {pick(T)}])
    <3>1. T \ {pick(T)} \in SUBSET S
      OBVIOUS
    <3> HIDE DEF OK
    <3>2. OK(T \ {pick(T)})
      BY <1>18, <3>1
    <3> QED
      BY <1>17, <2>1, <3>2
  <2> QED
    BY <1>16, <2>1
<1>20. g = Def(g)
  BY <1>16, <1>19
<1>21. fold = Def(fold)
  <2> HIDE DEF Def
  <2> QED
    BY <1>20
<1> HIDE DEF fold
<1>22. \A T \in SUBSET S : fold[T] = IF T = {} THEN s ELSE step(pick(T), fold[T \ {pick(T)}])
  BY <1>21
<1> HIDE DEF OK
<1>23. fold[S] = g[S]
  <2> DEFINE Flawed == {U \in SUBSET S : fold[U] # g[U]}
  <2>1. Flawed = {}
    <3>1. SUFFICES ASSUME Flawed # {}
                   PROVE  FALSE
      OBVIOUS
    <3>2. PICK U \in Flawed : \A V \in SUBSET U : V # U => V \notin Flawed
      <4>1. Flawed \subseteq SUBSET S
        OBVIOUS
      <4> HIDE DEF Flawed
      <4> QED
        BY <1>9, <3>1, <4>1, SmallestFlawed
    <3>3. U \in SUBSET S /\ fold[U] # g[U]
      BY <3>2
    <3>4. CASE U = {}
      BY <1>19, <1>22, <3>3, <3>4
    <3>5. CASE U # {}
      <4> DEFINE V == U \ {pick(U)}
      <4>1. V \in SUBSET U /\ V # U /\ V \in SUBSET S
        BY <1>8, <3>3, <3>5
      <4>2. fold[V] = g[V]
        BY <3>2, <4>1
      <4>3. fold[U] = step(pick(U), fold[V]) /\ g[U] = step(pick(U), g[V])
        BY <1>19, <1>22, <3>3, <3>5
      <4> QED
        BY <3>3, <4>2, <4>3
    <3> QED
      BY <3>4, <3>5
  <2> QED
    BY <2>1
<1> DEFINE w == g[S]
<1>24. OK(S) /\ w \in X
  BY <1>16, <1>18
<1>25. Partway(s, w)
  BY <1>12, <1>24
<1>26. ASSUME NEW r \in Reqs
       PROVE  Done(w, Q, r)
  <2>1. CASE r \in D
    <3>1. PICK i \in S : a[i] = r
      BY <1>4, <2>1
    <3> QED
      BY <1>24, <3>1 DEF OK
  <2>2. CASE r \notin D
    <3>1. w.req[r] = s.req[r]
      BY <1>5, <1>24, <2>2 DEF OK
    <3>2. Done(s, Q, r)
      BY <1>1, <2>2, OthersDone DEF D
    <3> QED
      BY <3>1, <3>2 DEF Done
  <2> QED
    BY <2>1, <2>2
<1> HIDE DEF w
<1>27. Sound(w, Tail(Q))
  BY <1>1, <1>25, <1>26, AllDone
<1> QED
  BY <1>6, <1>23, <1>27 DEF w

\* process_batch_result keeps the invariant.
LEMMA ProcessBatchResultStep ==
  ASSUME Sound(State, queue), ProcessBatchResult
  PROVE  Sound(State', queue')
<1> DEFINE b == Head(queue)
           live == {r \in DOMAIN b : req[r].st = "running" /\ b[r] # "chunk"}
<1>1. queue # <<>> /\ queue' = Tail(queue)
  BY DEF ProcessBatchResult
<1>2. PICK fin \in SUBSET live : /\ \A r \in live : MustFinish(r) => r \in fin
                                 /\ Becomes(Results(State, queue, fin))
  BY Zenon DEF ProcessBatchResult, Results
<1>3. Judged(State, queue, fin)
  <2>1. ASSUME NEW r \in DOMAIN b, req[r].st = "running", b[r] # "chunk",
               req[r].known + 1 - req[r].plen >= req[r].max_new
        PROVE  r \in fin
    <3>1. r \in live /\ MustFinish(r)
      BY <2>1 DEF MustFinish
    <3> QED
      BY <1>2, <3>1
  <2> QED
    BY <1>1, <2>1, StateIs DEF Judged
<1> DEFINE u == Results(State, queue, fin)
<1>4. Sound(u, Tail(queue))
  BY <1>3, ResultsSound
<1>5. Becomes(u)
  BY <1>2
<1> HIDE DEF u
<1>6. u \in StateType
  BY <1>4, SoundFacts
<1>7. State' = u
  BY <1>5, <1>6, BecomesState
<1> QED
  BY <1>1, <1>4, <1>7

-----------------------------------------------------------------------------
(* The invariant                                                           *)

\* Every action keeps the invariant.
LEMMA KVInvStep ==
  ASSUME KVInv, [Next]_vars
  PROVE  KVInv'
<1>0. Sound(State, queue)
  BY DEF KVInv
<1>1. SUFFICES Sound(State', queue')
  BY DEF KVInv
<1>2. ASSUME NEW r \in Reqs, NEW q \in Sent, Arrive(r, q)
      PROVE  Sound(State', queue')
  BY <1>0, <1>2, ArriveStep
<1>3. ASSUME NEW r \in Reqs, AddOneReq(r)
      PROVE  Sound(State', queue')
  BY <1>0, <1>3, AddOneReqStep
<1>4. ASSUME NEW r \in Reqs, RejectReq(r)
      PROVE  Sound(State', queue')
  BY <1>0, <1>4, RejectReqStep
<1>5. ASSUME NEW r \in Reqs, NEW n \in 1..ChunkSize, NextChunk(r, n)
      PROVE  Sound(State', queue')
  BY <1>0, <1>5, NextChunkStep
<1>6. CASE UpdateRunningBatch
  BY <1>0, <1>6, UpdateRunningBatchStep
<1>7. CASE RetractDecode
  BY <1>0, <1>7, RetractDecodeStep
<1>8. CASE ProcessBatchResult
  BY <1>0, <1>8, ProcessBatchResultStep
<1>9. ASSUME NEW r \in Reqs, AbortWaiting(r)
      PROVE  Sound(State', queue')
  BY <1>0, <1>9, AbortWaitingStep
<1>10. ASSUME NEW r \in Reqs, AbortChunked(r)
       PROVE  Sound(State', queue')
  BY <1>0, <1>10, AbortChunkedStep
<1>11. CASE FlushCache
  BY <1>0, <1>11, FlushStep
<1>12. CASE UNCHANGED vars
  <2>1. State' = State /\ queue' = queue
    BY <1>12 DEF vars, State
  <2> QED
    BY <1>0, <2>1
<1> QED
  BY <1>2, <1>3, <1>4, <1>5, <1>6, <1>7, <1>8, <1>9, <1>10, <1>11, <1>12 DEF Next

\* Whatever the constants are, the cache, the pool, the rows and the batches
\* in flight stay sound through every interleaving of arrivals, prefills,
\* decodes, retractions, results, aborts and flushes.
THEOREM CacheInv == Spec => []KVInv
<1>1. Init => KVInv
  BY InitSound DEF KVInv
<1>2. KVInv /\ [Next]_vars => KVInv'
  BY KVInvStep
<1> QED
  BY <1>1, <1>2, PTL DEF Spec

-----------------------------------------------------------------------------
(* What it says about the properties the runs check                        *)

\* The live requests are the ones that hold KV.
LEMMA LiveFacts ==
  ASSUME KVInv
  PROVE  /\ Good(State) /\ State \in StateType /\ Live \in SUBSET Reqs
         /\ \A r \in Reqs : req[r] \in ReqType /\ RowShape(req[r]) /\ Settled(req[r])
         /\ \A r \in Live : /\ req[r].cache_protected_len =< req[r].kv_len
                            /\ Covered(req[r]) = req[r].kv_len
         /\ \A r \in Reqs \ Live : Empty(req[r])
<1>1. Sound(State, queue)
  BY DEF KVInv
<1>2. /\ Good(State) /\ State \in StateType
      /\ \A r \in Reqs : req[r] \in ReqType /\ RowShape(req[r]) /\ Settled(req[r])
  BY <1>1, SoundFacts, StateIs
<1>3. Live \in SUBSET Reqs
      /\ \A r \in Reqs : r \in Live <=> req[r].st \in {"chunked", "running"}
  BY DEF Live, InState
<1>4. \A r \in Reqs \ Live : Empty(req[r])
  BY <1>2, <1>3 DEF Settled
<1>5. ASSUME NEW r \in Live
      PROVE  req[r].cache_protected_len =< req[r].kv_len /\ Covered(req[r]) = req[r].kv_len
  <2> DEFINE q == req[r]
  <2>1. q \in ReqType /\ RowShape(q) /\ Settled(q) /\ q.st \in {"chunked", "running"}
    BY <1>2, <1>3
  <2>2. q.kv_len \in Nat /\ q.cache_protected_len \in Nat /\ q.fill \in Nat
    BY <2>1, RowFacts
  <2>3. q.cache_protected_len =< q.fill /\ q.fill =< q.kv_len
    BY <2>1 DEF Settled
  <2> HIDE DEF q
  <2>4. q.cache_protected_len =< q.kv_len
    BY <2>2, <2>3
  <2>5. Covered(q) = q.kv_len
    BY <2>2, <2>4 DEF Covered
  <2> QED
    BY <2>4, <2>5 DEF q
<1> QED
  BY <1>2, <1>3, <1>4, <1>5

\* What invariant_checker adds up per request is what the request owns.
LEMMA Uncached ==
  ASSUME KVInv
  PROVE  LET w == [r \in Reqs |-> CeilAlign(req[r].kv_len) - req[r].cache_protected_len]
         IN  SumFunctionOnSet(w, Live) = OwnSum(req) * PageSize
<1> DEFINE w == [r \in Reqs |-> CeilAlign(req[r].kv_len) - req[r].cache_protected_len]
           o == [r \in Reqs |-> Cardinality(OwnAt(req[r]))]
<1>1. /\ Live \in SUBSET Reqs
      /\ \A r \in Reqs : req[r] \in ReqType /\ RowShape(req[r])
      /\ \A r \in Live : Covered(req[r]) = req[r].kv_len
      /\ \A r \in Reqs \ Live : Empty(req[r])
  BY LiveFacts
<1>2. IsFiniteSet(Reqs)
  BY PoolAssumption
<1>3. ASSUME NEW r \in Reqs
      PROVE  w[r] \in Nat /\ o[r] \in Nat /\ w[r] = o[r] * PageSize /\ (r \notin Live => w[r] = 0)
  <2> DEFINE q == req[r]
             c == q.cache_protected_len \div PageSize
             n == Len(q.row)
  <2>0. o[r] = Cardinality(OwnAt(q)) /\ w[r] = CeilAlign(q.kv_len) - q.cache_protected_len
    OBVIOUS
  <2> HIDE DEF o, w
  <2>1. o[r] = n - c /\ o[r] \in Nat /\ c \in Nat /\ n \in Nat
    BY <1>1, <2>0, OwnCount
  <2>2. Covered(q) = q.kv_len
    BY <1>1 DEF Empty, Covered
  <2>3. /\ n * PageSize = CeilAlign(q.kv_len) /\ q.cache_protected_len \in Nat
        /\ q.cache_protected_len % PageSize = 0 /\ q.kv_len \in Nat
    BY <1>1, <2>2, RowFacts
  <2>4. q.cache_protected_len = c * PageSize
    BY <2>3, PageDivision
  <2>5. w[r] = n * PageSize - c * PageSize
    BY <2>0, <2>3, <2>4
  <2>6. ASSUME NEW a \in Nat, NEW b \in Nat
        PROVE  a * PageSize - b * PageSize = (a - b) * PageSize
    BY PageSizeFacts
  <2> HIDE DEF n, c, q
  <2>7. w[r] = o[r] * PageSize
    BY <2>1, <2>5, <2>6
  <2>8. w[r] \in Nat
    BY <2>1, <2>7, PageSizeFacts
  <2>9. ASSUME r \notin Live
        PROVE  w[r] = 0
    <3>1. Empty(q)
      BY <1>1, <2>9 DEF q
    <3>2. q.kv_len = 0 /\ q.cache_protected_len = 0
      BY <3>1 DEF Empty
    <3>3. CeilAlign(0) = 0
      BY PageSizeFacts, CeilOrder
    <3> QED
      BY <2>0, <3>2, <3>3
  <2> QED
    BY <2>1, <2>7, <2>8, <2>9
<1>4. OwnSum(req) = SumFunctionOnSet(o, Reqs)
  BY DEF OwnSum
<1> HIDE DEF w, o
<1>5. SumFunctionOnSet(w, Reqs) = SumFunctionOnSet(w, Live)
  BY <1>1, <1>2, <1>3, SumSupport
<1>6. SumFunctionOnSet(w, Reqs) = SumFunctionOnSet(o, Reqs) * PageSize
  BY <1>2, <1>3, PageSizeFacts, SumScale
<1> QED
  BY <1>4, <1>5, <1>6 DEF w

\* The type invariant.
LEMMA InvTypeOK ==
  ASSUME KVInv
  PROVE  TypeOK
<1>1. /\ Good(State) /\ State \in StateType /\ Live \in SUBSET Reqs
      /\ \A r \in Reqs : req[r] \in ReqType /\ RowShape(req[r]) /\ Settled(req[r])
      /\ \A r \in Live : Covered(req[r]) = req[r].kv_len
      /\ \A r \in Reqs \ Live : Empty(req[r])
  BY LiveFacts
<1>2. free \subseteq Pages
  BY <1>1, StateIs, StateFacts
<1>3. /\ DOMAIN tree.lock_ref = tree.nodes
      /\ \A r \in Reqs : req[r].last_node \in tree.nodes \cup {Root}
  <2>1. TreeShape(State.tree)
        /\ \A r \in Reqs : State.req[r].last_node \in State.tree.nodes \cup {Root}
    BY <1>1, GoodFacts
  <2> QED
    BY <2>1, StateIs DEF TreeShape
<1>4. Len(queue) =< Depth
  BY DEF KVInv, Sound
<1>5. ASSUME NEW r \in Reqs
      PROVE  /\ req[r].st \in {"idle", "waiting", "chunked", "running"}
             /\ ToSet(req[r].row) \subseteq Pages
             /\ Len(req[r].row) * PageSize = CeilAlign(req[r].kv_len)
  <2>1. req[r].st \in {"idle", "waiting", "chunked", "running"} /\ req[r].row \in Seq(Pages)
    BY <1>1 DEF ReqType
  <2>2. ToSet(req[r].row) \subseteq Pages
    BY <2>1 DEF ToSet
  <2>3. Covered(req[r]) = req[r].kv_len
    BY <1>1 DEF Empty, Covered
  <2>4. Len(req[r].row) * PageSize = CeilAlign(req[r].kv_len)
    BY <1>1, <2>3, RowFacts
  <2> QED
    BY <2>1, <2>2, <2>4
<1> QED
  BY <1>2, <1>3, <1>4, <1>5 DEF TypeOK

\* The page census.
LEMMA InvOneOwner ==
  ASSUME KVInv
  PROVE  OneOwnerPerPage
<1>1. Good(State) /\ Live \in SUBSET Reqs
  BY LiveFacts
<1>2. PagesOK(tree.value, free, req, kv)
  BY <1>1, GoodFacts, StateIs
<1>3. \A p \in DOMAIN tree.value : tree.value[p] \in Pages \ free /\ kv[tree.value[p]] = p
  BY <1>2 DEF PagesOK, TreePagesOK
<1>4. free \cap TreePages = {}
  BY <1>3 DEF TreePages
<1>5. \A p, q \in DOMAIN tree.value : tree.value[p] = tree.value[q] => p = q
  BY <1>3
<1>6. \A r \in Reqs : OwnPages(r) = {req[r].row[i] : i \in OwnAt(req[r])}
  BY DEF OwnPages, OwnAt
<1>7. \A r \in Live : OwnPages(r) \cap (free \cup TreePages) = {}
  <2>1. \A r \in Reqs : OwnsRest(tree.value, free, req[r], kv)
    BY <1>2 DEF PagesOK
  <2> QED
    BY <1>1, <1>6, <2>1 DEF OwnsRest, TreePages
<1>8. \A r, s \in Live : r # s => OwnPages(r) \cap OwnPages(s) = {}
  <2>1. NoSharing(req)
    BY <1>2 DEF PagesOK
  <2> QED
    BY <1>1, <1>6, <2>1 DEF NoSharing
<1> QED
  BY <1>4, <1>5, <1>7, <1>8 DEF OneOwnerPerPage

\* The sum of the invariant checker.
LEMMA InvNoLeak ==
  ASSUME KVInv
  PROVE  NoMemoryLeak
<1> DEFINE s == State
           w == [r \in Reqs |-> CeilAlign(req[r].kv_len) - req[r].cache_protected_len]
           a == Cardinality(s.free)
           b == Cardinality(DOMAIN s.tree.value)
           c == OwnSum(s.req)
           e == s.tree.evictable_size_
           p == s.tree.protected_size_
<1>1. Good(s)
  BY LiveFacts
<1>2. NumPages = a + b + c /\ a \in Nat /\ c \in Nat
  BY <1>1, Accounting
<1>3. IsFiniteSet(DOMAIN s.tree.value) /\ e + p = b * PageSize /\ e \in Nat /\ p \in Nat
  BY <1>1, TreePagesCount
<1>4. b \in Nat
  BY <1>3, FS_CardinalityType
<1>5. SumFunctionOnSet(w, Live) = c * PageSize
  BY Uncached, StateIs
<1>6. Available(s) = a * PageSize /\ tree.evictable_size_ = e /\ tree.protected_size_ = p
  BY StateIs DEF Available
<1>7. ASSUME NEW x \in Nat, NEW y \in Nat, NEW z \in Nat
      PROVE  (x + y + z) * PageSize = x * PageSize + y * PageSize + z * PageSize
  BY PageSizeFacts
<1> HIDE DEF a, b, c, e, p, w
<1>8. NumPages * PageSize = a * PageSize + b * PageSize + c * PageSize
  BY <1>2, <1>4, <1>7
<1>9. a * PageSize \in Nat /\ b * PageSize \in Nat /\ c * PageSize \in Nat
  BY <1>2, <1>4, PageSizeFacts
<1>10. a * PageSize + e + p + c * PageSize = NumPages * PageSize
  BY <1>3, <1>8, <1>9
<1> QED
  BY <1>5, <1>6, <1>10 DEF NoMemoryLeak, w

\* Only live requests hold nodes.
LEMMA InvLocks ==
  ASSUME KVInv
  PROVE  LocksAreHolders
<1>1. Good(State) /\ Live \in SUBSET Reqs /\ \A r \in Reqs \ Live : Empty(req[r])
  BY LiveFacts
<1>2. /\ TreeOK(tree, Hold(req)) /\ TreeShape(tree) /\ DOMAIN Hold(req) = Reqs
      /\ \A r \in Reqs : Hold(req)[r] = req[r].last_node
  BY <1>1, GoodFacts, StateIs
<1>3. ASSUME NEW n \in tree.nodes
      PROVE  tree.lock_ref[n] = Cardinality({r \in Live : IsPrefix(n, req[r].last_node)})
  <2>1. tree.lock_ref[n] = Cardinality({r \in DOMAIN Hold(req) : IsPrefix(n, Hold(req)[r])})
    BY <1>2 DEF TreeOK, Locked
  <2>2. n \in Path /\ n # Root
    BY <1>2, ShapeFacts DEF IsPagePath
  <2>3. ~IsPrefix(n, Root)
    BY <2>2, OnlyRootAboveRoot
  <2>4. \A r \in Reqs : IsPrefix(n, req[r].last_node) => r \in Live
    BY <1>1, <2>3 DEF Empty
  <2>5. {r \in DOMAIN Hold(req) : IsPrefix(n, Hold(req)[r])}
          = {r \in Live : IsPrefix(n, req[r].last_node)}
    BY <1>1, <1>2, <2>4
  <2> QED
    BY <2>1, <2>5
<1> QED
  BY <1>3 DEF LocksAreHolders

\* The counters are part of TreeOK.
LEMMA InvCounters ==
  ASSUME KVInv
  PROVE  CountersExact
<1>1. Good(State)
  BY LiveFacts
<1>2. TreeOK(tree, Hold(req))
  BY <1>1, GoodFacts, StateIs
<1> QED
  BY <1>2 DEF TreeOK, Sized, LeavesExact, Loose, Held, CountersExact

\* Branches part at nodes.
LEMMA InvSiblings ==
  ASSUME KVInv
  PROVE  SiblingsDiffer
<1>1. Good(State)
  BY LiveFacts
<1>2. TreeShape(tree)
  BY <1>1, GoodFacts, StateIs
<1> QED
  BY <1>2, BranchesAtNodes DEF SiblingsDiffer

\* The protected pages of a row hold what the tree says, the others what it owns.
LEMMA InvKVMatches ==
  ASSUME KVInv
  PROVE  KVMatchesTokens
<1>1. /\ Good(State) /\ Live \in SUBSET Reqs
      /\ \A r \in Reqs : req[r] \in ReqType /\ RowShape(req[r])
      /\ \A r \in Live : req[r].cache_protected_len =< req[r].kv_len
  BY LiveFacts
<1>2. PagesOK(tree.value, free, req, kv)
  BY <1>1, GoodFacts, StateIs
<1>3. \A p \in DOMAIN tree.value : kv[tree.value[p]] = p
  BY <1>2 DEF PagesOK, TreePagesOK
<1>4. ASSUME NEW r \in Live, NEW i \in DOMAIN req[r].row
      PROVE  kv[req[r].row[i]] = SubSeq(req[r].toks, 1, Min({i * PageSize, req[r].kv_len}))
  <2> DEFINE q == req[r]
             c == q.cache_protected_len \div PageSize
  <2>1. /\ q \in ReqType /\ RowShape(q) /\ q.cache_protected_len =< q.kv_len /\ r \in Reqs
    BY <1>1
  <2>2. /\ Len(q.row) \in Nat /\ q.row \in Seq(Pages) /\ q.cache_protected_len \in Nat
        /\ q.kv_len \in Nat /\ q.cache_protected_len % PageSize = 0
        /\ c \in 0..Len(q.row)
    BY <2>1, RowFacts
  <2>3. i \in 1..Len(q.row)
    BY <2>2
  <2>4. CASE i =< c
    <3>1. i \in 1..c
      BY <2>2, <2>3, <2>4
    <3>2. /\ PagePrefix(q.toks, i) \in DOMAIN tree.value
          /\ q.row[i] = tree.value[PagePrefix(q.toks, i)]
      BY <1>2, <2>1, <3>1 DEF PagesOK, ReadsTree
    <3>3. kv[q.row[i]] = PagePrefix(q.toks, i)
      BY <1>3, <3>2
    <3>4. i * PageSize =< q.kv_len /\ i * PageSize \in Int
      <4>1. q.cache_protected_len = c * PageSize
        BY <2>2, PageDivision
      <4>2. i * PageSize =< c * PageSize /\ i * PageSize \in Int
        <5> HIDE DEF c
        <5>1. i \in Int /\ c \in Int
          BY <2>2, <2>3
        <5> QED
          BY <2>4, <5>1, PageMonotone, PageSizeFacts
      <4> QED
        BY <2>1, <2>2, <4>1, <4>2
    <3>5. Min({i * PageSize, q.kv_len}) = i * PageSize
      BY <2>2, <3>4, MinPair
    <3>6. PagePrefix(q.toks, i) = SubSeq(q.toks, 1, i * PageSize)
      BY DEF PagePrefix
    <3> QED
      BY <3>3, <3>5, <3>6
  <2>5. CASE ~(i =< c)
    <3>1. i \in OwnAt(q)
      BY <2>2, <2>3, <2>5 DEF OwnAt
    <3>2. kv[q.row[i]] = Content(q, i)
      BY <1>2, <2>1, <3>1 DEF PagesOK, OwnsRest
    <3> QED
      BY <3>2 DEF Content
  <2> QED
    BY <2>4, <2>5
<1> QED
  BY <1>3, <1>4 DEF KVMatchesTokens

\* No fault is part of Sound.
LEMMA InvNoFault ==
  ASSUME KVInv
  PROVE  NoFault
<1>1. State.fault = {}
  BY DEF KVInv, Sound
<1> QED
  BY <1>1, StateIs DEF NoFault

\* A row always has exactly the pages of kv_allocated_len.
THEOREM CacheTypeOK == Spec => []TypeOK
<1>1. KVInv => TypeOK
  BY InvTypeOK
<1> QED
  BY <1>1, CacheInv, PTL

\* The page census of _check_kv_page_invariants never finds a page twice.
THEOREM CacheOneOwner == Spec => []OneOwnerPerPage
<1>1. KVInv => OneOwnerPerPage
  BY InvOneOwner
<1> QED
  BY <1>1, CacheInv, PTL

\* The sum of the invariant checker always comes to the whole pool.
THEOREM CacheNoLeak == Spec => []NoMemoryLeak
<1>1. KVInv => NoMemoryLeak
  BY InvNoLeak
<1> QED
  BY <1>1, CacheInv, PTL

\* A lock_ref is always the number of live requests at or below the node.
THEOREM CacheLocks == Spec => []LocksAreHolders
<1>1. KVInv => LocksAreHolders
  BY InvLocks
<1> QED
  BY <1>1, CacheInv, PTL

\* evictable_size_, protected_size_ and evictable_leaves never drift.
THEOREM CacheCounters == Spec => []CountersExact
<1>1. KVInv => CountersExact
  BY InvCounters
<1> QED
  BY <1>1, CacheInv, PTL

\* Branches of the tree always part at a node.
THEOREM CacheSiblings == Spec => []SiblingsDiffer
<1>1. KVInv => SiblingsDiffer
  BY InvSiblings
<1> QED
  BY <1>1, CacheInv, PTL

\* No request ever reads KV that was computed from other tokens than its own.
THEOREM CacheServesItsTokens == Spec => []KVMatchesTokens
<1>1. KVInv => KVMatchesTokens
  BY InvKVMatches
<1> QED
  BY <1>1, CacheInv, PTL

\* What the admission budget approved is always there: no allocation fails, no
\* segment is unaligned, no page is freed twice and the last request that
\* runs is never aborted for memory.
THEOREM CacheNoFault == Spec => []NoFault
<1>1. KVInv => NoFault
  BY InvNoFault
<1> QED
  BY <1>1, CacheInv, PTL

==============================================================================
