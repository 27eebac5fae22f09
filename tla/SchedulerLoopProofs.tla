------------------------ MODULE SchedulerLoopProofs ------------------------
(***************************************************************************)
(* The safety properties of module SchedulerLoop hold for every pool, page *)
(* size, chunk size, batch limit, set of request slots and set of prompts, *)
(* in both event loops; two of them need a page of at most five tokens or  *)
(* a context that leaves a page of the pool unused (Roomy).                *)
(*                                                                         *)
(* LoopInv(s, ov) is the invariant between two passes of the loop.  The    *)
(* properties alone are not inductive: that no allocation fails needs how  *)
(* much KV each request holds (Holds), that a chunked request has the rest *)
(* of its pages in reserve (ChunkedOK) and that a request alone in the     *)
(* pool fits (ReqOK).  A pass goes through stages, each with a predicate   *)
(* of its own: Aborted and Ready before a batch is chosen, Posted when it  *)
(* is launched.  PendingAbortOK, MergeOK and FilterPrefillOnlyOK lead to   *)
(* Ready, LaunchPrefillOK, LaunchDecodeOK, RetractDecodeOK and NothingOK   *)
(* to Posted (NextBatchOK), and DueOK and NotDueOK back to LoopInv.        *)
(***************************************************************************)
EXTENDS SchedulerLoop, SequenceTheorems, SetSums

-----------------------------------------------------------------------------
(* Admission: when does the clipping of init_req_max_new_tokens agree with  *)
(* the budget of PrefillAdder?  For every capacity, provided a page is at   *)
(* most five tokens or the context leaves a page of the pool unused.        *)

\* Aligning up adds less than a page.
LEMMA CeilPagedBounds ==
  ASSUME NEW n \in Nat
  PROVE  /\ CeilPaged(n) \in Nat
         /\ n =< CeilPaged(n)
         /\ CeilPaged(n) < n + PageSize
<1>1. PageSize \in Nat /\ PageSize > 0
  BY CapacityAssumption
<1> DEFINE k == (n + PageSize - 1) \div PageSize
<1>2. k \in Nat /\ k * PageSize =< n + PageSize - 1 /\ n + PageSize - 1 < (k + 1) * PageSize
  BY <1>1
<1> HIDE DEF k
<1>3. (k + 1) * PageSize = k * PageSize + PageSize /\ k * PageSize \in Nat
  BY <1>1, <1>2
<1>4. CeilPaged(n) = k * PageSize
  BY DEF CeilPaged, k
<1> QED
  BY <1>1, <1>2, <1>3, <1>4

\* What the clipped max_new_tokens can be: nothing, or something that the
\* request's own length leaves room for in the pool and in the context.
LEMMA ClippedNewTokens ==
  ASSUME NEW input \in Nat, NEW want \in Nat
  PROVE  LET new == InitReqMaxNewTokens(input, want)
         IN  /\ new \in Nat
             /\ \/ new = 0
                \/ /\ input + new + PageSize < TokenCapacity
                   /\ input + new < MaxReqLen
<1>1. /\ TokenCapacity \in Nat /\ PageSize \in Nat /\ ContextLen \in Nat
      /\ MaxReqLen \in Int
  BY CapacityAssumption DEF MaxReqLen, Least
<1>2. CeilPaged(input) \in Nat /\ input =< CeilPaged(input)
  BY CeilPagedBounds
<1> QED
  BY <1>1, <1>2 DEF InitReqMaxNewTokens, MaxNewTokensForMemory, Least, Greatest

\* A request that handle_generate_request lets through, cut or refused
\* passes the first gate of add_one_req in an empty pool, so it cannot block
\* the head of the waiting queue for ever, if a page is at most five tokens
\* or the context leaves a page unused.
THEOREM QueuedRequestFits ==
  ASSUME PageSize =< 5 \/ ContextLen + PageSize =< TokenCapacity,
         NEW input \in Nat \ {0}, NEW want \in Nat
  PROVE  LET q == HandleGenerateRequest(input, want)
         IN  FitsEmptyPool(q.len, q.max_new)
<1> DEFINE new == InitReqMaxNewTokens(input, want)
           len == IF ~TooLong(input) THEN input
                  ELSE IF AllowAutoTruncate THEN MaxReqInputLen ELSE 1
<1>1. /\ HandleGenerateRequest(input, want).len = len
      /\ HandleGenerateRequest(input, want).max_new = new
  BY DEF HandleGenerateRequest
<1>2. /\ TokenCapacity \in Nat /\ PageSize \in Nat /\ ContextLen \in Nat
      /\ ContextLen > 7 /\ TokenCapacity > PageSize + 6
      /\ MaxReqLen \in Int
      /\ MaxReqLen =< ContextLen - 1 /\ MaxReqLen =< TokenCapacity - 1
      /\ MaxReqLen > 5
  BY CapacityAssumption DEF MaxReqLen, Least
<1>3. /\ new \in Nat
      /\ new = 0 \/ input + new + PageSize < TokenCapacity
  BY ClippedNewTokens
<1>4. len \in Nat /\ (len = input \/ len =< MaxReqInputLen) /\ len =< input
  BY <1>2 DEF TooLong, MaxReqInputLen
<1> HIDE DEF new
<1>5. len =< MaxReqLen - 5
  BY <1>2 DEF TooLong, MaxReqInputLen
<1> HIDE DEF len
<1>6. len + new + PageSize < TokenCapacity
  BY <1>2, <1>3, <1>4, <1>5
<1> QED
  BY <1>1, <1>6 DEF FitsEmptyPool

\* No request outgrows the context or the pool: prompt and generation stay
\* below max_req_len, a truncated prompt included.
THEOREM QueuedRequestInContext ==
  ASSUME NEW input \in Nat \ {0}, NEW want \in Nat
  PROVE  LET q == HandleGenerateRequest(input, want)
         IN  q.len + q.max_new < ContextLen /\ q.len + q.max_new < TokenCapacity
<1> DEFINE new == InitReqMaxNewTokens(input, want)
           len == IF ~TooLong(input) THEN input
                  ELSE IF AllowAutoTruncate THEN MaxReqInputLen ELSE 1
<1>1. /\ HandleGenerateRequest(input, want).len = len
      /\ HandleGenerateRequest(input, want).max_new = new
  BY DEF HandleGenerateRequest
<1>2. /\ TokenCapacity \in Nat /\ ContextLen \in Nat /\ MaxReqLen \in Int
      /\ MaxReqLen < ContextLen /\ MaxReqLen < TokenCapacity
      /\ MaxReqLen > 5
  BY CapacityAssumption DEF MaxReqLen, Least
<1>3. /\ new \in Nat
      /\ new = 0 \/ input + new < MaxReqLen
  BY ClippedNewTokens
<1>4. len \in Nat /\ len =< input /\ len =< MaxReqLen - 5
  BY <1>2 DEF TooLong, MaxReqInputLen
<1> HIDE DEF new, len
<1>5. len + new < ContextLen /\ len + new < TokenCapacity
  BY <1>2, <1>3, <1>4
<1> QED
  BY <1>1, <1>5

-----------------------------------------------------------------------------
(* Whole pages *)

\* Multiples of the page size are a page apart.
LEMMA PagesApart ==
  ASSUME NEW a \in Int, NEW b \in Int, a * PageSize < b * PageSize + PageSize
  PROVE  a =< b /\ a * PageSize =< b * PageSize
<1>1. PageSize \in Nat /\ PageSize > 0
  BY CapacityAssumption
<1>2. ASSUME NEW d \in Nat
      PROVE  (b + 1 + d) * PageSize = b * PageSize + PageSize + d * PageSize
             /\ d * PageSize \in Nat /\ b * PageSize \in Int
  BY <1>1
<1>3. a =< b
  <2>1. SUFFICES ASSUME a > b PROVE FALSE
    OBVIOUS
  <2> DEFINE d == a - b - 1
  <2>2. d \in Nat /\ a = b + 1 + d
    BY <2>1
  <2> HIDE DEF d
  <2>3. a * PageSize = b * PageSize + PageSize + d * PageSize
        /\ d * PageSize \in Nat /\ b * PageSize \in Int
    BY <1>2, <2>2
  <2> QED
    BY <1>1, <2>3
<1>4. ASSUME NEW d \in Nat
      PROVE  (a + d) * PageSize = a * PageSize + d * PageSize
             /\ d * PageSize \in Nat /\ a * PageSize \in Int
  BY <1>1
<1>5. b - a \in Nat /\ b = a + (b - a)
  BY <1>3
<1>6. b * PageSize = a * PageSize + (b - a) * PageSize
      /\ (b - a) * PageSize \in Nat /\ a * PageSize \in Int
  BY <1>4, <1>5
<1> QED
  BY <1>3, <1>6

\* Aligning up gives whole pages.
LEMMA CeilMultiple ==
  ASSUME NEW n \in Nat
  PROVE  \E k \in Nat : CeilPaged(n) = k * PageSize
<1>1. PageSize \in Nat /\ PageSize > 0
  BY CapacityAssumption
<1> DEFINE k == (n + PageSize - 1) \div PageSize
<1>2. k \in Nat
  BY <1>1
<1> QED
  BY <1>2 DEF CeilPaged

\* Aligning up gives the least multiple that is no smaller.
LEMMA CeilLeast ==
  ASSUME NEW n \in Nat, NEW k \in Nat, n =< k * PageSize
  PROVE  CeilPaged(n) =< k * PageSize
<1>1. PICK j \in Nat : CeilPaged(n) = j * PageSize
  BY CeilMultiple
<1>2. CeilPaged(n) < n + PageSize /\ CeilPaged(n) \in Nat
  BY CeilPagedBounds
<1>3. PageSize \in Nat /\ k * PageSize \in Nat /\ j * PageSize \in Nat
  BY CapacityAssumption
<1>4. j * PageSize < k * PageSize + PageSize
  BY <1>1, <1>2, <1>3
<1> QED
  BY <1>1, <1>4, PagesApart

\* A longer request takes no fewer pages.
LEMMA CeilMonotone ==
  ASSUME NEW m \in Nat, NEW n \in Nat, m =< n
  PROVE  CeilPaged(m) =< CeilPaged(n)
<1>1. PICK k \in Nat : CeilPaged(n) = k * PageSize
  BY CeilMultiple
<1>2. n =< CeilPaged(n) /\ CeilPaged(n) \in Nat
  BY CeilPagedBounds
<1>3. m =< k * PageSize
  BY <1>1, <1>2
<1> QED
  BY <1>1, <1>3, CeilLeast

\* Growing in two parts takes no fewer pages than growing at once.
LEMMA CeilSubadditive ==
  ASSUME NEW m \in Nat, NEW n \in Nat
  PROVE  CeilPaged(m + n) =< CeilPaged(m) + CeilPaged(n)
<1>1. PICK j \in Nat : CeilPaged(m) = j * PageSize
  BY CeilMultiple
<1>2. PICK k \in Nat : CeilPaged(n) = k * PageSize
  BY CeilMultiple
<1>3. /\ m =< CeilPaged(m) /\ CeilPaged(m) \in Nat
      /\ n =< CeilPaged(n) /\ CeilPaged(n) \in Nat
  BY CeilPagedBounds
<1>4. (j + k) * PageSize = j * PageSize + k * PageSize
  BY CapacityAssumption
<1>5. m + n =< (j + k) * PageSize /\ m + n \in Nat /\ j + k \in Nat
  BY <1>1, <1>2, <1>3, <1>4
<1>6. CeilPaged(m + n) =< (j + k) * PageSize
  BY <1>5, CeilLeast
<1> QED
  BY <1>1, <1>2, <1>4, <1>6

\* Whole pages are aligned already, and anything takes a page.
LEMMA CeilAligned ==
  ASSUME NEW n \in Nat
  PROVE  /\ \A k \in Nat : n = k * PageSize => CeilPaged(n) = n
         /\ n % PageSize = 0 => CeilPaged(n) = n
         /\ n > 0 => CeilPaged(n) >= PageSize
<1>1. PageSize \in Nat /\ PageSize > 0
  BY CapacityAssumption
<1>2. n =< CeilPaged(n) /\ CeilPaged(n) \in Nat
  BY CeilPagedBounds
<1>3. ASSUME NEW k \in Nat, n = k * PageSize
      PROVE  CeilPaged(n) = n
  BY <1>2, <1>3, CeilLeast
<1>4. ASSUME n % PageSize = 0
      PROVE  CeilPaged(n) = n
  <2>1. n = (n \div PageSize) * PageSize + (n % PageSize) /\ n \div PageSize \in Nat
    BY <1>1
  <2> DEFINE k == n \div PageSize
  <2> HIDE DEF k
  <2>2. k \in Nat /\ k * PageSize \in Nat /\ n = k * PageSize
    BY <1>1, <1>4, <2>1 DEF k
  <2> QED
    BY <1>3, <2>2
<1>5. ASSUME n > 0
      PROVE  CeilPaged(n) >= PageSize
  <2>1. PICK k \in Nat : CeilPaged(n) = k * PageSize
    BY CeilMultiple
  <2>2. k # 0
    <3>1. 0 * PageSize = 0
      BY <1>1
    <3> QED
      BY <1>2, <1>5, <2>1, <3>1
  <2>3. k * PageSize = (k - 1) * PageSize + PageSize /\ (k - 1) * PageSize \in Nat
    <3>1. PICK j \in Nat : k = j + 1
      <4>1. k - 1 \in Nat /\ k = (k - 1) + 1
        BY <2>2
      <4> QED
        BY <4>1
    <3>2. (j + 1) * PageSize = j * PageSize + PageSize /\ j * PageSize \in Nat
      BY <1>1
    <3>3. k - 1 = j
      BY <3>1
    <3> QED
      BY <3>1, <3>2, <3>3
  <2> QED
    BY <1>1, <2>1, <2>3
<1> QED
  BY <1>3, <1>4, <1>5

\* One more token takes a page if the last one is used up, else none.
LEMMA CeilNext ==
  ASSUME NEW n \in Nat
  PROVE  CeilPaged(n + 1) =< CeilPaged(n) + (IF n % PageSize = 0 THEN PageSize ELSE 0)
<1>1. PageSize \in Nat /\ PageSize > 0
  BY CapacityAssumption
<1>2. n =< CeilPaged(n) /\ CeilPaged(n) \in Nat /\ CeilPaged(1) \in Nat /\ CeilPaged(n + 1) \in Nat
  BY CeilPagedBounds
<1>3. CASE n % PageSize = 0
  <2>1. CeilPaged(1) =< PageSize
    <3>1. 1 =< 1 * PageSize /\ 1 * PageSize = PageSize
      BY <1>1
    <3> QED
      BY <3>1, CeilLeast
  <2>2. CeilPaged(n + 1) =< CeilPaged(n) + CeilPaged(1)
    BY CeilSubadditive
  <2> QED
    BY <1>1, <1>2, <1>3, <2>1, <2>2
<1>4. CASE n % PageSize # 0
  <2>1. PICK k \in Nat : CeilPaged(n) = k * PageSize
    BY CeilMultiple
  <2>2. n # k * PageSize
    <3>1. (k * PageSize) % PageSize = 0
      BY <1>1
    <3> QED
      BY <1>4, <3>1
  <2>3. n + 1 =< k * PageSize
    BY <1>2, <2>1, <2>2
  <2>4. CeilPaged(n + 1) =< k * PageSize
    BY <2>3, CeilLeast
  <2> QED
    BY <1>2, <1>4, <2>1, <2>4
<1> QED
  BY <1>3, <1>4

\* The pool is whole pages: what is below its size has its pages in it, and
\* one page more if it fills its pages.
LEMMA CeilInPool ==
  ASSUME NEW n \in Nat, n < TokenCapacity
  PROVE  CeilPaged(n) + (IF n % PageSize = 0 THEN PageSize ELSE 0) =< TokenCapacity
<1>1. PageSize \in Nat /\ PageSize > 0 /\ TokenCapacity \in Nat /\ TokenCapacity % PageSize = 0
  BY CapacityAssumption
<1> DEFINE t == TokenCapacity \div PageSize
<1>2. t \in Nat /\ TokenCapacity = t * PageSize
  <2>1. TokenCapacity = (TokenCapacity \div PageSize) * PageSize + (TokenCapacity % PageSize)
        /\ TokenCapacity \div PageSize \in Nat
    BY <1>1
  <2> HIDE DEF t
  <2>2. t \in Nat /\ t * PageSize \in Nat
    BY <1>1, <2>1 DEF t
  <2> QED
    BY <1>1, <2>1, <2>2 DEF t
<1> HIDE DEF t
<1>3. CASE n % PageSize = 0
  <2>1. CeilPaged(n) = n
    BY <1>3, CeilAligned
  <2>2. PICK k \in Nat : CeilPaged(n) = k * PageSize
    BY CeilMultiple
  <2>3. k * PageSize \in Nat /\ (k + 1) * PageSize = k * PageSize + PageSize
    BY <1>1
  <2>4. (k + 1) * PageSize < t * PageSize + PageSize
    BY <1>1, <1>2, <2>1, <2>2, <2>3
  <2>5. (k + 1) * PageSize =< t * PageSize
    BY <1>2, <2>4, PagesApart
  <2> QED
    BY <1>2, <1>3, <2>2, <2>3, <2>5
<1>4. CASE n % PageSize # 0
  <2>1. CeilPaged(n) =< t * PageSize /\ CeilPaged(n) \in Nat
    BY <1>2, CeilLeast, CeilPagedBounds
  <2> QED
    BY <1>2, <1>4, <2>1
<1> QED
  BY <1>3, <1>4

\* Cutting a prompt to the pages left in the chunk leaves some of it over.
LEMMA CutFacts ==
  ASSUME NEW x \in Int
  PROVE  LET cut == FloorPaged(x)
         IN  /\ cut \in Int /\ cut =< x /\ x < cut + PageSize
             /\ x < PageSize => cut =< 0
             /\ cut > 0 => CeilPaged(cut) = cut
             /\ x >= PageSize => cut > 0
             /\ \A n \in Nat : CeilPaged(n) > x /\ cut > 0 => cut < n
<1>1. PageSize \in Nat /\ PageSize > 0
  BY CapacityAssumption
<1> DEFINE k == x \div PageSize
           cut == k * PageSize
<1>2. k \in Int /\ cut \in Int /\ cut =< x /\ x < cut + PageSize
  BY <1>1
<1>3. FloorPaged(x) = cut
  BY DEF FloorPaged
<1> HIDE DEF k
<1>4. ASSUME x < PageSize
      PROVE  cut =< 0
  <2>1. 0 * PageSize = 0
    BY <1>1
  <2>2. k * PageSize < 0 * PageSize + PageSize
    BY <1>1, <1>2, <1>4, <2>1
  <2> QED
    BY <1>2, <2>1, <2>2, PagesApart
<1>5. ASSUME cut > 0
      PROVE  k \in Nat
  <2>1. 0 * PageSize = 0
    BY <1>1
  <2>2. 0 * PageSize < k * PageSize + PageSize
    BY <1>1, <1>2, <1>5, <2>1
  <2>3. 0 =< k
    BY <1>2, <2>2, PagesApart
  <2> QED
    BY <1>2, <2>3
<1>6. ASSUME cut > 0
      PROVE  CeilPaged(cut) = cut
  <2>1. cut \in Nat
    BY <1>2, <1>6
  <2> QED
    BY <1>5, <1>6, <2>1, CeilAligned
<1>7. ASSUME x >= PageSize
      PROVE  cut > 0
  BY <1>1, <1>2, <1>7
<1>8. ASSUME NEW n \in Nat, CeilPaged(n) > x, cut > 0
      PROVE  cut < n
  <2>1. SUFFICES ASSUME n =< cut PROVE FALSE
    BY <1>2
  <2>2. CeilPaged(n) =< cut /\ CeilPaged(n) \in Nat
    BY <1>5, <1>8, <2>1, CeilLeast, CeilPagedBounds
  <2> QED
    BY <1>2, <1>8, <2>2
<1> HIDE DEF cut
<1> QED
  BY <1>2, <1>3, <1>4, <1>6, <1>7, <1>8

-----------------------------------------------------------------------------
(* The invariant *)

\* A page is at most five tokens, or the context leaves a page of the pool.
Roomy == PageSize =< 5 \/ ContextLen + PageSize =< TokenCapacity

\* A Req object, as far as the scheduler looks at it.
ReqType ==
  [st : {"idle", "waiting", "live", "done"}, len : Nat, max_new : Nat, out : Nat, kv : Nat,
   inflight_middle_chunks : Nat, to_finish : BOOLEAN, is_retracted : BOOLEAN]

\* What a batch ran for one request, and whether that was voided since.
Entries == [ran : {"extend", "middle", "decode"}, stale : BOOLEAN]

\* The results of one batch.
ResultType == UNION {[D -> Entries] : D \in SUBSET Reqs}

\* running_batch.
RunningType == [reqs : SUBSET Reqs, batch_is_full : BOOLEAN, is_prefill_only : BOOLEAN]

\* The batch launched last.
BatchType ==
  [mode : {"none", "extend", "decode"}, reqs : SUBSET Reqs, chunked_req : Reqs \cup {NoReq},
   is_prefill_only : BOOLEAN]

\* The state that the stages of a pass hand on.
StateType ==
  [waiting_queue : Seq(Reqs), chunked_req : Reqs \cup {NoReq},
   pending_chunked_abort : Reqs \cup {NoReq}, running_batch : RunningType,
   last_batch : BatchType, result_queue : Seq(ResultType), req : [Reqs -> ReqType],
   fault : SUBSET STRING]

\* What holds of every request by itself.
ReqOK(q) ==
  /\ q.st = "idle" => q = Idle
  /\ q.st # "live" => q.kv = 0
  /\ q.is_retracted => q.st = "waiting"
  /\ q.st \in {"waiting", "live"} =>
       /\ q.len > 0 /\ (q.out < q.max_new \/ q.out = 0)
       /\ q.len + q.max_new < TokenCapacity
       /\ Roomy => q.len + q.max_new + PageSize < TokenCapacity

\* ... and of all of them.
ReqsOK(f) == \A r \in Reqs : ReqOK(f[r])

\* r is in the queue.
Listed(queue, r) == \E i \in DOMAIN queue : queue[i] = r
\* Nothing is in the queue twice.
Distinct(queue) == \A i, j \in DOMAIN queue : queue[i] = queue[j] => i = j

\* The waiting queue lists the waiting requests, each once.
QueueOK(queue, f) ==
  /\ Distinct(queue)
  /\ \A r \in Reqs : f[r].st = "waiting" <=> Listed(queue, r)

\* The result that batch b has when it comes back, if nothing is retracted.
Ran(b, r) == IF b.mode = "decode" THEN "decode"
             ELSE IF r = b.chunked_req THEN "middle" ELSE "extend"
\* The result itself, ...
Result(b) == [r \in b.reqs |-> [ran |-> Ran(b, r), stale |-> FALSE]]
\* ... as a queue, which is empty when nothing was launched, ...
Results(b) == IF b.mode = "none" THEN <<>> ELSE <<Result(b)>>
\* ... and what is outstanding between two passes: with overlap, all of it.
Due(b, ov) == IF ov THEN Results(b) ELSE <<>>

\* A condition as a number.
One(p) == IF p THEN 1 ELSE 0

\* The batch launched last is not empty, and it has its chunked request.
LastOK(b) ==
  /\ b.mode = "none" => b = NoBatch
  /\ b.mode # "none" => b.reqs # {}
  /\ b.chunked_req # NoReq => b.mode = "extend" /\ b.chunked_req \in b.reqs

\* The requests of a batch are under way or finished.
InBatch(f, B) == \A r \in B : f[r].st \in {"live", "done"}

\* The chunked request has its remaining pages in reserve.
ChunkedOK(c, f) ==
  c # NoReq =>
    /\ f[c].st = "live" /\ 0 < f[c].kv /\ f[c].kv < FillLen(f[c])
    /\ CeilPaged(FillLen(f[c])) - CeilPaged(f[c].kv)
         =< TokenCapacity - SumFunctionOnSet([r \in Reqs |-> CeilPaged(f[r].kv)], Reqs)

\* Between two passes: the batch launched last is the one to be merged, or
\* the running batch itself.
BatchOK(s) ==
  LET last == s.last_batch
      run  == s.running_batch.reqs
      c    == s.chunked_req
  IN  /\ LastOK(last) /\ last.chunked_req = c
      /\ InBatch(s.req, run) /\ InBatch(s.req, last.reqs)
      /\ c # NoReq => c \notin run
      /\ last.mode = "extend" => last.reqs \cap run = {}
      /\ last.mode = "decode" => last.reqs = run
      /\ \A r \in Reqs : s.req[r].st = "live" =>
           r \in run \/ (last.mode = "extend" /\ r \in last.reqs)

\* What holds at every stage of a pass.
StageOK(s) ==
  /\ s \in StateType /\ s.fault = {}
  /\ QueueOK(s.waiting_queue, s.req) /\ ChunkedOK(s.chunked_req, s.req) /\ ReqsOK(s.req)

\* A full flag on an empty running batch goes when the last batch is merged.
FlagOK(s) ==
  Roomy /\ s.running_batch.batch_is_full /\ s.running_batch.reqs = {}
    => s.last_batch.mode = "extend"

\* kv_allocated_len of a request that runs.
Holds(q, more) == q.st = "live" => q.kv = FillLen(q) - 1 + more

\* The invariant between two passes of the loop.
LoopInv(s, ov) ==
  /\ StageOK(s) /\ BatchOK(s) /\ FlagOK(s)
  /\ s.pending_chunked_abort \in {NoReq, s.chunked_req}
  /\ s.result_queue = Due(s.last_batch, ov)
  /\ \A r \in Reqs : s.req[r].inflight_middle_chunks = One(ov /\ r = s.chunked_req)
  /\ \A r \in Reqs \ {s.chunked_req} : Holds(s.req[r], One(ov /\ r \in s.last_batch.reqs))

\* After process_pending_chunked_abort.
Aborted(s, ov) ==
  LET last == s.last_batch
      run  == s.running_batch.reqs
      c    == s.chunked_req
  IN  /\ StageOK(s) /\ s.pending_chunked_abort = NoReq
      /\ LastOK(last) /\ InBatch(s.req, run) /\ InBatch(s.req, last.reqs)
      /\ c \in {NoReq, last.chunked_req}
      /\ last.chunked_req # c => s.req[last.chunked_req].st = "done"
      /\ c # NoReq => c \notin run
      /\ s.result_queue = Due(last, ov)
      /\ \A r \in Reqs : s.req[r].inflight_middle_chunks = One(ov /\ r = last.chunked_req)
      /\ \A r \in Reqs \ {c} : Holds(s.req[r], One(ov /\ r \in last.reqs))

\* When a batch is about to be chosen.
Ready(s, ov) ==
  /\ Aborted(s, ov)
  /\ \A r \in Reqs : s.req[r].st = "live" =>
       r \in s.running_batch.reqs \/ r = s.chunked_req
  /\ Roomy /\ s.running_batch.batch_is_full => s.running_batch.reqs # {}

\* When a batch has been launched, or none, and old was the one before.
Posted(s, old, ov) ==
  LET last == s.last_batch
      c    == s.chunked_req
      q    == s.result_queue
      due  == Due(old, ov)
  IN  /\ StageOK(s) /\ BatchOK(s) /\ FlagOK(s) /\ s.pending_chunked_abort = NoReq
      /\ old \in BatchType /\ LastOK(old) /\ (c \in old.reqs => c = old.chunked_req)
      /\ \A r \in old.reqs : s.req[r].st \in {"live", "done"} \/ s.req[r].is_retracted
      /\ old.chunked_req # NoReq => ~s.req[old.chunked_req].is_retracted
      /\ Len(q) = Len(due) + Len(Results(last))
      /\ ov /\ old.mode # "none" =>
           /\ DOMAIN q[1] = old.reqs
           /\ \A r \in old.reqs :
                q[1][r].ran = Ran(old, r) /\ (q[1][r].stale => s.req[r].is_retracted)
      /\ last.mode # "none" => q[Len(q)] = Result(last)
      /\ \A r \in Reqs : s.req[r].inflight_middle_chunks
                           = One(ov /\ r = old.chunked_req) + One(r = c)
      /\ \A r \in Reqs \ {c} :
           Holds(s.req[r], One(ov /\ r \in old.reqs /\ r # old.chunked_req)
                           + One(r \in last.reqs))

-----------------------------------------------------------------------------
(* Pages held *)

\* The tokens of the pages that the requests hold.
Held(f) == SumFunctionOnSet([r \in Reqs |-> CeilPaged(f[r].kv)], Reqs)

\* The pages held are a number.
LEMMA HeldFacts ==
  ASSUME NEW f \in [Reqs -> ReqType]
  PROVE  /\ IsFiniteSet(Reqs)
         /\ \A r \in Reqs : f[r].kv \in Nat /\ CeilPaged(f[r].kv) \in Nat
         /\ Held(f) \in Nat
<1>1. IsFiniteSet(Reqs)
  BY LoopAssumption
<1>2. \A r \in Reqs : f[r].kv \in Nat
  BY DEF ReqType
<1>3. \A r \in Reqs : CeilPaged(f[r].kv) \in Nat
  BY <1>2, CeilPagedBounds
<1> DEFINE w == [r \in Reqs |-> CeilPaged(f[r].kv)]
<1>4. \A r \in Reqs : w[r] \in Nat
  BY <1>3
<1> HIDE DEF w
<1>5. SumFunctionOnSet(w, Reqs) \in Nat
  BY <1>1, <1>4, SumInNat
<1> QED
  BY <1>1, <1>2, <1>3, <1>5 DEF Held, w

\* Available in terms of the pages held.
LEMMA AvailableFacts ==
  ASSUME NEW s, s.req \in [Reqs -> ReqType]
  PROVE  Available(s) = TokenCapacity - Held(s.req) /\ Available(s) \in Int
<1>1. Held(s.req) \in Nat /\ TokenCapacity \in Nat
  BY HeldFacts, CapacityAssumption
<1>2. Available(s) = TokenCapacity - Held(s.req)
  BY DEF Available, Held
<1> QED
  BY <1>1, <1>2

\* Growth by w leaves at most that much less.
LEMMA HeldGrowth ==
  ASSUME NEW f \in [Reqs -> ReqType], NEW g \in [Reqs -> ReqType],
         NEW w, \A r \in Reqs : w[r] \in Nat /\ CeilPaged(g[r].kv) =< CeilPaged(f[r].kv) + w[r]
  PROVE  /\ SumFunctionOnSet(w, Reqs) \in Nat
         /\ Held(g) =< Held(f) + SumFunctionOnSet(w, Reqs)
<1> DEFINE a == [r \in Reqs |-> CeilPaged(f[r].kv)]
           b == [r \in Reqs |-> CeilPaged(g[r].kv)]
           v == [r \in Reqs |-> a[r] + w[r]]
<1>1. IsFiniteSet(Reqs)
  BY HeldFacts
<1>2. \A r \in Reqs : CeilPaged(f[r].kv) \in Nat /\ CeilPaged(g[r].kv) \in Nat
  BY HeldFacts
<1>3. \A r \in Reqs : /\ a[r] \in Nat /\ w[r] \in Nat /\ b[r] \in Nat
                      /\ v[r] = a[r] + w[r] /\ b[r] =< v[r] /\ v[r] \in Nat
  BY <1>2
<1> HIDE DEF a, b, v
<1>4. SumFunctionOnSet(v, Reqs) = SumFunctionOnSet(a, Reqs) + SumFunctionOnSet(w, Reqs)
  BY <1>1, <1>3, SumPlus
<1>5. SumFunctionOnSet(b, Reqs) =< SumFunctionOnSet(v, Reqs)
  BY <1>1, <1>3, SumMonotone
<1>6. SumFunctionOnSet(w, Reqs) \in Nat
  BY <1>1, <1>3, SumInNat
<1>7. Held(f) = SumFunctionOnSet(a, Reqs) /\ Held(g) = SumFunctionOnSet(b, Reqs)
  BY DEF Held, a, b
<1> QED
  BY <1>4, <1>5, <1>6, <1>7

\* Who holds no more than before leaves no less.
LEMMA HeldShrinks ==
  ASSUME NEW f \in [Reqs -> ReqType], NEW g \in [Reqs -> ReqType],
         \A r \in Reqs : g[r].kv = f[r].kv \/ g[r].kv = 0
  PROVE  Held(g) =< Held(f)
<1> DEFINE w == [r \in Reqs |-> 0]
<1>1. \A r \in Reqs : f[r].kv \in Nat /\ CeilPaged(f[r].kv) \in Nat
  BY HeldFacts
<1>2. CeilPaged(0) \in Nat /\ CeilPaged(0) < 0 + PageSize
  BY CeilPagedBounds
<1>3. \A r \in Reqs : CeilPaged(g[r].kv) =< CeilPaged(f[r].kv)
  <2>1. TAKE r \in Reqs
  <2>2. CASE g[r].kv = f[r].kv
    BY <1>1, <2>2
  <2>3. CASE g[r].kv = 0
    <3>1. f[r].kv \in Nat /\ 0 =< f[r].kv
      BY <1>1
    <3>2. CeilPaged(0) =< CeilPaged(f[r].kv)
      BY <3>1, CeilMonotone
    <3> QED
      BY <2>3, <3>2
  <2> QED
    BY <2>2, <2>3
<1>4. \A r \in Reqs : w[r] \in Nat /\ CeilPaged(g[r].kv) =< CeilPaged(f[r].kv) + w[r]
  <2>1. \A r \in Reqs : CeilPaged(g[r].kv) \in Nat
    BY HeldFacts
  <2> QED
    BY <1>1, <1>3, <2>1
<1>5. SumFunctionOnSet(w, Reqs) = 0
  <2>1. IsFiniteSet(Reqs)
    BY HeldFacts
  <2>2. (\A r \in Reqs : w[r] \in Nat) /\ \A r \in Reqs \ {} : w[r] = 0
    OBVIOUS
  <2> HIDE DEF w
  <2>3. SumFunctionOnSet(w, Reqs) = SumFunctionOnSet(w, {})
    BY <2>1, <2>2, SumSupport
  <2> QED
    BY <2>3, SumEmpty
<1> HIDE DEF w
<1>6. Held(g) =< Held(f) + SumFunctionOnSet(w, Reqs)
  BY <1>4, HeldGrowth
<1>7. Held(f) \in Nat /\ Held(g) \in Nat
  BY HeldFacts
<1> QED
  BY <1>5, <1>6, <1>7

\* If nobody but those of T holds KV, T's pages are all that is held.
LEMMA HeldBy ==
  ASSUME NEW f \in [Reqs -> ReqType]
  PROVE  /\ (\A r \in Reqs : f[r].kv = 0) => Held(f) = 0
         /\ \A x \in Reqs : (\A r \in Reqs \ {x} : f[r].kv = 0) => Held(f) = CeilPaged(f[x].kv)
<1> DEFINE w == [r \in Reqs |-> CeilPaged(f[r].kv)]
<1>1. IsFiniteSet(Reqs) /\ \A r \in Reqs : w[r] \in Nat
  BY HeldFacts
<1>2. CeilPaged(0) = 0
  <2>1. 0 = 0 * PageSize
    BY CapacityAssumption
  <2> QED
    BY <2>1, CeilAligned
<1>3. Held(f) = SumFunctionOnSet(w, Reqs)
  BY DEF Held
<1>4. ASSUME \A r \in Reqs : f[r].kv = 0
      PROVE  Held(f) = 0
  <2>1. \A r \in Reqs \ {} : w[r] = 0
    BY <1>2, <1>4
  <2> HIDE DEF w
  <2>2. SumFunctionOnSet(w, Reqs) = SumFunctionOnSet(w, {})
    BY <1>1, <2>1, SumSupport
  <2> QED
    BY <1>3, <2>2, SumEmpty
<1>5. ASSUME NEW x \in Reqs, \A r \in Reqs \ {x} : f[r].kv = 0
      PROVE  Held(f) = CeilPaged(f[x].kv)
  <2>1. (\A r \in Reqs \ {x} : w[r] = 0) /\ w[x] = CeilPaged(f[x].kv) /\ w[x] \in Nat
    BY <1>1, <1>2, <1>5
  <2> HIDE DEF w
  <2>2. SumFunctionOnSet(w, Reqs) = w[x] + SumFunctionOnSet(w, Reqs \ {x})
    BY <1>1, SumMember
  <2>3. SumFunctionOnSet(w, Reqs \ {x}) = SumFunctionOnSet(w, {})
    <3>1. IsFiniteSet(Reqs \ {x}) /\ \A r \in Reqs \ {x} : w[r] \in Nat
      BY <1>1, FS_Subset
    <3>2. \A r \in (Reqs \ {x}) \ {} : w[r] = 0
      BY <2>1
    <3> QED
      BY <3>1, <3>2, SumSupport
  <2> QED
    BY <1>3, <2>1, <2>2, <2>3, SumEmpty
<1> QED
  BY <1>4, <1>5

-----------------------------------------------------------------------------
(* The queue *)

\* Leaving requests out of a queue.
LEMMA DropFacts ==
  ASSUME NEW queue \in Seq(Reqs), Distinct(queue), NEW R
  PROVE  /\ Drop(queue, R) \in Seq(Reqs) /\ Distinct(Drop(queue, R))
         /\ \A r \in Reqs : Listed(Drop(queue, R), r) <=> r \notin R /\ Listed(queue, r)
<1> DEFINE n == Len(queue)
           X == Seq(Reqs)
           op(kept, r) == IF r \in R THEN kept ELSE Append(kept, r)
           Def(g) == [T \in SUBSET (1..n) |-> IF T = {} THEN <<>>
                                              ELSE op(g[T \ {Max(T)}], queue[Max(T)])]
           fold == CHOOSE g : g = Def(g)
           F == [z \in (1..n) \X X |-> op(z[2], queue[z[1]])]
           at(i) == fold[1..i]
<1>1. n \in Nat /\ DOMAIN queue = 1..n /\ \A i \in 1..n : queue[i] \in Reqs
  OBVIOUS
<1>2. Drop(queue, R) = at(n)
  <2>1. Drop(queue, R) = (CHOOSE g : g = [T \in SUBSET (DOMAIN queue) |->
           IF T = {} THEN <<>> ELSE op(g[T \ {Max(T)}], queue[Max(T)])])[DOMAIN queue]
    BY DEF Drop, FoldLeft, MapThenFoldSet
  <2> QED
    BY <1>1, <2>1
<1>3. \A y \in X, r \in Reqs : op(y, r) \in X
  OBVIOUS
<1>4. F \in [(1..n) \X X -> X] /\ \A i \in 1..n, y \in X : F[<<i, y>>] = op(y, queue[i])
  BY <1>1, <1>3
<1> DEFINE none == <<>>
<1>5. none \in X
  OBVIOUS
<1> HIDE DEF n, X, op, F, none
<1>6. PICK g : IsListFold(g, n, X, none, F)
  BY <1>1, <1>4, <1>5, ListFoldExists
<1>7. g = Def(g)
  <2>1. \A T \in SUBSET (1..n) : g[T] = IF T = {} THEN <<>>
                                        ELSE op(g[T \ {Max(T)}], queue[Max(T)])
    BY <1>4, <1>6 DEF none, IsListFold
  <2> QED
    BY <1>6, <2>1 DEF IsListFold
<1>8. fold = Def(fold)
  <2> HIDE DEF Def
  <2> QED
    BY <1>7
<1>9. \A T \in SUBSET (1..n) : fold[T] = IF T = {} THEN <<>>
                                         ELSE op(fold[T \ {Max(T)}], queue[Max(T)])
  <2> HIDE DEF fold
  <2>1. fold = [T \in SUBSET (1..n) |-> IF T = {} THEN <<>>
                                        ELSE op(fold[T \ {Max(T)}], queue[Max(T)])]
    BY <1>8
  <2> QED
    BY <2>1
<1> HIDE DEF fold
<1>10. at(0) = <<>>
  <2>1. 1..0 = {}
    OBVIOUS
  <2> QED
    BY <1>9, <2>1
<1>11. \A i \in 1..n : at(i) = op(at(i - 1), queue[i])
  <2>1. TAKE i \in 1..n
  <2>2. 1..i \in SUBSET (1..n) /\ 1..i # {} /\ Max(1..i) = i /\ (1..i) \ {i} = 1..(i - 1)
    BY <1>1, PrefixLast
  <2> QED
    BY <1>9, <2>2
<1> HIDE DEF at
<1> DEFINE OK(i) == /\ at(i) \in Seq(Reqs) /\ Distinct(at(i))
                    /\ \A r \in Reqs : Listed(at(i), r)
                         <=> r \notin R /\ \E j \in 1..i : queue[j] = r
           Flawed == {i \in 0..n : ~OK(i)}
<1>12. OK(0)
  <2>1. \A r \in Reqs : ~\E j \in 1..0 : queue[j] = r
    OBVIOUS
  <2>2. at(0) \in Seq(Reqs) /\ DOMAIN at(0) = {}
    <3>1. at(0) \in Seq(Reqs) /\ Len(at(0)) = 0
      <4>1. <<>> \in Seq(Reqs) /\ Len(<<>>) = 0
        OBVIOUS
      <4>2. at(0) = <<>>
        BY <1>10
      <4> QED
        BY ONLY <4>1, <4>2
    <3>2. DOMAIN at(0) = 1..0
      BY <3>1
    <3> QED
      BY <3>1, <3>2
  <2> QED
    BY <2>1, <2>2 DEF Distinct, Listed
<1>13. ASSUME NEW i \in 1..n, OK(i - 1)
       PROVE  OK(i)
  <2> DEFINE y == at(i - 1)
             x == queue[i]
  <2>1. x \in Reqs /\ y \in Seq(Reqs) /\ at(i) = IF x \in R THEN y ELSE Append(y, x)
    BY <1>1, <1>11, <1>13 DEF op
  <2>2. \A r : (\E j \in 1..i : queue[j] = r) <=> r = x \/ \E j \in 1..(i - 1) : queue[j] = r
    <3>1. i \in 1..i /\ \A j \in 1..i : j = i \/ j \in 1..(i - 1)
      BY <1>1
    <3>2. \A j \in 1..(i - 1) : j \in 1..i
      BY <1>1
    <3> QED
      BY <3>1, <3>2
  <2>3. ~\E j \in 1..(i - 1) : queue[j] = x
    <3>1. \A j \in 1..(i - 1) : j \in 1..n /\ j # i
      BY <1>1
    <3> QED
      BY <1>1, <3>1 DEF Distinct
  <2>4. /\ Distinct(y)
        /\ \A r \in Reqs : Listed(y, r) <=> r \notin R /\ \E j \in 1..(i - 1) : queue[j] = r
    BY <1>13
  <2> HIDE DEF y, x
  <2>5. CASE x \in R
    BY <2>1, <2>2, <2>4, <2>5
  <2>6. CASE x \notin R
    <3> DEFINE z == Append(y, x)
               m == Len(y)
    <3>1. /\ at(i) = z /\ z \in Seq(Reqs) /\ m \in Nat /\ DOMAIN z = 1..(m + 1) /\ DOMAIN y = 1..m
          /\ z[m + 1] = x /\ \A j \in 1..m : z[j] = y[j]
      BY <2>1, <2>6
    <3> HIDE DEF z, m
    <3>2. \A r : Listed(z, r) <=> r = x \/ Listed(y, r)
      BY <3>1 DEF Listed
    <3>3. \A j \in 1..m : y[j] # x
      BY <2>1, <2>3, <2>4, <3>1 DEF Listed
    <3>4. Distinct(z)
      BY <2>4, <3>1, <3>3 DEF Distinct
    <3>5. \A r \in Reqs : Listed(z, r) <=> r \notin R /\ \E j \in 1..i : queue[j] = r
      BY <2>2, <2>4, <2>6, <3>2
    <3> QED
      BY <3>1, <3>4, <3>5
  <2> QED
    BY <2>5, <2>6
<1> HIDE DEF OK
<1>14. Flawed = {}
  <2>1. SUFFICES ASSUME Flawed # {} PROVE FALSE
    OBVIOUS
  <2>2. Flawed \in SUBSET Nat
    OBVIOUS
  <2> DEFINE i == Min(Flawed)
  <2>3. i \in Flawed /\ \A j \in Flawed : i =< j
    BY <2>1, <2>2, LeastNatural
  <2> HIDE DEF i
  <2>4. i \in 0..n /\ ~OK(i) /\ i # 0
    BY <1>12, <2>3
  <2>5. i - 1 \in 0..n /\ i \in 1..n
    BY <1>1, <2>4
  <2>6. OK(i - 1)
    BY <2>3, <2>4, <2>5
  <2> QED
    BY <1>13, <2>4, <2>5, <2>6
<1>15. OK(n)
  BY <1>1, <1>14
<1>16. /\ at(n) \in Seq(Reqs) /\ Distinct(at(n))
       /\ \A r \in Reqs : Listed(at(n), r) <=> r \notin R /\ \E j \in 1..n : queue[j] = r
  BY <1>15 DEF OK
<1> QED
  BY <1>1, <1>2, <1>16 DEF Listed

-----------------------------------------------------------------------------
(* Up to the choice of a batch *)

\* Request slots differ from the mark for no request.
LEMMA NoReqFacts == NoReq \notin Reqs /\ NoReq = 0 /\ \A r \in Reqs : r \in Nat /\ r # NoReq
  BY LoopAssumption DEF NoReq

\* The fields of a state.
LEMMA StateFields ==
  ASSUME NEW s \in StateType
  PROVE  /\ s.waiting_queue \in Seq(Reqs) /\ s.chunked_req \in Reqs \cup {NoReq}
         /\ s.pending_chunked_abort \in Reqs \cup {NoReq}
         /\ s.running_batch \in RunningType /\ s.running_batch.reqs \in SUBSET Reqs
         /\ s.last_batch \in BatchType /\ s.last_batch.reqs \in SUBSET Reqs
         /\ s.last_batch.chunked_req \in Reqs \cup {NoReq}
         /\ s.result_queue \in Seq(ResultType)
         /\ s.req \in [Reqs -> ReqType]
         /\ s.fault \in SUBSET STRING
  BY DEF StateType, RunningType, BatchType

\* A live request runs, or is in the batch that is about to be merged.
Placed(s) ==
  \A r \in Reqs : s.req[r].st = "live" =>
    \/ r \in s.running_batch.reqs
    \/ s.last_batch.mode = "extend" /\ r \in s.last_batch.reqs

\* A finished request has given its pages back.
LEMMA FinishFacts ==
  ASSUME NEW q \in ReqType
  PROVE  /\ Finish(q) \in ReqType /\ Finish(q).st = "done" /\ Finish(q).kv = 0
         /\ Finish(q).inflight_middle_chunks = q.inflight_middle_chunks
         /\ Finish(q).is_retracted = q.is_retracted
         /\ [Finish(q) EXCEPT !.to_finish = FALSE] \in ReqType
         /\ [Finish(q) EXCEPT !.to_finish = FALSE].st = "done"
         /\ [Finish(q) EXCEPT !.to_finish = FALSE].kv = 0
         /\ [Finish(q) EXCEPT !.to_finish = FALSE].inflight_middle_chunks
              = q.inflight_middle_chunks
         /\ [Finish(q) EXCEPT !.to_finish = FALSE].is_retracted = q.is_retracted
  BY DEF Finish, ReqType

\* process_pending_chunked_abort drops the chunked request, if it is the one.
LEMMA PendingAbortOK ==
  ASSUME NEW s, NEW ov \in BOOLEAN, LoopInv(s, ov)
  PROVE  LET s1 == ProcessPendingChunkedAbort(s)
         IN  Aborted(s1, ov) /\ Placed(s1) /\ FlagOK(s1)
<1> DEFINE c == s.chunked_req
           last == s.last_batch
           p == s.pending_chunked_abort
           s0 == [s EXCEPT !.pending_chunked_abort = NoReq]
           s1 == ProcessPendingChunkedAbort(s)
<1>1. /\ s \in StateType /\ StageOK(s) /\ BatchOK(s) /\ FlagOK(s) /\ p \in {NoReq, c}
      /\ s.fault = {} /\ QueueOK(s.waiting_queue, s.req) /\ ChunkedOK(c, s.req) /\ ReqsOK(s.req)
  BY DEF LoopInv, StageOK
<1>2. /\ s.result_queue = Due(last, ov)
      /\ \A r \in Reqs : s.req[r].inflight_middle_chunks = One(ov /\ r = c)
      /\ \A r \in Reqs \ {c} : Holds(s.req[r], One(ov /\ r \in last.reqs))
  BY DEF LoopInv
<1>3. /\ LastOK(last) /\ last.chunked_req = c
      /\ InBatch(s.req, s.running_batch.reqs) /\ InBatch(s.req, last.reqs)
      /\ c # NoReq => c \notin s.running_batch.reqs
  BY <1>1 DEF BatchOK
<1>4. Placed(s)
  BY <1>1 DEF BatchOK, Placed
<1>5. /\ s0 \in StateType /\ s0.pending_chunked_abort = NoReq
      /\ s0.waiting_queue = s.waiting_queue /\ s0.chunked_req = c /\ s0.req = s.req
      /\ s0.running_batch = s.running_batch /\ s0.last_batch = last
      /\ s0.result_queue = s.result_queue /\ s0.fault = s.fault
  BY <1>1 DEF StateType
<1> HIDE DEF s0
<1>6. CASE p = NoReq
  <2>1. s1 = s0
    BY <1>6 DEF ProcessPendingChunkedAbort, s0
  <2>2. StageOK(s0)
    BY <1>1, <1>5 DEF StageOK
  <2>3. Aborted(s0, ov)
    BY <1>2, <1>3, <1>5, <2>2 DEF Aborted
  <2>4. Placed(s0) /\ FlagOK(s0)
    BY <1>1, <1>4, <1>5 DEF Placed, FlagOK
  <2> QED
    BY <2>1, <2>3, <2>4
<1>7. CASE p # NoReq
  <2> DEFINE q == [Finish(s.req[c]) EXCEPT !.to_finish = FALSE]
             g == [s.req EXCEPT ![c] = q]
             s2 == [s0 EXCEPT !.chunked_req = NoReq, !.req[c] = q]
  <2>1. p = c /\ c \in Reqs
    BY <1>1, <1>7, StateFields
  <2>2. s1 = s2
    BY <1>5, <1>7, <2>1 DEF ProcessPendingChunkedAbort, s0
  <2>3. s.req[c] \in ReqType /\ s.req[c].st = "live"
    BY <1>1, <1>7, <2>1, StateFields DEF ChunkedOK
  <2>4. /\ q \in ReqType /\ q.st = "done" /\ q.kv = 0 /\ q.is_retracted = s.req[c].is_retracted
        /\ q.inflight_middle_chunks = s.req[c].inflight_middle_chunks
    BY <2>3, FinishFacts
  <2> HIDE DEF q
  <2>5. /\ g \in [Reqs -> ReqType] /\ g[c] = q /\ \A r \in Reqs : r # c => g[r] = s.req[r]
    BY <1>1, <2>1, <2>4, StateFields
  <2>6. /\ s2 \in StateType /\ s2.pending_chunked_abort = NoReq
        /\ s2.waiting_queue = s.waiting_queue /\ s2.chunked_req = NoReq /\ s2.req = g
        /\ s2.running_batch = s.running_batch /\ s2.last_batch = last
        /\ s2.result_queue = s.result_queue /\ s2.fault = s.fault
    BY <1>5, <2>5 DEF StateType
  <2> HIDE DEF g, s2
  <2>7. ReqsOK(g)
    <3>1. ~q.is_retracted
      BY <1>1, <2>1, <2>3, <2>4 DEF ReqsOK, ReqOK
    <3>2. ReqOK(q)
      BY <2>4, <3>1 DEF ReqOK
    <3> QED
      BY <1>1, <2>5, <3>2 DEF ReqsOK
  <2>8. QueueOK(s.waiting_queue, g)
    BY <1>1, <2>3, <2>4, <2>5 DEF QueueOK
  <2>9. StageOK(s2)
    BY <1>1, <2>6, <2>7, <2>8 DEF StageOK, ChunkedOK
  <2>10. InBatch(g, s.running_batch.reqs) /\ InBatch(g, last.reqs)
    BY <1>1, <1>3, <2>4, <2>5, StateFields DEF InBatch
  <2>11. \A r \in Reqs : g[r].inflight_middle_chunks = One(ov /\ r = last.chunked_req)
    BY <1>2, <1>3, <2>4, <2>5
  <2>12. \A r \in Reqs \ {NoReq} : Holds(g[r], One(ov /\ r \in last.reqs))
    BY <1>2, <2>4, <2>5 DEF Holds
  <2>13. Aborted(s2, ov)
    BY <1>2, <1>3, <2>4, <2>5, <2>6, <2>9, <2>10, <2>11, <2>12 DEF Aborted
  <2>14. Placed(s2) /\ FlagOK(s2)
    BY <1>1, <1>4, <2>4, <2>5, <2>6 DEF Placed, FlagOK
  <2> QED
    BY <2>2, <2>13, <2>14
<1> QED
  BY <1>6, <1>7

\* Only the running batch changes.
LEMMA OtherRunning ==
  ASSUME NEW s, NEW ov \in BOOLEAN, Aborted(s, ov), NEW b \in RunningType,
         \A r \in b.reqs : r # s.chunked_req /\ s.req[r].st \in {"live", "done"}
  PROVE  LET s1 == [s EXCEPT !.running_batch = b]
         IN  /\ Aborted(s1, ov) /\ s1.running_batch = b /\ s1.last_batch = s.last_batch
             /\ s1.chunked_req = s.chunked_req /\ s1.req = s.req
<1> DEFINE s1 == [s EXCEPT !.running_batch = b]
<1>1. StageOK(s) /\ s \in StateType
  BY DEF Aborted, StageOK
<1>2. /\ s1 \in StateType /\ s1.pending_chunked_abort = s.pending_chunked_abort
      /\ s1.waiting_queue = s.waiting_queue /\ s1.chunked_req = s.chunked_req /\ s1.req = s.req
      /\ s1.running_batch = b /\ s1.last_batch = s.last_batch
      /\ s1.result_queue = s.result_queue /\ s1.fault = s.fault
  BY <1>1 DEF StateType
<1> HIDE DEF s1
<1>3. StageOK(s1)
  BY <1>1, <1>2 DEF StageOK
<1>4. InBatch(s.req, b.reqs) /\ (s.chunked_req # NoReq => s.chunked_req \notin b.reqs)
  BY DEF InBatch
<1>5. Aborted(s1, ov)
  BY <1>2, <1>3, <1>4 DEF Aborted
<1> QED
  BY <1>2, <1>5 DEF s1

\* The last prefill batch is merged: every live request but the chunked one
\* runs, and a full flag is left only on a batch with requests.
LEMMA MergeOK ==
  ASSUME NEW s, NEW ov \in BOOLEAN, Aborted(s, ov), Placed(s), FlagOK(s)
  PROVE  Ready(MergeLastBatch(s), ov)
<1> DEFINE last == s.last_batch
           run == s.running_batch
           c == s.chunked_req
           s1 == MergeLastBatch(s)
<1>1. /\ s \in StateType /\ LastOK(last) /\ c \in {NoReq, last.chunked_req}
      /\ last.chunked_req # c => s.req[last.chunked_req].st = "done"
      /\ InBatch(s.req, run.reqs) /\ InBatch(s.req, last.reqs)
      /\ c # NoReq => c \notin run.reqs
  BY DEF Aborted, StageOK
<1>2. /\ run \in RunningType /\ run.reqs \in SUBSET Reqs /\ last \in BatchType
      /\ last.reqs \in SUBSET Reqs /\ last.chunked_req \in Reqs \cup {NoReq}
  BY <1>1, StateFields
<1>3. CASE last.mode # "extend"
  <2>1. s1 = s
    BY <1>3 DEF MergeLastBatch
  <2>2. \A r \in Reqs : s.req[r].st = "live" => r \in run.reqs \/ r = c
    BY <1>3 DEF Placed
  <2>3. Roomy /\ run.batch_is_full => run.reqs # {}
    BY <1>3 DEF FlagOK
  <2> QED
    BY <2>1, <2>2, <2>3 DEF Ready
<1>4. CASE last.mode = "extend"
  <2> DEFINE kept == {r \in last.reqs : ~Finished(s, r) /\ r \notin {c, last.chunked_req}}
             full == [run EXCEPT !.batch_is_full = @ /\ kept = last.reqs]
             b == IF kept = {} THEN full
                  ELSE IF full.reqs = {}
                    THEN [reqs |-> kept, batch_is_full |-> FALSE,
                          is_prefill_only |-> last.is_prefill_only]
                  ELSE MergeBatch(full, kept, last.is_prefill_only)
  <2>1. s1 = [s EXCEPT !.running_batch = b]
    BY <1>4 DEF MergeLastBatch
  <2>2. kept \in SUBSET Reqs /\ last.is_prefill_only \in BOOLEAN
    BY <1>2 DEF BatchType
  <2>3. /\ full \in RunningType /\ full.reqs = run.reqs
        /\ full.batch_is_full => kept = last.reqs
    BY <1>2 DEF RunningType
  <2>4. \A r \in kept : r # c /\ s.req[r].st \in {"live", "done"}
    BY <1>1 DEF InBatch
  <2>5. \A r \in Reqs : s.req[r].st = "live" => r \in run.reqs \/ r \in kept \/ r = c
    <3>1. TAKE r \in Reqs
    <3>2. HAVE s.req[r].st = "live"
    <3>3. r \in run.reqs \/ r \in last.reqs
      BY <3>2 DEF Placed
    <3>4. r # c => r # last.chunked_req
      BY <1>1, <3>2
    <3>5. ~Finished(s, r)
      BY <3>2 DEF Finished
    <3> QED
      BY <3>3, <3>4, <3>5
  <2>6. last.reqs # {}
    BY <1>1, <1>4 DEF LastOK
  <2> HIDE DEF kept, full
  <2>7. b \in RunningType /\ b.reqs = run.reqs \cup kept /\ (b.batch_is_full => b.reqs # {})
    <3>1. CASE kept = {}
      BY <2>3, <2>6, <3>1
    <3>2. CASE kept # {} /\ full.reqs = {}
      BY <2>2, <2>3, <3>2 DEF RunningType
    <3>3. CASE kept # {} /\ full.reqs # {}
      <4>1. b = MergeBatch(full, kept, last.is_prefill_only)
        BY <3>3
      <4>2. /\ MergeBatch(full, kept, last.is_prefill_only) \in RunningType
            /\ MergeBatch(full, kept, last.is_prefill_only).reqs = full.reqs \cup kept
        BY <2>2, <2>3 DEF MergeBatch, RunningType
      <4> QED
        BY <2>3, <3>3, <4>1, <4>2
    <3> QED
      BY <3>1, <3>2, <3>3
  <2> HIDE DEF b
  <2>8. \A r \in b.reqs : r # c /\ s.req[r].st \in {"live", "done"}
    <3>1. \A r \in run.reqs : r # c /\ s.req[r].st \in {"live", "done"}
      BY <1>1, <1>2, NoReqFacts DEF InBatch
    <3> QED
      BY <2>4, <2>7, <3>1
  <2>9. /\ Aborted(s1, ov) /\ s1.running_batch = b
        /\ s1.chunked_req = c /\ s1.req = s.req
    BY <2>1, <2>7, <2>8, OtherRunning
  <2> QED
    BY <2>5, <2>7, <2>9 DEF Ready
<1> QED
  BY <1>3, <1>4

\* Filtering a prefill-only batch keeps this.
LEMMA FilterPrefillOnlyOK ==
  ASSUME NEW s, NEW ov \in BOOLEAN, Ready(s, ov)
  PROVE  Ready(FilterPrefillOnly(s), ov)
<1> DEFINE run == s.running_batch
           kept == {r \in run.reqs : ~Finished(s, r)}
           b == [run EXCEPT !.reqs = kept]
           b0 == IF kept = {} THEN [b EXCEPT !.batch_is_full = FALSE] ELSE b
           s1 == FilterPrefillOnly(s)
<1>1. Aborted(s, ov) /\ s \in StateType /\ run \in RunningType
      /\ \A r \in run.reqs : r # s.chunked_req /\ s.req[r].st \in {"live", "done"}
  <2>1. Aborted(s, ov) /\ s \in StateType
    BY DEF Ready, Aborted, StageOK
  <2>2. run \in RunningType /\ run.reqs \in SUBSET Reqs
    BY <2>1, StateFields
  <2>3. \A r \in run.reqs : r # s.chunked_req /\ s.req[r].st \in {"live", "done"}
    BY <2>1, <2>2, NoReqFacts DEF Aborted, InBatch
  <2> QED
    BY <2>1, <2>2, <2>3
<1>2. CASE ~run.is_prefill_only
  BY <1>2 DEF FilterPrefillOnly
<1>3. CASE run.is_prefill_only
  <2>1. s1 = [s EXCEPT !.running_batch = b0]
    <3>1. FilterBatch(s) = [s EXCEPT !.running_batch = b]
      BY <1>1 DEF FilterBatch, StateType
    <3>2. [s EXCEPT !.running_batch = b].running_batch = b /\ b.reqs = kept
      BY <1>1 DEF StateType, RunningType
    <3>3. [[s EXCEPT !.running_batch = b] EXCEPT !.running_batch.batch_is_full = FALSE]
            = [s EXCEPT !.running_batch = [b EXCEPT !.batch_is_full = FALSE]]
      BY <1>1 DEF StateType
    <3> HIDE DEF b, kept
    <3> QED
      BY <1>3, <3>1, <3>2, <3>3 DEF FilterPrefillOnly, ResetIfEmpty
  <2>2. b0 \in RunningType /\ b0.reqs = kept /\ (b0.batch_is_full => kept # {})
    BY <1>1 DEF RunningType
  <2> HIDE DEF b0
  <2>3. \A r \in b0.reqs : r # s.chunked_req /\ s.req[r].st \in {"live", "done"}
    BY <1>1, <2>2
  <2>4. /\ Aborted(s1, ov) /\ s1.running_batch = b0
        /\ s1.chunked_req = s.chunked_req /\ s1.req = s.req
    BY <1>1, <2>1, <2>2, <2>3, OtherRunning
  <2>5. \A r \in Reqs : s.req[r].st = "live" => r \in kept \/ r = s.chunked_req
    BY DEF Ready, Finished
  <2> QED
    BY <2>2, <2>4, <2>5 DEF Ready
<1> QED
  BY <1>2, <1>3

-----------------------------------------------------------------------------
(* PrefillAdder *)

\* The tokens that each chosen request is extended by.
RunType == UNION {[D -> Nat] : D \in SUBSET Reqs}

\* The state of PrefillAdder.
AdderType ==
  [avail : Int, total_offset : Int, current_offset : Int, rem_chunk : Int, run : RunType,
   new_chunked : Reqs \cup {NoReq, -1}, full : BOOLEAN, stop : BOOLEAN]

\* The pages that the chosen requests take at most.
Spent(run) ==
  SumFunctionOnSet([r \in Reqs |-> IF r \in DOMAIN run THEN CeilPaged(run[r]) ELSE 0], Reqs)

\* The chosen requests take a number of pages.
LEMMA RunFacts ==
  ASSUME NEW run \in RunType
  PROVE  /\ DOMAIN run \in SUBSET Reqs /\ \A r \in DOMAIN run : run[r] \in Nat
         /\ Spent(run) \in Nat
<1>1. PICK D \in SUBSET Reqs : run \in [D -> Nat]
  BY DEF RunType
<1>2. DOMAIN run = D /\ \A r \in D : run[r] \in Nat
  BY <1>1
<1> DEFINE w == [r \in Reqs |-> IF r \in DOMAIN run THEN CeilPaged(run[r]) ELSE 0]
<1>3. \A r \in Reqs : w[r] \in Nat
  BY <1>2, CeilPagedBounds
<1>4. IsFiniteSet(Reqs)
  BY LoopAssumption
<1> HIDE DEF w
<1>5. SumFunctionOnSet(w, Reqs) \in Nat
  BY <1>3, <1>4, SumInNat
<1> QED
  BY <1>1, <1>2, <1>5 DEF Spent, w

\* g chooses r, for n tokens, besides what f chooses.
Chooses(f, g, r, n) ==
  /\ g \in RunType /\ DOMAIN g = DOMAIN f \cup {r} /\ g[r] = n
  /\ \A x \in DOMAIN f : x # r => g[x] = f[x]

\* One more request is chosen.
LEMMA WithType ==
  ASSUME NEW run \in RunType, NEW r \in Reqs, NEW n \in Nat
  PROVE  Chooses(run, With(run, r, n), r, n)
<1>1. DOMAIN run \in SUBSET Reqs /\ \A x \in DOMAIN run : run[x] \in Nat
  BY RunFacts
<1>2. With(run, r, n) \in [DOMAIN run \cup {r} -> Nat]
  BY <1>1 DEF With
<1>3. DOMAIN run \cup {r} \in SUBSET Reqs
  BY <1>1
<1>4. With(run, r, n) \in RunType
  BY <1>2, <1>3 DEF RunType
<1> QED
  BY <1>4 DEF With, Chooses

\* Choosing a request that is not chosen yet.
LEMMA WithFacts ==
  ASSUME NEW run \in RunType, NEW r \in Reqs, NEW n \in Nat, r \notin DOMAIN run
  PROVE  /\ Chooses(run, With(run, r, n), r, n)
         /\ Spent(With(run, r, n)) = Spent(run) + CeilPaged(n)
<1> DEFINE g == With(run, r, n)
           w == [x \in Reqs |-> IF x \in DOMAIN run THEN CeilPaged(run[x]) ELSE 0]
           v == [x \in Reqs |-> IF x \in DOMAIN g THEN CeilPaged(g[x]) ELSE 0]
           e == [x \in Reqs |-> IF x = r THEN CeilPaged(n) ELSE 0]
<1>1. DOMAIN run \in SUBSET Reqs /\ \A x \in DOMAIN run : run[x] \in Nat
  BY RunFacts
<1>2. Chooses(run, g, r, n)
  BY WithType
<1> HIDE DEF g
<1>3. /\ DOMAIN g = DOMAIN run \cup {r} /\ g[r] = n /\ \A x \in DOMAIN run : g[x] = run[x]
  <2>1. \A x \in DOMAIN run : x # r
    OBVIOUS
  <2> QED
    BY <1>2, <2>1 DEF Chooses
<1>4. CeilPaged(n) \in Nat /\ \A x \in DOMAIN run : CeilPaged(run[x]) \in Nat
  BY <1>1, CeilPagedBounds
<1>5. \A x \in Reqs : w[x] \in Nat /\ e[x] \in Nat /\ v[x] = w[x] + e[x]
  BY <1>1, <1>3, <1>4
<1>6. IsFiniteSet(Reqs)
  BY LoopAssumption
<1>7. SumFunctionOnSet(e, Reqs) = CeilPaged(n)
  <2>1. e[r] = CeilPaged(n) /\ \A x \in Reqs \ {r} : e[x] = 0
    OBVIOUS
  <2>2. \A x \in Reqs : e[x] \in Nat
    BY <1>5
  <2> HIDE DEF e
  <2>3. SumFunctionOnSet(e, Reqs) = e[r] + SumFunctionOnSet(e, Reqs \ {r})
    BY <1>6, <2>2, SumMember
  <2>4. SumFunctionOnSet(e, Reqs \ {r}) = SumFunctionOnSet(e, {})
    <3>1. IsFiniteSet(Reqs \ {r}) /\ \A x \in Reqs \ {r} : e[x] \in Nat
      BY <1>6, <2>2, FS_Subset
    <3>2. \A x \in (Reqs \ {r}) \ {} : e[x] = 0
      BY <2>1
    <3> QED
      BY <3>1, <3>2, SumSupport
  <2> QED
    BY <1>4, <2>1, <2>3, <2>4, SumEmpty
<1>8. Spent(run) = SumFunctionOnSet(w, Reqs) /\ Spent(g) = SumFunctionOnSet(v, Reqs)
  BY DEF Spent
<1> HIDE DEF w, v, e
<1>9. SumFunctionOnSet(v, Reqs) = SumFunctionOnSet(w, Reqs) + SumFunctionOnSet(e, Reqs)
  BY <1>5, <1>6, SumPlus
<1> QED
  BY <1>2, <1>7, <1>8, <1>9 DEF g

\* b is a after n tokens and new to generate are reserved for r.
Reserved(a, b, r, n, new) ==
  /\ b \in AdderType /\ b.avail = a.avail /\ b.new_chunked = a.new_chunked
  /\ b.run = With(a.run, r, n)
  /\ b.total_offset = a.total_offset + CeilPaged(n) + PageSize + new
  /\ b.rem_chunk = a.rem_chunk - CeilPaged(n)
  /\ b.full = a.full /\ b.stop = a.stop

\* _update_prefill_budget, field by field.
LEMMA ReserveFacts ==
  ASSUME NEW a \in AdderType, NEW r \in Reqs, NEW n \in Nat, NEW new \in Nat
  PROVE  Reserved(a, Reserve(a, r, n, new), r, n, new)
<1>1. a.run \in RunType
  BY DEF AdderType
<1>2. With(a.run, r, n) \in RunType
  BY <1>1, WithType DEF Chooses
<1>3. CeilPaged(n) \in Int /\ PageSize \in Int
  BY CeilPagedBounds, CapacityAssumption
<1> DEFINE g == With(a.run, r, n)
           k == CeilPaged(n)
           t == a.total_offset + k + PageSize + new
           u == a.current_offset + k + PageSize
           v == a.rem_chunk - k
           b == [a EXCEPT !.run = g, !.total_offset = t, !.current_offset = u, !.rem_chunk = v]
<1>4. Reserve(a, r, n, new) = b
  BY DEF Reserve
<1>5. g \in RunType /\ t \in Int /\ u \in Int /\ v \in Int
  BY <1>2, <1>3 DEF AdderType
<1> HIDE DEF g, k, t, u, v
<1>6. /\ b \in AdderType /\ b.avail = a.avail /\ b.new_chunked = a.new_chunked
      /\ b.run = g /\ b.total_offset = t
      /\ b.rem_chunk = v /\ b.full = a.full /\ b.stop = a.stop
  BY <1>5 DEF AdderType
<1> QED
  BY <1>4, <1>6 DEF Reserved, g, k, t, v

\* budget_state changes no budget.
LEMMA VerdictFacts ==
  ASSUME NEW a \in AdderType
  PROVE  LET b == Verdict(a)
         IN  /\ b \in AdderType /\ b.avail = a.avail /\ b.new_chunked = a.new_chunked
             /\ b.run = a.run /\ b.total_offset = a.total_offset /\ b.rem_chunk = a.rem_chunk
  BY DEF Verdict, AdderType

\* No request fits in any more.
Closed(a) == a.rem_chunk < PageSize \/ RemTotal(a) < 0

\* The tokens of a request that have no KV yet.
Left(q) == FillLen(q) - q.kv

\* What the adder has chosen after the first i waiting requests.
AdderOK(s, a, i) ==
  LET c   == s.chunked_req
      new == a.new_chunked
  IN  /\ a \in AdderType /\ a.avail = Available(s)
      /\ c # NoReq => c \in DOMAIN a.run
      /\ \A r \in DOMAIN a.run : r = c \/ \E j \in 1..i : s.waiting_queue[j] = r
      /\ new = NoReq \/ new \in DOMAIN a.run
      /\ \A r \in DOMAIN a.run :
           /\ a.run[r] > 0
           /\ r # new => a.run[r] = Left(s.req[r])
           /\ r = new => a.run[r] < Left(s.req[r])
           /\ r = new /\ r # c => CeilPaged(a.run[r]) = a.run[r]
      /\ Spent(a.run) =< a.total_offset
      /\ (\E r \in DOMAIN a.run : r # c) => Spent(a.run) =< a.avail
      /\ new # NoReq /\ new # c =>
           Spent(a.run) - CeilPaged(a.run[new]) + CeilPaged(FillLen(s.req[new])) =< a.avail
      /\ new # NoReq => Closed(a)
      /\ new # NoReq /\ new = c => DOMAIN a.run = {c}

\* Lengths of a request.
LEMMA ReqLengths ==
  ASSUME NEW f \in [Reqs -> ReqType], NEW r \in Reqs
  PROVE  /\ f[r] \in ReqType /\ f[r].len \in Nat /\ f[r].max_new \in Nat /\ f[r].out \in Nat
         /\ f[r].kv \in Nat /\ FillLen(f[r]) \in Nat /\ Left(f[r]) \in Int
         /\ f[r].inflight_middle_chunks \in Nat
         /\ Greatest(f[r].max_new - f[r].out, 0) \in Nat
<1>1. f[r] \in ReqType
  OBVIOUS
<1>2. /\ f[r].len \in Nat /\ f[r].max_new \in Nat /\ f[r].out \in Nat
      /\ f[r].kv \in Nat /\ f[r].inflight_middle_chunks \in Nat
  BY <1>1 DEF ReqType
<1> QED
  BY <1>1, <1>2 DEF FillLen, Left, Greatest

\* A fresh adder.
LEMMA AdderFacts ==
  ASSUME NEW s \in StateType, NEW offset \in Nat
  PROVE  LET a == Adder(s, offset)
         IN  /\ a \in AdderType /\ a.avail = Available(s) /\ a.total_offset = offset
             /\ a.rem_chunk = ChunkSize /\ DOMAIN a.run = {} /\ a.new_chunked = NoReq
             /\ a.full = s.running_batch.batch_is_full /\ a.stop = FALSE
             /\ Spent(a.run) = 0
<1>1. Available(s) \in Int
  BY StateFields, AvailableFacts
<1>2. ChunkSize \in Int /\ s.running_batch.batch_is_full \in BOOLEAN
  BY StateFields, LoopAssumption DEF RunningType
<1>3. DOMAIN <<>> = {}
  OBVIOUS
<1>4. <<>> \in RunType
  <2>1. <<>> \in [{} -> Nat]
    BY <1>3
  <2> QED
    BY <2>1 DEF RunType
<1>5. Spent(<<>>) = 0
  <2> DEFINE w == [r \in Reqs |-> IF r \in DOMAIN <<>> THEN CeilPaged(<<>>[r]) ELSE 0]
  <2>1. IsFiniteSet(Reqs)
    BY LoopAssumption
  <2>2. (\A r \in Reqs : w[r] \in Nat) /\ \A r \in Reqs \ {} : w[r] = 0
    BY <1>3
  <2>3. Spent(<<>>) = SumFunctionOnSet(w, Reqs)
    BY DEF Spent
  <2> HIDE DEF w
  <2>4. SumFunctionOnSet(w, Reqs) = SumFunctionOnSet(w, {})
    BY <2>1, <2>2, SumSupport
  <2> QED
    BY <2>3, <2>4, SumEmpty
<1> DEFINE none == <<>>
<1>6. DOMAIN none = {} /\ none \in RunType /\ Spent(none) = 0
  BY <1>3, <1>4, <1>5
<1>7. Adder(s, offset) =
        [avail |-> Available(s), total_offset |-> offset, current_offset |-> 0,
         rem_chunk |-> ChunkSize, run |-> none, new_chunked |-> NoReq,
         full |-> s.running_batch.batch_is_full, stop |-> FALSE]
  BY DEF Adder
<1> HIDE DEF none
<1> QED
  BY <1>1, <1>2, <1>6, <1>7 DEF AdderType

\* The chunked request goes on, and if it is cut again nothing else fits in.
LEMMA AddChunkedReqOK ==
  ASSUME NEW s, StageOK(s), NEW offset \in Nat
  PROVE  AdderOK(s, AddChunkedReq(s, Adder(s, offset)), 0)
<1> DEFINE c == s.chunked_req
           a == Adder(s, offset)
<1>1. s \in StateType /\ ChunkedOK(c, s.req)
  BY DEF StageOK
<1>2. /\ a \in AdderType /\ a.avail = Available(s) /\ a.total_offset = offset
      /\ a.rem_chunk = ChunkSize /\ DOMAIN a.run = {} /\ a.new_chunked = NoReq
      /\ Spent(a.run) = 0
  BY <1>1, AdderFacts
<1> HIDE DEF a
<1>3. CASE c = NoReq
  <2>1. AddChunkedReq(s, a) = a
    BY <1>3 DEF AddChunkedReq
  <2>2. AdderOK(s, a, 0)
    BY <1>2, <1>3 DEF AdderOK
  <2> QED
    BY <2>1, <2>2 DEF a
<1>4. CASE c # NoReq
  <2> DEFINE q == s.req[c]
             room == Least(a.rem_chunk, RemTotal(a))
             limit == IF room > 0 THEN room ELSE a.rem_chunk
             left == FillLen(q) - q.kv
             n == Least(left, limit)
             new == IF left > limit THEN 0 ELSE q.max_new
             b == Reserve(a, c, n, new)
             mid == IF left > limit THEN c ELSE NoReq
             d == [b EXCEPT !.new_chunked = mid]
  <2>1. c \in Reqs /\ s.req \in [Reqs -> ReqType]
    BY <1>1, <1>4, StateFields
  <2>2. /\ q \in ReqType /\ FillLen(q) \in Nat /\ q.kv \in Nat /\ q.max_new \in Nat
        /\ q.kv < FillLen(q)
    BY <1>1, <1>4, <2>1, ReqLengths DEF ChunkedOK
  <2>3. AddChunkedReq(s, a) = d
    BY <1>4 DEF AddChunkedReq
  <2>4. left \in Nat /\ left > 0 /\ new \in Nat /\ left = Left(q)
    BY <2>2 DEF Left
  <2>5. /\ a.avail \in Int /\ RemTotal(a) \in Int /\ RemTotal(a) = a.avail - offset
        /\ a.rem_chunk \in Nat /\ a.rem_chunk > 0
        /\ ChunkSize \in Nat /\ PageSize \in Nat /\ PageSize > 0
    BY <1>2, LoopAssumption, CapacityAssumption DEF AdderType, RemTotal
  <2>6. /\ limit \in Nat /\ limit > 0
        /\ limit = a.rem_chunk \/ limit = RemTotal(a)
    BY <2>5 DEF Least
  <2> HIDE DEF limit, q, left, new
  <2>7. n \in Nat /\ n > 0 /\ (left > limit => n = limit) /\ (~(left > limit) => n = left)
    BY <2>4, <2>6 DEF Least
  <2> HIDE DEF n
  <2>8. /\ b \in AdderType /\ b.avail = a.avail /\ b.run = With(a.run, c, n)
        /\ b.total_offset = offset + CeilPaged(n) + PageSize + new
        /\ b.rem_chunk = a.rem_chunk - CeilPaged(n)
    <3>1. c \in Reqs /\ a \in AdderType /\ n \in Nat /\ new \in Nat
      BY <1>2, <2>1, <2>4, <2>7
    <3> HIDE DEF c
    <3>2. /\ b \in AdderType /\ b.avail = a.avail /\ b.run = With(a.run, c, n)
          /\ b.total_offset = a.total_offset + CeilPaged(n) + PageSize + new
          /\ b.rem_chunk = a.rem_chunk - CeilPaged(n)
      <4>1. Reserved(a, b, c, n, new)
        BY <3>1, ReserveFacts
      <4> HIDE DEF b
      <4> QED
        BY <4>1 DEF Reserved
    <3> HIDE DEF b
    <3> QED
      BY <1>2, <3>2
  <2>9. a.run \in RunType
    BY <1>2 DEF AdderType
  <2>10. /\ DOMAIN b.run = {c} /\ b.run[c] = n /\ Spent(b.run) = CeilPaged(n)
    <3>1. /\ DOMAIN With(a.run, c, n) = DOMAIN a.run \cup {c} /\ With(a.run, c, n)[c] = n
          /\ Spent(With(a.run, c, n)) = Spent(a.run) + CeilPaged(n)
      <4>1. c \notin DOMAIN a.run /\ c \in Reqs
        BY <1>2, <2>1
      <4>2. n \in Nat
        BY <2>7
      <4> HIDE DEF c
      <4>3. /\ Chooses(a.run, With(a.run, c, n), c, n)
            /\ Spent(With(a.run, c, n)) = Spent(a.run) + CeilPaged(n)
        BY <2>9, <4>1, <4>2, WithFacts
      <4> QED
        BY <4>3 DEF Chooses
    <3>2. CeilPaged(n) \in Nat
      BY <2>7, CeilPagedBounds
    <3> QED
      BY <1>2, <2>8, <3>1, <3>2
  <2>11. mid \in Reqs \cup {NoReq}
    BY <2>1
  <2> HIDE DEF mid, b
  <2>12. /\ d \in AdderType /\ d.avail = Available(s) /\ d.run = b.run /\ d.new_chunked = mid
         /\ d.total_offset = b.total_offset /\ d.rem_chunk = b.rem_chunk
    BY <1>2, <2>8, <2>11 DEF AdderType
  <2> HIDE DEF d
  <2>13. CeilPaged(n) \in Nat /\ n =< CeilPaged(n)
    BY <2>7, CeilPagedBounds
  <2>14. ASSUME left > limit
         PROVE  Closed(d)
    <3>1. n = limit /\ new = 0
      BY <2>7, <2>14 DEF new
    <3>2. CASE limit = a.rem_chunk
      BY <2>5, <2>6, <2>8, <2>12, <2>13, <3>1, <3>2 DEF Closed
    <3>3. CASE limit = RemTotal(a)
      <4>1. RemTotal(d) = a.avail - (offset + CeilPaged(n) + PageSize + 0)
        BY <1>2, <2>8, <2>12, <3>1 DEF RemTotal
      <4>2. RemTotal(d) < 0
        BY <2>5, <2>6, <2>13, <3>1, <3>3, <4>1
      <4> QED
        BY <4>2 DEF Closed
    <3> QED
      BY <2>6, <3>2, <3>3
  <2>15. mid # NoReq => left > limit /\ mid = c
    BY DEF mid
  <2>16. left > limit => mid = c
    BY DEF mid
  <2>17. \A r \in DOMAIN d.run :
           /\ d.run[r] > 0
           /\ r # mid => d.run[r] = Left(s.req[r])
           /\ r = mid => d.run[r] < Left(s.req[r])
           /\ r = mid /\ r # c => CeilPaged(d.run[r]) = d.run[r]
    <3>1. SUFFICES /\ n > 0 /\ (c # mid => n = left) /\ (c = mid => n < left)
      BY <2>4, <2>10, <2>12 DEF q
    <3> QED
      BY <1>4, <2>4, <2>6, <2>7, <2>15, <2>16
  <2>18. Spent(d.run) =< d.total_offset
    BY <2>4, <2>5, <2>8, <2>10, <2>12, <2>13
  <2>19. AdderOK(s, d, 0)
    BY <1>4, <2>10, <2>12, <2>14, <2>15, <2>17, <2>18 DEF AdderOK
  <2> QED
    BY <2>3, <2>19 DEF a
<1> QED
  BY <1>3, <1>4

\* Nothing is chosen.
Passed(a, b) ==
  /\ b.avail = a.avail /\ b.new_chunked = a.new_chunked /\ b.run = a.run
  /\ b.total_offset = a.total_offset /\ b.rem_chunk = a.rem_chunk

\* r is chosen, with all of its prompt or with what is left of the chunk.
Chosen(s, a, b, r) ==
  LET q   == s.req[r]
      n   == FillLen(q)
      cut == FloorPaged(a.rem_chunk)
  IN  /\ n + Greatest(q.max_new - q.out, 0) + PageSize < RemTotal(a)
      /\ b.avail = a.avail
      /\ \/ /\ CeilPaged(n) =< a.rem_chunk /\ b.run = With(a.run, r, n)
            /\ b.total_offset = a.total_offset + CeilPaged(n) + PageSize + q.max_new
            /\ b.rem_chunk = a.rem_chunk - CeilPaged(n) /\ b.new_chunked = a.new_chunked
         \/ /\ CeilPaged(n) > a.rem_chunk /\ cut > 0 /\ b.run = With(a.run, r, cut)
            /\ b.total_offset = a.total_offset + CeilPaged(cut) + PageSize
            /\ b.rem_chunk = a.rem_chunk - CeilPaged(cut)
            /\ b.new_chunked = IF a.new_chunked = NoReq THEN r ELSE -1

\* add_one_req passes a request over or chooses it; the gates it passed say which.
LEMMA AddOneReqCases ==
  ASSUME NEW s \in StateType, NEW a \in AdderType, NEW r \in Reqs
  PROVE  LET b == AddOneReq(s, a, r)
             q == s.req[r]
         IN  /\ b \in AdderType
             /\ Passed(a, b) \/ Chosen(s, a, b, r)
             /\ /\ ~a.stop /\ ~a.full /\ Cardinality(DOMAIN a.run) < NumAllocatableReqs(s)
                /\ FillLen(q) + Greatest(q.max_new - q.out, 0) + PageSize < RemTotal(a)
                /\ a.rem_chunk >= PageSize
                => Chosen(s, a, b, r)
<1> DEFINE b == AddOneReq(s, a, r)
           q == s.req[r]
           n == FillLen(q)
           total == n + Greatest(q.max_new - q.out, 0) + PageSize
           cut == FloorPaged(a.rem_chunk)
           num == NumAllocatableReqs(s)
           card == Cardinality(DOMAIN a.run)
           full == [a EXCEPT !.full = TRUE, !.stop = TRUE]
           stop == [a EXCEPT !.stop = TRUE]
           whole == Reserve(a, r, n, q.max_new)
           part == Reserve(a, r, cut, 0)
           mid == IF a.new_chunked = NoReq THEN r ELSE -1
           some == [part EXCEPT !.new_chunked = mid]
<1>1. s.req \in [Reqs -> ReqType]
  BY StateFields
<1>2. /\ q \in ReqType /\ n \in Nat /\ q.max_new \in Nat /\ Greatest(q.max_new - q.out, 0) \in Nat
  BY <1>1, ReqLengths
<1>3. a.rem_chunk \in Int /\ RemTotal(a) \in Int /\ PageSize \in Nat
  BY CapacityAssumption DEF AdderType, RemTotal
<1>4. cut \in Int /\ (a.rem_chunk >= PageSize => cut > 0)
  BY <1>3, CutFacts
<1>5. CeilPaged(n) \in Nat /\ total \in Nat
  BY <1>2, <1>3, CeilPagedBounds
<1>6. b = IF a.stop THEN a
          ELSE IF a.full \/ card >= num THEN full
          ELSE IF total >= RemTotal(a) THEN full
          ELSE IF CeilPaged(n) =< a.rem_chunk THEN Verdict(whole)
          ELSE IF cut =< 0 THEN stop
          ELSE Verdict([part EXCEPT !.new_chunked = IF @ = NoReq THEN r ELSE -1])
  BY DEF AddOneReq
<1>7. full \in AdderType /\ Passed(a, full) /\ stop \in AdderType /\ Passed(a, stop) /\ Passed(a, a)
  BY DEF AdderType, Passed
<1>8. ASSUME CeilPaged(n) =< a.rem_chunk, total < RemTotal(a)
      PROVE  Verdict(whole) \in AdderType /\ Chosen(s, a, Verdict(whole), r)
  <2>1. /\ whole \in AdderType /\ whole.avail = a.avail /\ whole.new_chunked = a.new_chunked
        /\ whole.run = With(a.run, r, n)
        /\ whole.total_offset = a.total_offset + CeilPaged(n) + PageSize + q.max_new
        /\ whole.rem_chunk = a.rem_chunk - CeilPaged(n)
    <3>1. Reserved(a, whole, r, n, q.max_new)
      BY <1>1, <1>2, ReserveFacts
    <3> HIDE DEF whole
    <3> QED
      BY <3>1 DEF Reserved
  <2> HIDE DEF whole
  <2> DEFINE v == Verdict(whole)
  <2>2. /\ v \in AdderType /\ v.avail = whole.avail /\ v.new_chunked = whole.new_chunked
        /\ v.run = whole.run /\ v.total_offset = whole.total_offset
        /\ v.rem_chunk = whole.rem_chunk
    BY <2>1, VerdictFacts
  <2> HIDE DEF v
  <2>3. Chosen(s, a, v, r)
    BY <1>8, <2>1, <2>2 DEF Chosen
  <2> QED
    BY <2>2, <2>3 DEF v
<1>9. ASSUME CeilPaged(n) > a.rem_chunk, cut > 0, total < RemTotal(a)
      PROVE  /\ Verdict(some) \in AdderType /\ Chosen(s, a, Verdict(some), r)
             /\ [part EXCEPT !.new_chunked = IF @ = NoReq THEN r ELSE -1] = some
  <2>1. cut \in Nat
    BY <1>4, <1>9
  <2>2. /\ part \in AdderType /\ part.avail = a.avail /\ part.new_chunked = a.new_chunked
        /\ part.run = With(a.run, r, cut)
        /\ part.total_offset = a.total_offset + CeilPaged(cut) + PageSize + 0
        /\ part.rem_chunk = a.rem_chunk - CeilPaged(cut)
    <3>1. Reserved(a, part, r, cut, 0)
      BY <2>1, ReserveFacts
    <3> HIDE DEF part
    <3> QED
      BY <3>1 DEF Reserved
  <2>3. CeilPaged(cut) \in Nat /\ a.total_offset \in Int
    BY <2>1, CeilPagedBounds DEF AdderType
  <2> HIDE DEF part
  <2>4. [part EXCEPT !.new_chunked = IF @ = NoReq THEN r ELSE -1] = some
    BY <2>2
  <2>5. mid \in Reqs \cup {NoReq, -1}
    OBVIOUS
  <2>6. /\ some \in AdderType /\ some.avail = a.avail /\ some.new_chunked = mid
        /\ some.run = With(a.run, r, cut)
        /\ some.total_offset = a.total_offset + CeilPaged(cut) + PageSize
        /\ some.rem_chunk = a.rem_chunk - CeilPaged(cut)
    <3> HIDE DEF mid
    <3>1. /\ some \in AdderType /\ some.avail = part.avail /\ some.new_chunked = mid
          /\ some.run = part.run /\ some.total_offset = part.total_offset
          /\ some.rem_chunk = part.rem_chunk
      BY <2>2, <2>5 DEF AdderType
    <3> HIDE DEF some
    <3> QED
      BY <1>3, <2>2, <2>3, <3>1
  <2> HIDE DEF some
  <2> DEFINE v == Verdict(some)
  <2>7. /\ v \in AdderType /\ v.avail = some.avail /\ v.new_chunked = some.new_chunked
        /\ v.run = some.run /\ v.total_offset = some.total_offset
        /\ v.rem_chunk = some.rem_chunk
    BY <2>6, VerdictFacts
  <2> HIDE DEF v
  <2>8. Chosen(s, a, v, r)
    BY <1>9, <2>6, <2>7 DEF Chosen
  <2> QED
    BY <2>4, <2>7, <2>8 DEF v
<1> DEFINE gated == a.stop \/ a.full \/ card >= num \/ total >= RemTotal(a)
<1>10. CASE gated
  <2>1. b = a \/ b = full
    BY <1>6, <1>10
  <2>2. b \in AdderType /\ Passed(a, b)
    BY <1>7, <2>1
  <2> HIDE DEF b
  <2>3. ~(~a.stop /\ ~a.full /\ card < num /\ total < RemTotal(a))
    <3>1. num \in Int /\ card \in Int
      <4>1. DOMAIN a.run \in SUBSET Reqs
        <5>1. a.run \in RunType
          BY DEF AdderType
        <5> QED
          BY <5>1, RunFacts
      <4>2. IsFiniteSet(Reqs) /\ MaxRunning \in Int
        BY LoopAssumption
      <4>3. card \in Nat
        BY <4>1, <4>2, FS_Subset, FS_CardinalityType
      <4>4. num \in Int
        <5> DEFINE B == s.running_batch.reqs
                   K == {x \in Reqs : s.req[x].kv > 0}
        <5>1. B \in SUBSET Reqs /\ K \in SUBSET Reqs
          BY StateFields
        <5>2. Cardinality(B) \in Nat /\ Cardinality(K) \in Nat
          BY <4>2, <5>1, FS_Subset, FS_CardinalityType
        <5>3. num = Least(MaxRunning - Cardinality(B), MaxRunning - Cardinality(K))
          BY DEF NumAllocatableReqs
        <5> HIDE DEF num, B, K
        <5> QED
          BY <4>2, <5>2, <5>3 DEF Least
      <4> QED
        BY <4>3, <4>4
    <3> HIDE DEF num, card, total
    <3> QED
      BY <1>3, <1>5, <1>10, <3>1
  <2> QED
    BY <2>2, <2>3 DEF b
<1>11. CASE ~gated
  <2>1. ~a.stop /\ ~a.full /\ ~(card >= num) /\ ~(total >= RemTotal(a))
    BY <1>11
  <2>2. total < RemTotal(a)
    <3> HIDE DEF total
    <3> QED
      BY <1>3, <1>5, <2>1
  <2>3. CASE CeilPaged(n) =< a.rem_chunk
    <3>1. b = Verdict(whole)
      BY <1>6, <2>1, <2>3
    <3> QED
      BY <1>8, <2>2, <2>3, <3>1
  <2>4. CASE ~(CeilPaged(n) =< a.rem_chunk) /\ cut =< 0
    <3>1. b = stop
      BY <1>6, <2>1, <2>4
    <3>2. ~(a.rem_chunk >= PageSize)
      <4> HIDE DEF cut
      <4> QED
        BY <1>3, <1>4, <2>4
    <3> QED
      BY <1>7, <3>1, <3>2
  <2>5. CASE ~(CeilPaged(n) =< a.rem_chunk) /\ ~(cut =< 0)
    <3>1. CeilPaged(n) > a.rem_chunk /\ cut > 0
      <4> HIDE DEF cut, n
      <4> QED
        BY <1>3, <1>4, <1>5, <2>5
    <3>2. b = Verdict(some)
      <4>1. b = Verdict([part EXCEPT !.new_chunked = IF @ = NoReq THEN r ELSE -1])
        BY <1>6, <2>1, <2>5
      <4> QED
        BY <1>9, <2>2, <3>1, <4>1
    <3> QED
      BY <1>9, <2>2, <3>1, <3>2
  <2> QED
    BY <2>3, <2>4, <2>5
<1> HIDE DEF gated
<1> QED
  BY <1>10, <1>11

\* One more waiting request.
LEMMA AddOneReqOK ==
  ASSUME NEW s, StageOK(s), NEW i \in 1..Len(s.waiting_queue), NEW a, AdderOK(s, a, i - 1)
  PROVE  LET b == AddOneReq(s, a, s.waiting_queue[i])
         IN  AdderOK(s, b, i) /\ DOMAIN a.run \subseteq DOMAIN b.run
<1> DEFINE wq == s.waiting_queue
           r == wq[i]
           b == AddOneReq(s, a, r)
           c == s.chunked_req
           q == s.req[r]
           n == FillLen(q)
           cut == FloorPaged(a.rem_chunk)
<1>1. /\ s \in StateType /\ QueueOK(wq, s.req) /\ ChunkedOK(c, s.req) /\ ReqsOK(s.req)
  BY DEF StageOK
<1>2. /\ wq \in Seq(Reqs) /\ s.req \in [Reqs -> ReqType] /\ c \in Reqs \cup {NoReq}
  BY <1>1, StateFields
<1>3. /\ r \in Reqs /\ i \in Nat /\ Len(wq) \in Nat /\ DOMAIN wq = 1..Len(wq)
  BY <1>2
<1>4. q.st = "waiting"
  BY <1>1, <1>3 DEF QueueOK, Listed
<1>5. r # c
  BY <1>1, <1>3, <1>4, NoReqFacts DEF ChunkedOK
<1>6. /\ q \in ReqType /\ n \in Nat /\ q.kv = 0 /\ q.len > 0 /\ Left(q) = n /\ n > 0
      /\ q.max_new \in Nat /\ Greatest(q.max_new - q.out, 0) \in Nat
  <2>1. /\ q \in ReqType /\ n \in Nat /\ q.len \in Nat /\ q.out \in Nat
        /\ q.max_new \in Nat /\ Greatest(q.max_new - q.out, 0) \in Nat
    BY <1>2, <1>3, ReqLengths
  <2>2. ReqOK(q)
    BY <1>1, <1>3 DEF ReqsOK
  <2>3. q.kv = 0 /\ q.len > 0
    BY <1>4, <2>2 DEF ReqOK
  <2>4. n = q.len + q.out /\ Left(q) = n - q.kv
    BY DEF Left, FillLen
  <2> HIDE DEF n, q
  <2> QED
    BY <2>1, <2>3, <2>4
<1>7. /\ a \in AdderType /\ a.avail = Available(s)
      /\ c # NoReq => c \in DOMAIN a.run
      /\ \A x \in DOMAIN a.run : x = c \/ \E j \in 1..(i - 1) : wq[j] = x
      /\ a.new_chunked = NoReq \/ a.new_chunked \in DOMAIN a.run
      /\ \A x \in DOMAIN a.run :
           /\ a.run[x] > 0
           /\ x # a.new_chunked => a.run[x] = Left(s.req[x])
           /\ x = a.new_chunked => a.run[x] < Left(s.req[x])
           /\ x = a.new_chunked /\ x # c => CeilPaged(a.run[x]) = a.run[x]
      /\ Spent(a.run) =< a.total_offset
      /\ (\E x \in DOMAIN a.run : x # c) => Spent(a.run) =< a.avail
      /\ a.new_chunked # NoReq /\ a.new_chunked # c =>
           Spent(a.run) - CeilPaged(a.run[a.new_chunked])
             + CeilPaged(FillLen(s.req[a.new_chunked])) =< a.avail
      /\ a.new_chunked # NoReq => Closed(a)
      /\ a.new_chunked # NoReq /\ a.new_chunked = c => DOMAIN a.run = {c}
  BY DEF AdderOK
<1>8. r \notin DOMAIN a.run
  <2>1. \A j \in 1..(i - 1) : wq[j] # r
    <3>1. \A j \in 1..(i - 1) : j \in DOMAIN wq /\ j # i /\ i \in DOMAIN wq
      BY <1>3
    <3> QED
      BY <1>1, <3>1 DEF QueueOK, Distinct
  <2> HIDE DEF r
  <2> QED
    BY <1>5, <1>7, <2>1
<1>9. /\ b \in AdderType /\ (Passed(a, b) \/ Chosen(s, a, b, r))
  BY <1>1, <1>3, <1>7, AddOneReqCases
<1>10. \A x : (\E j \in 1..(i - 1) : wq[j] = x) => \E j \in 1..i : wq[j] = x
  <2>1. \A j \in 1..(i - 1) : j \in 1..i
    BY <1>3
  <2> QED
    BY <2>1
<1>11. \E j \in 1..i : wq[j] = r
  <2>1. i \in 1..i
    BY <1>3
  <2> QED
    BY <2>1
<1> HIDE DEF b
<1>12. CASE Passed(a, b)
  <2>1. Closed(a) => Closed(b)
    BY <1>12 DEF Closed, RemTotal, Passed
  <2>2. AdderOK(s, b, i)
    BY <1>7, <1>9, <1>10, <1>12, <2>1 DEF AdderOK, Passed
  <2> QED
    BY <1>12, <2>2 DEF Passed, b
<1>13. CASE Chosen(s, a, b, r)
  <2>1. /\ a.avail \in Int /\ a.total_offset \in Int /\ a.rem_chunk \in Int /\ a.run \in RunType
        /\ RemTotal(a) = a.avail - a.total_offset /\ PageSize \in Nat /\ PageSize > 0
    BY <1>7, CapacityAssumption DEF AdderType, RemTotal
  <2>2. /\ n + Greatest(q.max_new - q.out, 0) + PageSize < RemTotal(a) /\ b.avail = a.avail
    BY <1>13 DEF Chosen
  <2>3. /\ CeilPaged(n) \in Nat /\ CeilPaged(n) < n + PageSize /\ CeilPaged(n) >= PageSize
    BY <1>6, CeilPagedBounds, CeilAligned
  <2>4. Spent(a.run) \in Nat /\ \A x \in DOMAIN a.run : a.run[x] \in Nat
    BY <2>1, RunFacts
  <2> HIDE DEF n
  <2>5. CeilPaged(n) + Spent(a.run) < a.avail /\ RemTotal(a) > 0
    <3>1. Spent(a.run) =< a.total_offset
      BY <1>7
    <3>2. Greatest(q.max_new - q.out, 0) \in Nat /\ n \in Nat
      BY <1>6 DEF n
    <3> DEFINE g == Greatest(q.max_new - q.out, 0)
               cp == CeilPaged(n)
               sp == Spent(a.run)
               av == a.avail
               off == a.total_offset
    <3>3. /\ g \in Nat /\ n \in Nat /\ cp \in Nat /\ sp \in Nat /\ PageSize \in Nat
          /\ av \in Int /\ off \in Int
      BY <2>1, <2>3, <2>4, <3>2
    <3>4. n + g + PageSize < av - off /\ sp =< off /\ cp < n + PageSize /\ RemTotal(a) = av - off
      BY <2>1, <2>2, <2>3, <3>1
    <3> HIDE DEF g, cp, sp, av, off
    <3>5. cp + sp < av /\ RemTotal(a) > 0
      BY ONLY <3>3, <3>4
    <3> QED
      BY <3>5 DEF cp, sp, av
  <2>6. /\ cut \in Int /\ cut =< a.rem_chunk /\ a.rem_chunk < cut + PageSize
        /\ a.rem_chunk < PageSize => cut =< 0
        /\ cut > 0 => CeilPaged(cut) = cut
        /\ CeilPaged(n) > a.rem_chunk /\ cut > 0 => cut < n
    BY <1>6, <2>1, CutFacts
  <2> HIDE DEF cut
  <2>7. ~Closed(a)
    <3>1. ~(RemTotal(a) < 0)
      BY <2>1, <2>5
    <3>2. ~(a.rem_chunk < PageSize)
      BY <1>13, <2>1, <2>3, <2>6 DEF Chosen, n, cut
    <3> QED
      BY <3>1, <3>2 DEF Closed
  <2>8. a.new_chunked = NoReq
    BY <1>7, <2>7
  <2>9. \/ /\ CeilPaged(n) =< a.rem_chunk /\ b.run = With(a.run, r, n)
           /\ b.total_offset = a.total_offset + CeilPaged(n) + PageSize + q.max_new
           /\ b.rem_chunk = a.rem_chunk - CeilPaged(n) /\ b.new_chunked = NoReq
        \/ /\ CeilPaged(n) > a.rem_chunk /\ cut > 0 /\ b.run = With(a.run, r, cut)
           /\ b.total_offset = a.total_offset + CeilPaged(cut) + PageSize
           /\ b.rem_chunk = a.rem_chunk - CeilPaged(cut)
           /\ b.new_chunked = r
    BY <1>13, <2>8 DEF Chosen, n, cut
  <2>10. ASSUME NEW k \in Nat, b.run = With(a.run, r, k)
         PROVE  /\ DOMAIN b.run = DOMAIN a.run \cup {r} /\ b.run[r] = k
                /\ \A x \in DOMAIN a.run : b.run[x] = a.run[x]
                /\ Spent(b.run) = Spent(a.run) + CeilPaged(k)
    <3>1. r \in Reqs /\ r \notin DOMAIN a.run /\ a.run \in RunType
      BY <1>3, <1>8, <2>1
    <3> HIDE DEF r
    <3> DEFINE f == a.run
    <3>2. f \in RunType /\ r \notin DOMAIN f
      BY <3>1
    <3> HIDE DEF f
    <3>3. Chooses(f, With(f, r, k), r, k) /\ Spent(With(f, r, k)) = Spent(f) + CeilPaged(k)
      BY ONLY k \in Nat, <3>1, <3>2, WithFacts
    <3>4. Chooses(f, b.run, r, k) /\ Spent(b.run) = Spent(f) + CeilPaged(k)
      BY <2>10, <3>3 DEF f
    <3>5. \A x \in DOMAIN f : x # r
      BY <3>2
    <3>6. /\ DOMAIN b.run = DOMAIN f \cup {r} /\ b.run[r] = k
          /\ \A x \in DOMAIN f : b.run[x] = f[x]
      BY <3>4, <3>5 DEF Chooses
    <3> QED
      BY <3>4, <3>6 DEF f
  <2>11. CASE CeilPaged(n) =< a.rem_chunk /\ b.new_chunked = NoReq /\ b.run = With(a.run, r, n)
              /\ b.total_offset = a.total_offset + CeilPaged(n) + PageSize + q.max_new
    <3>1. /\ DOMAIN b.run = DOMAIN a.run \cup {r} /\ b.run[r] = n
          /\ \A x \in DOMAIN a.run : b.run[x] = a.run[x]
          /\ Spent(b.run) = Spent(a.run) + CeilPaged(n)
      BY <1>6, <2>10, <2>11 DEF n
    <3>2. Spent(b.run) =< b.total_offset /\ Spent(b.run) =< b.avail
      <4>1. Spent(a.run) =< a.total_offset /\ q.max_new \in Nat
        BY <1>6, <1>7
      <4>2. Spent(b.run) = Spent(a.run) + CeilPaged(n)
        BY <3>1
      <4>3. b.total_offset = a.total_offset + CeilPaged(n) + PageSize + q.max_new
        BY <2>11
      <4> DEFINE cp == CeilPaged(n)
                 sp == Spent(a.run)
                 sb == Spent(b.run)
                 av == a.avail
                 off == a.total_offset
                 m == q.max_new
      <4>4. /\ cp \in Nat /\ sp \in Nat /\ av \in Int /\ off \in Int /\ m \in Nat
            /\ PageSize \in Nat
        BY <2>1, <2>3, <2>4, <4>1
      <4>5. /\ cp + sp < av /\ sb = sp + cp /\ sp =< off
            /\ b.total_offset = off + cp + PageSize + m /\ b.avail = av
        BY <2>2, <2>5, <4>1, <4>2, <4>3
      <4> HIDE DEF cp, sp, sb, av, off, m
      <4>6. sb =< b.total_offset /\ sb =< b.avail
        BY ONLY <4>4, <4>5
      <4> QED
        BY <4>6 DEF sb
    <3>3. \A x \in DOMAIN b.run : b.run[x] > 0 /\ b.run[x] = Left(s.req[x])
      <4>1. \A x \in DOMAIN a.run : x # NoReq
        <5>1. DOMAIN a.run \in SUBSET Reqs
          BY <2>1, RunFacts
        <5> QED
          BY <5>1, NoReqFacts
      <4>2. \A x \in DOMAIN a.run : b.run[x] > 0 /\ b.run[x] = Left(s.req[x])
        BY <1>7, <2>8, <3>1, <4>1
      <4>3. b.run[r] > 0 /\ b.run[r] = Left(s.req[r])
        BY <1>6, <3>1 DEF n
      <4> QED
        BY <3>1, <4>2, <4>3
    <3>4. \A x \in DOMAIN b.run : x = c \/ \E j \in 1..i : wq[j] = x
      BY <1>7, <1>10, <1>11, <3>1
    <3>5. \A x \in DOMAIN b.run : x # NoReq
      <4>1. b.run \in RunType
        BY <1>9 DEF AdderType
      <4>2. DOMAIN b.run \in SUBSET Reqs
        BY <4>1, RunFacts
      <4> QED
        BY <4>2, NoReqFacts
    <3>6. AdderOK(s, b, i)
      BY <1>7, <1>9, <2>2, <2>11, <3>1, <3>2, <3>3, <3>4, <3>5 DEF AdderOK
    <3> QED
      BY <3>1, <3>6 DEF b
  <2>12. CASE CeilPaged(n) > a.rem_chunk /\ cut > 0 /\ b.run = With(a.run, r, cut)
              /\ b.total_offset = a.total_offset + CeilPaged(cut) + PageSize
              /\ b.rem_chunk = a.rem_chunk - CeilPaged(cut) /\ b.new_chunked = r
    <3>0. cut \in Nat /\ cut < n /\ CeilPaged(cut) = cut
      BY <2>6, <2>12
    <3>1. /\ DOMAIN b.run = DOMAIN a.run \cup {r} /\ b.run[r] = cut
          /\ \A x \in DOMAIN a.run : b.run[x] = a.run[x]
          /\ Spent(b.run) = Spent(a.run) + CeilPaged(cut)
      BY <2>10, <2>12, <3>0
    <3>2. n =< CeilPaged(n)
      BY <1>6, CeilPagedBounds DEF n
    <3>3. Spent(b.run) =< b.total_offset /\ Spent(b.run) =< b.avail
      <4>1. Spent(a.run) =< a.total_offset
        BY <1>7
      <4>2. Spent(b.run) = Spent(a.run) + CeilPaged(cut)
        BY <3>1
      <4>3. b.total_offset = a.total_offset + CeilPaged(cut) + PageSize
        BY <2>12
      <4>4. n \in Nat
        BY <1>6 DEF n
      <4> DEFINE cp == CeilPaged(cut)
                 cn == CeilPaged(n)
                 sp == Spent(a.run)
                 sb == Spent(b.run)
                 av == a.avail
                 off == a.total_offset
      <4>5. /\ cp \in Nat /\ cn \in Nat /\ sp \in Nat /\ av \in Int /\ off \in Int
            /\ PageSize \in Nat
        BY <2>1, <2>3, <2>4, <3>0
      <4>6. cp =< cn
        BY <2>3, <3>0, <3>2, <4>4
      <4>7. /\ cn + sp < av /\ sb = sp + cp /\ sp =< off
            /\ b.total_offset = off + cp + PageSize /\ b.avail = av
        BY <2>2, <2>5, <4>1, <4>2, <4>3
      <4> HIDE DEF cp, cn, sp, sb, av, off
      <4>8. sb =< b.total_offset /\ sb =< b.avail
        BY ONLY <4>5, <4>6, <4>7
      <4> QED
        BY <4>8 DEF sb
    <3>4. Spent(b.run) - CeilPaged(b.run[r]) + CeilPaged(FillLen(s.req[r])) =< b.avail
      <4>1. CeilPaged(FillLen(s.req[r])) = CeilPaged(n)
        BY DEF n
      <4>2. /\ Spent(b.run) = Spent(a.run) + CeilPaged(cut)
            /\ CeilPaged(b.run[r]) = CeilPaged(cut) /\ b.avail = a.avail
        BY <2>2, <3>1
      <4> HIDE DEF r
      <4> QED
        BY ONLY <2>1, <2>3, <2>4, <2>5, <3>0, <4>1, <4>2
    <3>5. Closed(b)
      BY <2>1, <2>6, <2>12, <3>0 DEF Closed
    <3>6. \A x \in DOMAIN b.run :
           /\ b.run[x] > 0
           /\ x # r => b.run[x] = Left(s.req[x])
           /\ x = r => b.run[x] < Left(s.req[x])
           /\ x = r /\ x # c => CeilPaged(b.run[x]) = b.run[x]
      <4>1. \A x \in DOMAIN a.run : x # NoReq
        <5>1. DOMAIN a.run \in SUBSET Reqs
          BY <2>1, RunFacts
        <5> QED
          BY <5>1, NoReqFacts
      <4>2. \A x \in DOMAIN a.run : b.run[x] > 0 /\ b.run[x] = Left(s.req[x]) /\ x # r
        BY <1>7, <1>8, <2>8, <3>1, <4>1
      <4>3. b.run[r] > 0 /\ b.run[r] < Left(s.req[r]) /\ CeilPaged(b.run[r]) = b.run[r]
        BY <1>6, <2>12, <3>0, <3>1 DEF n
      <4> QED
        BY <3>1, <4>2, <4>3
    <3>7. \A x \in DOMAIN b.run : x = c \/ \E j \in 1..i : wq[j] = x
      BY <1>7, <1>10, <1>11, <3>1
    <3>8. r \in DOMAIN b.run /\ r # c
      BY <1>5, <3>1
    <3> HIDE DEF r, q
    <3>9. AdderOK(s, b, i)
      BY <1>7, <1>9, <2>2, <2>12, <3>1, <3>3, <3>4, <3>5, <3>6, <3>7, <3>8 DEF AdderOK
    <3> QED
      BY <3>1, <3>9 DEF b, r
  <2> QED
    BY <2>9, <2>11, <2>12
<1> QED
  BY <1>9, <1>12, <1>13

\* The adder after the walk over the queue.
Walked(s, offset) ==
  FoldLeft(LAMBDA x, r : AddOneReq(s, x, r), AddChunkedReq(s, Adder(s, offset)),
           s.waiting_queue)

\* The first waiting request passes every gate.
HeadFits(s, offset) ==
  LET q == s.req[s.waiting_queue[1]]
  IN  /\ s.chunked_req = NoReq /\ Len(s.waiting_queue) > 0 /\ ~s.running_batch.batch_is_full
      /\ 0 < NumAllocatableReqs(s)
      /\ FillLen(q) + Greatest(q.max_new - q.out, 0) + PageSize < Available(s) - offset

\* The walk over the whole queue, and the one that finds the first request fitting.
LEMMA WalkedOK ==
  ASSUME NEW s, StageOK(s), NEW offset \in Nat
  PROVE  /\ AdderOK(s, Walked(s, offset), Len(s.waiting_queue))
         /\ HeadFits(s, offset) => DOMAIN Walked(s, offset).run # {}
<1> DEFINE queue == s.waiting_queue
           n == Len(queue)
           X == AdderType
           base == AddChunkedReq(s, Adder(s, offset))
           op(x, r) == AddOneReq(s, x, r)
           Def(g) == [T \in SUBSET (1..n) |-> IF T = {} THEN base
                                              ELSE op(g[T \ {Max(T)}], queue[Max(T)])]
           fold == CHOOSE g : g = Def(g)
           F == [z \in (1..n) \X X |-> op(z[2], queue[z[1]])]
           at(i) == fold[1..i]
<1>0. s \in StateType
  BY DEF StageOK
<1>1. n \in Nat /\ DOMAIN queue = 1..n /\ \A i \in 1..n : queue[i] \in Reqs
  <2>1. queue \in Seq(Reqs)
    BY <1>0, StateFields
  <2> QED
    BY <2>1
<1>2. Walked(s, offset) = at(n)
  <2>1. Walked(s, offset) = (CHOOSE g : g = [T \in SUBSET (DOMAIN queue) |->
           IF T = {} THEN base ELSE op(g[T \ {Max(T)}], queue[Max(T)])])[DOMAIN queue]
    BY DEF Walked, FoldLeft, MapThenFoldSet
  <2> QED
    BY <1>1, <2>1
<1>3. \A y \in X, r \in Reqs : op(y, r) \in X
  BY <1>0, AddOneReqCases
<1> HIDE DEF X
<1>4. F \in [(1..n) \X X -> X] /\ \A i \in 1..n, y \in X : F[<<i, y>>] = op(y, queue[i])
  <2> HIDE DEF op, n, queue
  <2> QED
    BY <1>1, <1>3
<1>5. base \in X /\ AdderOK(s, base, 0)
  BY AddChunkedReqOK DEF AdderOK, X
<1> HIDE DEF n, op, F, base, queue
<1>6. PICK g : IsListFold(g, n, X, base, F)
  BY <1>1, <1>4, <1>5, ListFoldExists
<1>7. g = Def(g)
  <2>1. \A T \in SUBSET (1..n) : g[T] = IF T = {} THEN base
                                        ELSE op(g[T \ {Max(T)}], queue[Max(T)])
    BY <1>4, <1>6 DEF IsListFold
  <2> QED
    BY <1>6, <2>1 DEF IsListFold
<1>8. fold = Def(fold)
  <2> HIDE DEF Def
  <2> QED
    BY <1>7
<1>9. \A T \in SUBSET (1..n) : fold[T] = IF T = {} THEN base
                                         ELSE op(fold[T \ {Max(T)}], queue[Max(T)])
  <2> HIDE DEF fold
  <2>1. fold = [T \in SUBSET (1..n) |-> IF T = {} THEN base
                                        ELSE op(fold[T \ {Max(T)}], queue[Max(T)])]
    BY <1>8
  <2> QED
    BY <2>1
<1> HIDE DEF fold
<1>10. at(0) = base
  <2>1. 1..0 = {}
    OBVIOUS
  <2> QED
    BY <1>9, <2>1
<1>11. \A i \in 1..n : at(i) = op(at(i - 1), queue[i])
  <2>1. TAKE i \in 1..n
  <2>2. 1..i \in SUBSET (1..n) /\ 1..i # {} /\ Max(1..i) = i /\ (1..i) \ {i} = 1..(i - 1)
    BY <1>1, PrefixLast
  <2> QED
    BY <1>9, <2>2
<1> HIDE DEF at
<1>12. ASSUME HeadFits(s, offset), n > 0
       PROVE  DOMAIN at(1).run # {}
  <2> DEFINE a == Adder(s, offset)
             r == queue[1]
             q == s.req[r]
  <2>1. base = a
    BY <1>12 DEF HeadFits, AddChunkedReq, base
  <2>2. /\ a \in AdderType /\ a.avail = Available(s) /\ a.total_offset = offset
        /\ a.rem_chunk = ChunkSize /\ DOMAIN a.run = {}
        /\ a.full = s.running_batch.batch_is_full /\ a.stop = FALSE
    BY <1>0, AdderFacts
  <2> HIDE DEF a
  <2>3. at(1) = AddOneReq(s, a, r) /\ r \in Reqs
    <3>1. 1 \in 1..n
      BY <1>1, <1>12
    <3>2. at(1) = op(at(1 - 1), queue[1])
      BY <1>11, <3>1
    <3> QED
      BY <1>1, <1>10, <2>1, <3>1, <3>2 DEF op
  <2>4. /\ ~a.stop /\ ~a.full /\ Cardinality(DOMAIN a.run) < NumAllocatableReqs(s)
        /\ FillLen(q) + Greatest(q.max_new - q.out, 0) + PageSize < RemTotal(a)
        /\ a.rem_chunk >= PageSize
    <3>1. Cardinality({}) = 0
      BY FS_EmptySet
    <3>2. RemTotal(a) = Available(s) - offset
      BY <2>2 DEF RemTotal
    <3> QED
      BY <1>12, <2>2, <3>1, <3>2, LoopAssumption DEF HeadFits, queue
  <2>5. Chosen(s, a, at(1), r)
    BY <1>0, <2>2, <2>3, <2>4, AddOneReqCases
  <2>6. /\ a.run \in RunType /\ FloorPaged(a.rem_chunk) \in Int /\ FillLen(q) \in Nat
    <3>1. a.run \in RunType /\ a.rem_chunk \in Int
      BY <2>2 DEF AdderType
    <3>2. s.req \in [Reqs -> ReqType]
      BY <1>0, StateFields
    <3> QED
      BY <2>3, <3>1, <3>2, CutFacts, ReqLengths
  <2>7. \A k \in Nat : r \in DOMAIN With(a.run, r, k)
    BY DEF With
  <2> QED
    BY <2>5, <2>6, <2>7 DEF Chosen
<1> DEFINE OK(i) == /\ AdderOK(s, at(i), i)
                    /\ HeadFits(s, offset) /\ i > 0 => DOMAIN at(i).run # {}
           Flawed == {i \in 0..n : ~OK(i)}
<1>13. OK(0)
  BY <1>5, <1>10
<1>14. ASSUME NEW i \in 1..n, OK(i - 1)
       PROVE  OK(i)
  <2>1. at(i) = AddOneReq(s, at(i - 1), queue[i])
    BY <1>11 DEF op
  <2>2. AdderOK(s, at(i), i) /\ DOMAIN at(i - 1).run \subseteq DOMAIN at(i).run
    <3>1. i \in 1..Len(s.waiting_queue) /\ AdderOK(s, at(i - 1), i - 1)
      BY <1>14 DEF n, queue
    <3> QED
      BY <2>1, <3>1, AddOneReqOK DEF queue
  <2>3. ASSUME HeadFits(s, offset)
        PROVE  DOMAIN at(i).run # {}
    <3>1. CASE i = 1
      <4>1. n > 0
        BY <1>1
      <4> QED
        BY <1>12, <2>3, <3>1, <4>1
    <3>2. CASE i # 1
      <4>1. i - 1 > 0
        BY <1>1, <3>2
      <4>2. DOMAIN at(i - 1).run # {}
        BY <1>14, <2>3, <4>1
      <4> QED
        BY <2>2, <4>2
    <3> QED
      BY <3>1, <3>2
  <2> QED
    BY <2>2, <2>3
<1> HIDE DEF OK
<1>15. Flawed = {}
  <2>1. SUFFICES ASSUME Flawed # {} PROVE FALSE
    OBVIOUS
  <2>2. Flawed \in SUBSET Nat
    OBVIOUS
  <2> DEFINE i == Min(Flawed)
  <2>3. i \in Flawed /\ \A j \in Flawed : i =< j
    BY <2>1, <2>2, LeastNatural
  <2> HIDE DEF i
  <2>4. i \in 0..n /\ ~OK(i) /\ i # 0
    BY <1>13, <2>3
  <2>5. i - 1 \in 0..n /\ i \in 1..n
    BY <1>1, <2>4
  <2>6. OK(i - 1)
    BY <2>3, <2>4, <2>5
  <2> QED
    BY <1>14, <2>4, <2>5, <2>6
<1>16. OK(n)
  BY <1>1, <1>15
<1>17. AdderOK(s, at(n), n) /\ (HeadFits(s, offset) /\ n > 0 => DOMAIN at(n).run # {})
  BY <1>16 DEF OK
<1>18. HeadFits(s, offset) => n > 0
  BY DEF HeadFits, n, queue
<1> QED
  BY <1>2, <1>17, <1>18 DEF n, queue

-----------------------------------------------------------------------------
(* Launching *)

\* What both loops rely on before a batch is chosen.
LEMMA ReadyFacts ==
  ASSUME NEW s, NEW ov \in BOOLEAN, Ready(s, ov)
  PROVE  LET last == s.last_batch
             run  == s.running_batch.reqs
             c    == s.chunked_req
         IN  /\ s \in StateType /\ s.fault = {} /\ StageOK(s) /\ s.pending_chunked_abort = NoReq
             /\ QueueOK(s.waiting_queue, s.req) /\ ChunkedOK(c, s.req) /\ ReqsOK(s.req)
             /\ LastOK(last) /\ last \in BatchType
             /\ \A r \in run : r \in Reqs /\ r # c /\ s.req[r].st \in {"live", "done"}
             /\ \A r \in last.reqs : r \in Reqs /\ s.req[r].st \in {"live", "done"}
             /\ c \in {NoReq, last.chunked_req}
             /\ last.chunked_req # c => s.req[last.chunked_req].st = "done"
             /\ s.result_queue = Due(last, ov)
             /\ \A r \in Reqs : s.req[r].inflight_middle_chunks = One(ov /\ r = last.chunked_req)
             /\ \A r \in Reqs \ {c} : Holds(s.req[r], One(ov /\ r \in last.reqs))
             /\ \A r \in Reqs : s.req[r].st = "live" => r \in run \/ r = c
             /\ Roomy /\ s.running_batch.batch_is_full => run # {}
<1>1. Aborted(s, ov)
  BY DEF Ready
<1>2. StageOK(s) /\ s \in StateType
  BY <1>1 DEF Aborted, StageOK
<1>3. /\ s.running_batch.reqs \in SUBSET Reqs /\ s.last_batch \in BatchType
      /\ s.last_batch.reqs \in SUBSET Reqs
  BY <1>2, StateFields
<1>4. \A r \in s.running_batch.reqs :
        r \in Reqs /\ r # s.chunked_req /\ s.req[r].st \in {"live", "done"}
  BY <1>1, <1>3, NoReqFacts DEF Aborted, InBatch
<1>5. \A r \in s.last_batch.reqs : r \in Reqs /\ s.req[r].st \in {"live", "done"}
  BY <1>1, <1>3 DEF Aborted, InBatch
<1> QED
  BY <1>1, <1>2, <1>3, <1>4, <1>5 DEF Ready, Aborted, StageOK

\* prepare_for_extend for one request, field by field.
LEMMA ExtendFacts ==
  ASSUME NEW q \in ReqType, NEW n \in Nat
  PROVE  LET e == Extend(q, n)
         IN  /\ e \in ReqType /\ e.st = "live" /\ e.is_retracted = FALSE /\ e.kv = q.kv + n
             /\ e.len = q.len /\ e.max_new = q.max_new /\ e.out = q.out
             /\ e.inflight_middle_chunks = q.inflight_middle_chunks
<1> DEFINE k == q.kv + n
           e == [q EXCEPT !.st = "live", !.is_retracted = FALSE, !.kv = k]
<1>1. Extend(q, n) = e
  BY DEF Extend
<1>2. k \in Nat
  BY DEF ReqType
<1> HIDE DEF k
<1>3. /\ e \in ReqType /\ e.st = "live" /\ e.is_retracted = FALSE /\ e.kv = k
      /\ e.len = q.len /\ e.max_new = q.max_new /\ e.out = q.out
      /\ e.inflight_middle_chunks = q.inflight_middle_chunks
  BY <1>2 DEF ReqType
<1> QED
  BY <1>1, <1>3 DEF k

\* A request that is cut short counts one more middle chunk.
LEMMA StartMiddleChunkFacts ==
  ASSUME NEW q \in ReqType
  PROVE  LET e == StartMiddleChunk(q)
         IN  /\ e \in ReqType /\ e.st = q.st /\ e.is_retracted = q.is_retracted /\ e.kv = q.kv
             /\ e.len = q.len /\ e.max_new = q.max_new /\ e.out = q.out
             /\ e.inflight_middle_chunks = q.inflight_middle_chunks + 1
  BY DEF StartMiddleChunk, ReqType

\* The requests after LaunchPrefill.
Extended(f, run, mid) ==
  [r \in Reqs |-> LET q == IF r = mid THEN StartMiddleChunk(f[r]) ELSE f[r]
                  IN  IF r \in DOMAIN run THEN Extend(q, run[r]) ELSE q]

\* What becomes of the requests of a prefill batch.
ExtendsTo(f, run, mid, g) ==
  /\ g \in [Reqs -> ReqType]
  /\ \A r \in Reqs :
       /\ g[r].len = f[r].len /\ g[r].max_new = f[r].max_new /\ g[r].out = f[r].out
       /\ r = mid => g[r].inflight_middle_chunks = f[r].inflight_middle_chunks + 1
       /\ r # mid => g[r].inflight_middle_chunks = f[r].inflight_middle_chunks
       /\ r \in DOMAIN run => /\ g[r].st = "live" /\ g[r].is_retracted = FALSE
                              /\ g[r].kv = f[r].kv + run[r]
       /\ r \notin DOMAIN run => /\ g[r].st = f[r].st /\ g[r].kv = f[r].kv
                                 /\ g[r].is_retracted = f[r].is_retracted
       /\ r \notin DOMAIN run /\ r # mid => g[r] = f[r]

\* Every request after a prefill launch.
LEMMA ExtendedFacts ==
  ASSUME NEW f \in [Reqs -> ReqType], NEW run \in RunType, NEW mid
  PROVE  ExtendsTo(f, run, mid, Extended(f, run, mid))
<1> DEFINE g == Extended(f, run, mid)
           q(r) == IF r = mid THEN StartMiddleChunk(f[r]) ELSE f[r]
<1>1. DOMAIN run \in SUBSET Reqs /\ \A r \in DOMAIN run : run[r] \in Nat
  BY RunFacts
<1>2. ASSUME NEW r \in Reqs
      PROVE  /\ q(r) \in ReqType /\ q(r).len = f[r].len /\ q(r).max_new = f[r].max_new
             /\ q(r).out = f[r].out /\ q(r).st = f[r].st /\ q(r).kv = f[r].kv
             /\ q(r).is_retracted = f[r].is_retracted
             /\ r = mid => q(r).inflight_middle_chunks = f[r].inflight_middle_chunks + 1
             /\ r # mid => q(r) = f[r]
  <2>1. f[r] \in ReqType /\ f[r].inflight_middle_chunks \in Nat
    BY DEF ReqType
  <2>2. CASE r = mid
    BY <2>1, <2>2, StartMiddleChunkFacts
  <2>3. CASE r # mid
    BY <2>1, <2>3
  <2> QED
    BY <2>2, <2>3
<1>3. g = [r \in Reqs |-> IF r \in DOMAIN run THEN Extend(q(r), run[r]) ELSE q(r)]
  BY DEF Extended
<1> HIDE DEF q, g
<1>4. ASSUME NEW r \in Reqs
      PROVE  /\ g[r] \in ReqType
             /\ g[r].len = f[r].len /\ g[r].max_new = f[r].max_new /\ g[r].out = f[r].out
             /\ r = mid => g[r].inflight_middle_chunks = f[r].inflight_middle_chunks + 1
             /\ r # mid => g[r].inflight_middle_chunks = f[r].inflight_middle_chunks
             /\ r \in DOMAIN run => /\ g[r].st = "live" /\ g[r].is_retracted = FALSE
                                    /\ g[r].kv = f[r].kv + run[r]
             /\ r \notin DOMAIN run => /\ g[r].st = f[r].st /\ g[r].kv = f[r].kv
                                       /\ g[r].is_retracted = f[r].is_retracted
             /\ r \notin DOMAIN run /\ r # mid => g[r] = f[r]
  <2>1. CASE r \in DOMAIN run
    <3>1. g[r] = Extend(q(r), run[r]) /\ run[r] \in Nat /\ q(r) \in ReqType
      BY <1>1, <1>2, <1>3, <2>1
    <3> DEFINE e == Extend(q(r), run[r])
    <3>2. /\ e \in ReqType /\ e.st = "live" /\ e.is_retracted = FALSE
          /\ e.kv = q(r).kv + run[r] /\ e.len = q(r).len /\ e.max_new = q(r).max_new
          /\ e.out = q(r).out /\ e.inflight_middle_chunks = q(r).inflight_middle_chunks
      BY <3>1, ExtendFacts
    <3> HIDE DEF e
    <3>3. g[r] = e
      BY <3>1 DEF e
    <3> QED
      BY <1>2, <2>1, <3>2, <3>3
  <2>2. CASE r \notin DOMAIN run
    <3>1. g[r] = q(r)
      BY <1>3, <2>2
    <3> QED
      BY <1>2, <2>2, <3>1
  <2> QED
    BY <2>1, <2>2
<1>5. g \in [Reqs -> ReqType]
  BY <1>3, <1>4
<1> QED
  BY <1>4, <1>5 DEF g, ExtendsTo

\* A batch is put in the result queue behind what is due.
LEMMA QueueGrows ==
  ASSUME NEW old \in BatchType, NEW ov \in BOOLEAN, NEW q, Len(q) = Len(Due(old, ov)),
         q \in Seq(ResultType), NEW b \in ResultType,
         ov /\ old.mode # "none" => DOMAIN q[1] = old.reqs
  PROVE  /\ Append(q, b) \in Seq(ResultType)
         /\ Len(Append(q, b)) = Len(Due(old, ov)) + 1
         /\ Append(q, b)[Len(Append(q, b))] = b
         /\ ov /\ old.mode # "none" => Append(q, b)[1] = q[1]
<1>1. ov /\ old.mode # "none" => Len(Due(old, ov)) = 1
  BY DEF Due, Results
<1>2. Len(q) \in Nat
  OBVIOUS
<1> HIDE DEF Due
<1> QED
  BY <1>1, <1>2

\* The results of a launched batch, entry by entry.
LEMMA DueFacts ==
  ASSUME NEW b \in BatchType, NEW ov \in BOOLEAN
  PROVE  /\ Result(b) \in ResultType
         /\ Due(b, ov) \in Seq(ResultType)
         /\ Results(b) \in Seq(ResultType)
         /\ Len(Results(b)) = IF b.mode = "none" THEN 0 ELSE 1
         /\ Len(Due(b, ov)) = IF ov /\ b.mode # "none" THEN 1 ELSE 0
         /\ ov /\ b.mode # "none" => Due(b, ov)[1] = Result(b)
         /\ DOMAIN Result(b) = b.reqs
         /\ \A r \in b.reqs : Result(b)[r].ran = Ran(b, r) /\ Result(b)[r].stale = FALSE
<1>1. b.reqs \in SUBSET Reqs
  BY DEF BatchType
<1>2. Result(b) \in [b.reqs -> Entries]
  BY DEF Result, Entries, Ran
<1>3. Result(b) \in ResultType
  BY <1>1, <1>2 DEF ResultType
<1>4. DOMAIN Result(b) = b.reqs
         /\ \A r \in b.reqs : Result(b)[r].ran = Ran(b, r) /\ Result(b)[r].stale = FALSE
  BY DEF Result
<1> HIDE DEF Result
<1>5. /\ Results(b) \in Seq(ResultType)
      /\ Len(Results(b)) = IF b.mode = "none" THEN 0 ELSE 1
  BY <1>3 DEF Results
<1>6. /\ Due(b, ov) \in Seq(ResultType)
      /\ Len(Due(b, ov)) = IF ov /\ b.mode # "none" THEN 1 ELSE 0
      /\ ov /\ b.mode # "none" => Due(b, ov)[1] = Result(b)
  BY <1>3 DEF Due, Results
<1> QED
  BY <1>3, <1>4, <1>5, <1>6

\* The pages a prefill batch takes: never more than there are, and the
\* request that is cut keeps the pages for the rest of its prompt in reserve.
LEMMA PrefillPages ==
  ASSUME NEW s, StageOK(s), NEW a, AdderOK(s, a, Len(s.waiting_queue)),
         DOMAIN a.run # {}
  PROVE  LET g == Extended(s.req, a.run, a.new_chunked)
         IN  Held(g) =< TokenCapacity /\ ChunkedOK(a.new_chunked, g)
<1> DEFINE c == s.chunked_req
           f == s.req
           run == a.run
           mid == a.new_chunked
           g == Extended(f, run, mid)
           wq == s.waiting_queue
<1>1. /\ s \in StateType /\ QueueOK(wq, f) /\ ChunkedOK(c, f) /\ ReqsOK(f)
      /\ f \in [Reqs -> ReqType] /\ c \in Reqs \cup {NoReq} /\ wq \in Seq(Reqs)
  BY StateFields DEF StageOK
<1>2. /\ a \in AdderType /\ a.avail = Available(s)
      /\ \A r \in DOMAIN run : r = c \/ \E j \in 1..Len(wq) : wq[j] = r
      /\ mid = NoReq \/ mid \in DOMAIN run
      /\ \A r \in DOMAIN run :
           /\ run[r] > 0
           /\ r # mid => run[r] = Left(f[r])
           /\ r = mid => run[r] < Left(f[r])
           /\ r = mid /\ r # c => CeilPaged(run[r]) = run[r]
      /\ (\E r \in DOMAIN run : r # c) => Spent(run) =< a.avail
      /\ mid # NoReq /\ mid # c =>
           Spent(run) - CeilPaged(run[mid]) + CeilPaged(FillLen(f[mid])) =< a.avail
      /\ mid # NoReq /\ mid = c => DOMAIN run = {c}
  BY DEF AdderOK
<1>3. /\ run \in RunType /\ DOMAIN run \in SUBSET Reqs /\ Spent(run) \in Nat
      /\ \A r \in DOMAIN run : run[r] \in Nat
  BY <1>2, RunFacts DEF AdderType
<1> HIDE DEF f, run, mid
<1>4. /\ g \in [Reqs -> ReqType]
      /\ \A r \in Reqs :
           /\ g[r].len = f[r].len /\ g[r].out = f[r].out
           /\ r \in DOMAIN run => g[r].st = "live" /\ g[r].kv = f[r].kv + run[r]
           /\ r \notin DOMAIN run => g[r].kv = f[r].kv
  <2>1. f \in [Reqs -> ReqType] /\ run \in RunType
    BY <1>1, <1>3
  <2>2. ExtendsTo(f, run, mid, g)
    BY <2>1, ExtendedFacts
  <2> HIDE DEF g
  <2> QED
    BY <2>2 DEF ExtendsTo
<1>5. /\ a.avail = TokenCapacity - Held(f) /\ Held(f) \in Nat /\ Held(g) \in Nat
      /\ TokenCapacity \in Nat
  <2> HIDE DEF g
  <2>1. a.avail = TokenCapacity - Held(f)
    BY <1>1, <1>2, AvailableFacts DEF f
  <2> QED
    BY <1>1, <1>4, <2>1, HeldFacts, CapacityAssumption
<1>6. \A r \in Reqs : f[r].kv \in Nat /\ CeilPaged(f[r].kv) \in Nat
  BY <1>1, HeldFacts
<1> HIDE DEF g
<1>7. Held(g) =< Held(f) + Spent(run)
  <2> DEFINE w == [r \in Reqs |-> IF r \in DOMAIN run THEN CeilPaged(run[r]) ELSE 0]
  <2>1. ASSUME NEW r \in Reqs
        PROVE  w[r] \in Nat /\ CeilPaged(g[r].kv) =< CeilPaged(f[r].kv) + w[r]
    <3>1. CASE r \in DOMAIN run
      <4>1. /\ g[r].kv = f[r].kv + run[r] /\ run[r] \in Nat /\ f[r].kv \in Nat
            /\ w[r] = CeilPaged(run[r])
        BY <1>3, <1>4, <1>6, <3>1
      <4>2. CeilPaged(f[r].kv + run[r]) =< CeilPaged(f[r].kv) + CeilPaged(run[r])
        BY <4>1, CeilSubadditive
      <4>3. CeilPaged(run[r]) \in Nat
        BY <4>1, CeilPagedBounds
      <4> QED
        BY <4>1, <4>2, <4>3
    <3>2. CASE r \notin DOMAIN run
      BY <1>4, <1>6, <3>2
    <3> QED
      BY <3>1, <3>2
  <2>2. Spent(run) = SumFunctionOnSet(w, Reqs)
    BY DEF Spent
  <2> HIDE DEF w
  <2>3. Held(g) =< Held(f) + SumFunctionOnSet(w, Reqs)
    BY <1>1, <1>4, <2>1, HeldGrowth
  <2> QED
    BY <2>2, <2>3
<1>8. ASSUME c # NoReq, DOMAIN run = {c}
      PROVE  /\ Held(g) =< Held(f) + CeilPaged(g[c].kv) - CeilPaged(f[c].kv)
             /\ CeilPaged(FillLen(f[c])) - CeilPaged(f[c].kv) =< TokenCapacity - Held(f)
             /\ g[c].kv = f[c].kv + run[c] /\ run[c] > 0 /\ f[c].kv > 0
             /\ run[c] =< Left(f[c]) /\ c \in Reqs /\ run[c] \in Nat
             /\ CeilPaged(g[c].kv) =< CeilPaged(FillLen(f[c]))
             /\ CeilPaged(g[c].kv) \in Nat /\ CeilPaged(FillLen(f[c])) \in Nat
  <2>1. c \in Reqs /\ run[c] \in Nat /\ run[c] > 0 /\ f[c].kv \in Nat
    BY <1>1, <1>2, <1>3, <1>6, <1>8
  <2>2. FillLen(f[c]) \in Nat /\ Left(f[c]) = FillLen(f[c]) - f[c].kv /\ Left(f[c]) \in Int
    BY <1>1, <2>1, ReqLengths DEF Left
  <2>3. run[c] =< Left(f[c])
    <3>1. c \in DOMAIN run
      BY <1>8
    <3>2. run[c] = Left(f[c]) \/ run[c] < Left(f[c])
      BY <1>2, <3>1
    <3> QED
      BY <2>1, <2>2, <3>2
  <2>4. g[c].kv = f[c].kv + run[c]
    BY <1>4, <1>8, <2>1
  <2> DEFINE kv == f[c].kv
             kw == g[c].kv
             e == CeilPaged(kw) - CeilPaged(kv)
             w == [r \in Reqs |-> IF r = c THEN e ELSE 0]
  <2>5. kv \in Nat /\ kw \in Nat /\ kv =< kw /\ kw =< FillLen(f[c])
    BY <2>1, <2>2, <2>3, <2>4
  <2> HIDE DEF kv, kw
  <2>6. /\ CeilPaged(kv) =< CeilPaged(kw) /\ CeilPaged(kv) \in Nat /\ CeilPaged(kw) \in Nat
        /\ CeilPaged(kw) =< CeilPaged(FillLen(f[c])) /\ CeilPaged(FillLen(f[c])) \in Nat
    BY <2>2, <2>5, CeilMonotone, CeilPagedBounds
  <2>7. e \in Nat /\ CeilPaged(kw) = CeilPaged(kv) + e
    BY <2>6
  <2> HIDE DEF e
  <2>8. ASSUME NEW r \in Reqs
        PROVE  w[r] \in Nat /\ CeilPaged(g[r].kv) =< CeilPaged(f[r].kv) + w[r]
    <3>1. CASE r = c
      BY <2>6, <2>7, <3>1 DEF kv, kw
    <3>2. CASE r # c
      BY <1>4, <1>6, <1>8, <3>2
    <3> QED
      BY <3>1, <3>2
  <2>9. SumFunctionOnSet(w, Reqs) = e
    <3>1. IsFiniteSet(Reqs)
      BY LoopAssumption
    <3>2. w[c] = e /\ (\A r \in Reqs \ {c} : w[r] = 0) /\ \A r \in Reqs : w[r] \in Nat
      BY <2>1, <2>7
    <3> HIDE DEF w
    <3>3. SumFunctionOnSet(w, Reqs) = w[c] + SumFunctionOnSet(w, Reqs \ {c})
      <4> HIDE DEF c
      <4> QED
        BY <2>1, <3>1, <3>2, SumMember
    <3>4. SumFunctionOnSet(w, Reqs \ {c}) = SumFunctionOnSet(w, {})
      <4>1. IsFiniteSet(Reqs \ {c}) /\ \A r \in Reqs \ {c} : w[r] \in Nat
        BY <3>1, <3>2, FS_Subset
      <4>2. \A r \in (Reqs \ {c}) \ {} : w[r] = 0
        BY <3>2
      <4> QED
        BY <4>1, <4>2, SumSupport
    <3> QED
      BY <2>7, <3>2, <3>3, <3>4, SumEmpty
  <2> HIDE DEF w
  <2>10. Held(g) =< Held(f) + SumFunctionOnSet(w, Reqs)
    BY <1>1, <1>4, <2>8, HeldGrowth
  <2>11. Held(g) =< Held(f) + CeilPaged(g[c].kv) - CeilPaged(f[c].kv)
    BY <1>5, <2>6, <2>7, <2>9, <2>10 DEF kv, kw
  <2>12. /\ CeilPaged(FillLen(f[c])) - CeilPaged(f[c].kv) =< TokenCapacity - Held(f)
         /\ 0 < f[c].kv
    BY <1>1, <1>8 DEF ChunkedOK, Held
  <2> QED
    BY <2>1, <2>3, <2>4, <2>6, <2>11, <2>12 DEF kv, kw
<1>9. Held(g) =< TokenCapacity
  <2>1. CASE \E r \in DOMAIN run : r # c
    BY <1>2, <1>3, <1>5, <1>7, <2>1
  <2>3. CASE ~\E r \in DOMAIN run : r # c
    <3>1. DOMAIN run = {c} /\ c # NoReq
      <4>1. DOMAIN run # {}
        BY DEF run
      <4> QED
        BY <1>3, <2>3, <4>1, NoReqFacts
    <3> HIDE DEF c
    <3>2. CeilPaged(f[c].kv) \in Nat
      BY <1>6, <1>8, <3>1
    <3> QED
      BY <1>5, <1>8, <3>1, <3>2
  <2> QED
    BY <2>1, <2>3
<1>10. ChunkedOK(mid, g)
  <2>1. SUFFICES ASSUME mid # NoReq
                 PROVE  /\ g[mid].st = "live" /\ 0 < g[mid].kv /\ g[mid].kv < FillLen(g[mid])
                        /\ CeilPaged(FillLen(g[mid])) - CeilPaged(g[mid].kv)
                             =< TokenCapacity - Held(g)
    BY DEF ChunkedOK, Held
  <2>2. mid \in DOMAIN run /\ mid \in Reqs
    BY <1>2, <1>3, <2>1
  <2>3. g[mid].st = "live" /\ g[mid].kv = f[mid].kv + run[mid] /\ FillLen(g[mid]) = FillLen(f[mid])
    BY <1>4, <2>2 DEF FillLen
  <2>4. /\ run[mid] \in Nat /\ run[mid] > 0 /\ run[mid] < Left(f[mid]) /\ f[mid].kv \in Nat
        /\ FillLen(f[mid]) \in Nat /\ Left(f[mid]) = FillLen(f[mid]) - f[mid].kv
    BY <1>1, <1>2, <1>3, <1>6, <2>2, ReqLengths DEF Left
  <2>5. 0 < g[mid].kv /\ g[mid].kv < FillLen(g[mid])
    BY <2>3, <2>4
  <2>6. CASE mid = c
    <3>1. c # NoReq /\ DOMAIN run = {c}
      BY <1>2, <2>1, <2>6
    <3>2. CeilPaged(f[c].kv) \in Nat
      BY <1>6, <2>2, <2>6
    <3> HIDE DEF c
    <3>3. CeilPaged(FillLen(f[c])) - CeilPaged(g[c].kv) =< TokenCapacity - Held(g)
      BY <1>5, <1>8, <3>1, <3>2
    <3> QED
      BY <2>3, <2>5, <2>6, <3>3
  <2>7. CASE mid # c
    <3>1. f[mid].kv = 0
      <4>1. PICK j \in 1..Len(wq) : wq[j] = mid
        BY <1>2, <2>2, <2>7
      <4>2. f[mid].st = "waiting"
        BY <1>1, <2>2, <4>1 DEF QueueOK, Listed
      <4> QED
        BY <1>1, <2>2, <4>2 DEF ReqsOK, ReqOK
    <3>2. g[mid].kv = run[mid]
      BY <2>3, <2>4, <3>1
    <3>3. CeilPaged(run[mid]) \in Nat /\ CeilPaged(FillLen(f[mid])) \in Nat
      BY <2>4, CeilPagedBounds
    <3>4. Spent(run) - CeilPaged(run[mid]) + CeilPaged(FillLen(f[mid])) =< a.avail
      BY <1>2, <2>1, <2>7
    <3>5. CeilPaged(FillLen(f[mid])) - CeilPaged(run[mid]) =< TokenCapacity - Held(g)
      <4> HIDE DEF run, mid
      <4> QED
        BY <1>3, <1>5, <1>7, <3>3, <3>4
    <3> QED
      BY <2>3, <2>5, <3>2, <3>5
  <2> QED
    BY <2>6, <2>7
<1> QED
  BY <1>9, <1>10 DEF g, f, run, mid

\* The batch that LaunchPrefill launches.
PrefillBatch(s, a) ==
  [mode |-> "extend", reqs |-> DOMAIN a.run, chunked_req |-> a.new_chunked,
   is_prefill_only |-> \A r \in DOMAIN a.run : s.req[r].max_new = 0]

\* The state after a prefill batch that has its memory.
LEMMA LaunchPrefillIs ==
  ASSUME NEW s \in StateType, Distinct(s.waiting_queue), NEW a \in AdderType,
         a.new_chunked \in Reqs \cup {NoReq},
         Held(Extended(s.req, a.run, a.new_chunked)) =< TokenCapacity
  PROVE  LET t == LaunchPrefill(s, a)
             b == PrefillBatch(s, a)
         IN  /\ t \in StateType /\ b \in BatchType
             /\ t.waiting_queue = Drop(s.waiting_queue, DOMAIN a.run)
             /\ t.chunked_req = a.new_chunked
             /\ t.pending_chunked_abort = s.pending_chunked_abort
             /\ t.running_batch.reqs = s.running_batch.reqs
             /\ t.running_batch.batch_is_full = a.full
             /\ t.last_batch = b
             /\ t.result_queue = Append(s.result_queue, Result(b))
             /\ t.req = Extended(s.req, a.run, a.new_chunked)
             /\ t.fault = s.fault
<1> DEFINE mid == a.new_chunked
           run == a.run
           R == DOMAIN run
           b == PrefillBatch(s, a)
           wq == Drop(s.waiting_queue, R)
           rb == [s.running_batch EXCEPT !.batch_is_full = a.full]
           f1 == [r \in Reqs |-> IF r = mid THEN StartMiddleChunk(s.req[r]) ELSE s.req[r]]
           g == [r \in Reqs |-> IF r \in R THEN Extend(f1[r], run[r]) ELSE f1[r]]
           s1 == [s EXCEPT !.waiting_queue = wq, !.chunked_req = mid, !.running_batch = rb,
                           !.req = f1]
           s2 == [s1 EXCEPT !.req = g]
           q == Append(s.result_queue, Result(b))
           t == [s2 EXCEPT !.result_queue = q, !.last_batch = b]
<1>1. /\ s.waiting_queue \in Seq(Reqs) /\ s.running_batch \in RunningType
      /\ s.result_queue \in Seq(ResultType) /\ s.req \in [Reqs -> ReqType]
  BY StateFields
<1>2. /\ run \in RunType /\ R \in SUBSET Reqs /\ mid \in Reqs \cup {NoReq} /\ mid # -1
      /\ a.full \in BOOLEAN
  BY RunFacts, NoReqFacts DEF AdderType
<1>3. b \in BatchType /\ b.reqs = R
  BY <1>2 DEF PrefillBatch, BatchType
<1>4. Result(b) \in ResultType /\ q \in Seq(ResultType)
  <2>1. Result(b) \in ResultType
    <3> HIDE DEF b
    <3> QED
      BY <1>3, DueFacts
  <2> HIDE DEF b
  <2> QED
    BY <1>1, <2>1
<1>5. wq \in Seq(Reqs)
  BY <1>1, DropFacts
<1>6. g = Extended(s.req, run, mid)
  BY DEF Extended
<1>7. g \in [Reqs -> ReqType]
  <2>1. ExtendsTo(s.req, run, mid, Extended(s.req, run, mid))
    <3> HIDE DEF run, mid
    <3> QED
      BY <1>1, <1>2, ExtendedFacts
  <2> QED
    BY <1>6, <2>1 DEF ExtendsTo
<1>8. rb \in RunningType /\ rb.reqs = s.running_batch.reqs /\ rb.batch_is_full = a.full
  BY <1>1, <1>2 DEF RunningType
<1>9. LaunchPrefill(s, a) = Launch(PrepareForExtend(s1, run), b,
                              [r \in R |-> IF r = mid THEN "middle" ELSE "extend"])
  BY <1>2 DEF LaunchPrefill, PrefillBatch
<1> HIDE DEF b, wq, rb, g, q
<1>10. /\ s1.req = f1 /\ s2.req = g /\ s1.result_queue = s.result_queue
       /\ s2.result_queue = s.result_queue /\ s2.fault = s.fault
  BY DEF StateType
<1>11. PrepareForExtend(s1, run) = s2
  <2>1. PrepareForExtend(s1, run) = Fail(s2, Available(s2) < 0, "prefill out of memory")
    BY <1>10 DEF PrepareForExtend, g
  <2>2. Available(s2) = TokenCapacity - Held(g) /\ Held(g) \in Nat /\ TokenCapacity \in Nat
    <3> HIDE DEF s2
    <3> QED
      BY <1>7, <1>10, AvailableFacts, HeldFacts, CapacityAssumption
  <2>3. Held(g) =< TokenCapacity
    BY <1>6
  <2>4. ~(Available(s2) < 0)
    BY <2>2, <2>3
  <2> QED
    BY <2>1, <2>4 DEF Fail
<1>12. LaunchPrefill(s, a) = t
  <2>1. Result(b) = [r \in R |-> [ran |-> IF r = mid THEN "middle" ELSE "extend",
                                  stale |-> FALSE]]
    BY DEF Result, Ran, PrefillBatch, b
  <2> DEFINE ran == [r \in R |-> IF r = mid THEN "middle" ELSE "extend"]
             res == [r \in b.reqs |-> [ran |-> ran[r], stale |-> FALSE]]
  <2>2. res = Result(b)
    BY <1>3, <2>1
  <2>3. Launch(s2, b, ran) = [s2 EXCEPT !.result_queue = Append(s2.result_queue, res),
                                        !.last_batch = b]
    BY DEF Launch
  <2> HIDE DEF res, ran, s2
  <2>4. Launch(s2, b, ran) = t
    BY <1>10, <2>2, <2>3 DEF q
  <2> QED
    BY <1>9, <1>11, <2>4 DEF ran
<1>13. /\ t \in StateType /\ t.waiting_queue = wq /\ t.chunked_req = mid
       /\ t.pending_chunked_abort = s.pending_chunked_abort
       /\ t.running_batch = rb /\ t.last_batch = b /\ t.result_queue = q /\ t.req = g
       /\ t.fault = s.fault
  <2> HIDE DEF f1, mid
  <2> QED
    BY <1>2, <1>3, <1>4, <1>5, <1>7, <1>8 DEF StateType
<1> HIDE DEF t
<1> QED
  BY <1>3, <1>6, <1>8, <1>12, <1>13 DEF b, wq, q

\* A prefill batch is launched: its requests leave the queue, and the one
\* that is cut is the chunked request.
LEMMA LaunchPrefillOK ==
  ASSUME NEW s, NEW ov \in BOOLEAN, Ready(s, ov),
         NEW a, AdderOK(s, a, Len(s.waiting_queue)), DOMAIN a.run # {}
  PROVE  Posted(LaunchPrefill(s, a), s.last_batch, ov)
<1> DEFINE t == LaunchPrefill(s, a)
           b == PrefillBatch(s, a)
           old == s.last_batch
           lc == old.chunked_req
           c == s.chunked_req
           f == s.req
           rb == s.running_batch.reqs
           wq == s.waiting_queue
           run == a.run
           R == DOMAIN run
           mid == a.new_chunked
           g == Extended(f, run, mid)
<1>1. /\ s \in StateType /\ s.fault = {} /\ StageOK(s) /\ s.pending_chunked_abort = NoReq
      /\ QueueOK(wq, f) /\ ChunkedOK(c, f) /\ ReqsOK(f) /\ LastOK(old) /\ old \in BatchType
      /\ \A r \in rb : r \in Reqs /\ r # c /\ f[r].st \in {"live", "done"}
      /\ \A r \in old.reqs : r \in Reqs /\ f[r].st \in {"live", "done"}
      /\ c \in {NoReq, lc} /\ (lc # c => f[lc].st = "done")
      /\ s.result_queue = Due(old, ov)
      /\ \A r \in Reqs : f[r].inflight_middle_chunks = One(ov /\ r = lc)
      /\ \A r \in Reqs \ {c} : Holds(f[r], One(ov /\ r \in old.reqs))
      /\ \A r \in Reqs : f[r].st = "live" => r \in rb \/ r = c
  BY ReadyFacts
<1>2. /\ wq \in Seq(Reqs) /\ f \in [Reqs -> ReqType] /\ rb \in SUBSET Reqs
      /\ c \in Reqs \cup {NoReq} /\ lc \in Reqs \cup {NoReq}
  BY <1>1, StateFields
<1>3. /\ a \in AdderType /\ (c # NoReq => c \in R) /\ mid \in R \cup {NoReq}
      /\ \A r \in R : r = c \/ \E j \in 1..Len(wq) : wq[j] = r
      /\ \A r \in R : r # mid => run[r] = Left(f[r])
  BY DEF AdderOK
<1>4. run \in RunType /\ R \in SUBSET Reqs /\ mid \in Reqs \cup {NoReq} /\ R # {}
  BY <1>3, RunFacts DEF AdderType
<1>5. Held(g) =< TokenCapacity /\ ChunkedOK(mid, g)
  BY <1>1, PrefillPages
<1>6. /\ t \in StateType /\ b \in BatchType
      /\ t.waiting_queue = Drop(wq, R) /\ t.chunked_req = mid
      /\ t.pending_chunked_abort = s.pending_chunked_abort
      /\ t.running_batch.reqs = rb /\ t.last_batch = b
      /\ t.result_queue = Append(s.result_queue, Result(b)) /\ t.req = g /\ t.fault = s.fault
  BY <1>1, <1>3, <1>4, <1>5, LaunchPrefillIs DEF QueueOK
<1>7. b.mode = "extend" /\ b.reqs = R /\ b.chunked_req = mid
  BY DEF PrefillBatch
<1>8. ExtendsTo(f, run, mid, g)
  <2> HIDE DEF f, run, mid
  <2> QED
    BY <1>2, <1>4, ExtendedFacts
<1> HIDE DEF t, b, old, lc, c, f, rb, wq, run, R, mid, g
<1>9. /\ g \in [Reqs -> ReqType]
      /\ \A r \in Reqs :
           /\ g[r].len = f[r].len /\ g[r].max_new = f[r].max_new /\ g[r].out = f[r].out
           /\ r = mid => g[r].inflight_middle_chunks = f[r].inflight_middle_chunks + 1
           /\ r # mid => g[r].inflight_middle_chunks = f[r].inflight_middle_chunks
           /\ r \in R => /\ g[r].st = "live" /\ g[r].is_retracted = FALSE
                         /\ g[r].kv = f[r].kv + run[r]
           /\ r \notin R => /\ g[r].st = f[r].st /\ g[r].kv = f[r].kv
                            /\ g[r].is_retracted = f[r].is_retracted
           /\ r \notin R /\ r # mid => g[r] = f[r]
  BY <1>8 DEF ExtendsTo, R
<1>10. NoReq \notin Reqs
  BY NoReqFacts
<1>11. \A r \in R : r = c \/ (f[r].st = "waiting" /\ Listed(wq, r))
  <2>1. TAKE r \in R
  <2>2. CASE r # c
    <3>1. Listed(wq, r)
      BY <1>2, <1>3, <2>2 DEF Listed
    <3> QED
      BY <1>1, <1>4, <3>1 DEF QueueOK
  <2> QED
    BY <2>2
<1>12. \A r \in R : r \in Reqs /\ r \notin rb /\ (r \in old.reqs => r = c /\ r = lc)
  BY <1>1, <1>4, <1>10, <1>11
<1>13. \A r \in Reqs : g[r].st = "live" <=> r \in R \/ f[r].st = "live"
  BY <1>9
<1>14. StageOK(t)
  <2>1. QueueOK(Drop(wq, R), g)
    <3>1. /\ Distinct(Drop(wq, R))
          /\ \A r \in Reqs : Listed(Drop(wq, R), r) <=> r \notin R /\ Listed(wq, r)
      BY <1>1, <1>2, DropFacts DEF QueueOK
    <3>2. \A r \in Reqs : g[r].st = "waiting" <=> r \notin R /\ f[r].st = "waiting"
      BY <1>9
    <3> QED
      BY <1>1, <3>1, <3>2 DEF QueueOK
  <2>2. ReqsOK(g)
    <3>1. SUFFICES ASSUME NEW r \in Reqs PROVE ReqOK(g[r])
      BY DEF ReqsOK
    <3>2. ReqOK(f[r]) /\ g[r] \in ReqType /\ f[r] \in ReqType
      BY <1>1, <1>2, <1>9 DEF ReqsOK
    <3>3. CASE r \in R
      <4>1. f[r].st \in {"waiting", "live"}
        <5>1. CASE r = c
          BY <1>1, <1>10, <5>1, <3>3, <1>4 DEF ChunkedOK
        <5> QED
          BY <1>11, <3>3, <5>1
      <4> QED
        BY <1>9, <3>2, <3>3, <4>1 DEF ReqOK
    <3>4. CASE r \notin R
      <4>1. r # mid
        BY <1>3, <1>10, <3>4
      <4>2. g[r] = f[r]
        BY <1>9, <3>4, <4>1
      <4> QED
        BY <3>2, <4>2
    <3> QED
      BY <3>3, <3>4
  <2> QED
    BY <1>1, <1>5, <1>6, <2>1, <2>2 DEF StageOK
<1>15. BatchOK(t)
  <2>1. LastOK(b) /\ b.chunked_req = mid
    BY <1>3, <1>4, <1>7 DEF LastOK
  <2>2. InBatch(g, rb)
    BY <1>1, <1>9, <1>12 DEF InBatch
  <2>3. InBatch(g, R)
    BY <1>4, <1>9 DEF InBatch
  <2>4. mid # NoReq => mid \notin rb
    BY <1>3, <1>12
  <2>5. R \cap rb = {}
    BY <1>12
  <2>6. \A r \in Reqs : g[r].st = "live" => r \in rb \/ r \in R
    BY <1>1, <1>3, <1>10, <1>13
  <2> QED
    BY <1>6, <1>7, <2>1, <2>2, <2>3, <2>4, <2>5, <2>6 DEF BatchOK
<1>16. FlagOK(t)
  BY <1>6, <1>7 DEF FlagOK
<1>17. mid \in old.reqs => mid = lc
  BY <1>1, <1>3, <1>10, <1>12
<1>18. \A r \in old.reqs : g[r].st \in {"live", "done"}
  BY <1>1, <1>9
<1>19. lc # NoReq => ~g[lc].is_retracted
  <2>1. SUFFICES ASSUME lc # NoReq PROVE ~g[lc].is_retracted
    OBVIOUS
  <2>2. lc \in old.reqs /\ lc \in Reqs
    BY <1>1, <1>2, <2>1 DEF LastOK, lc
  <2>3. ReqOK(g[lc]) /\ g[lc].st \in {"live", "done"}
    BY <1>6, <1>14, <1>18, <2>2 DEF StageOK, ReqsOK
  <2> QED
    BY <2>3 DEF ReqOK
<1> DEFINE q == t.result_queue
<1>20. /\ Len(q) = Len(Due(old, ov)) + Len(Results(b))
       /\ q[Len(q)] = Result(b)
       /\ ov /\ old.mode # "none" =>
            /\ DOMAIN q[1] = old.reqs
            /\ \A r \in old.reqs : q[1][r].ran = Ran(old, r) /\ q[1][r].stale = FALSE
  <2> DEFINE d == Due(old, ov)
             res == Result(b)
  <2>1. res \in ResultType /\ Len(Results(b)) = 1
    BY <1>6, <1>7, DueFacts
  <2>2. /\ d \in Seq(ResultType)
        /\ ov /\ old.mode # "none" =>
             /\ d[1] = Result(old) /\ DOMAIN d[1] = old.reqs
             /\ \A r \in old.reqs : d[1][r].ran = Ran(old, r) /\ d[1][r].stale = FALSE
    BY <1>1, DueFacts
  <2>3. q = Append(d, res)
    BY <1>1, <1>6
  <2> HIDE DEF res, q
  <2>4. /\ Len(q) = Len(Due(old, ov)) + 1 /\ q[Len(q)] = res
        /\ ov /\ old.mode # "none" => q[1] = d[1]
    BY <1>1, <2>1, <2>2, <2>3, QueueGrows
  <2> QED
    BY <2>1, <2>2, <2>4 DEF res
<1> HIDE DEF q
<1>21. ASSUME NEW r \in Reqs
       PROVE  g[r].inflight_middle_chunks = One(ov /\ r = lc) + One(r = mid)
  <2>1. f[r].inflight_middle_chunks = One(ov /\ r = lc) /\ f[r].inflight_middle_chunks \in Nat
    BY <1>1, <1>2 DEF ReqType
  <2>2. CASE r = mid
    BY <1>9, <2>1, <2>2 DEF One
  <2>3. CASE r # mid
    BY <1>9, <2>1, <2>3 DEF One
  <2> QED
    BY <2>2, <2>3
<1>22. ASSUME NEW r \in Reqs \ {mid}
       PROVE  Holds(g[r], One(ov /\ r \in old.reqs /\ r # lc) + One(r \in R))
  <2>1. /\ f[r].kv \in Nat /\ FillLen(f[r]) \in Nat /\ Left(f[r]) = FillLen(f[r]) - f[r].kv
        /\ FillLen(g[r]) = FillLen(f[r])
    BY <1>2, <1>9, ReqLengths DEF Left, FillLen
  <2>2. CASE r \in R
    <3>1. g[r].kv = f[r].kv + run[r] /\ run[r] = Left(f[r])
      BY <1>3, <1>9, <2>2
    <3>2. ~(ov /\ r \in old.reqs /\ r # lc)
      BY <1>12, <2>2
    <3> QED
      BY <2>1, <2>2, <3>1, <3>2 DEF Holds, One
  <2>3. CASE r \notin R
    <3>1. SUFFICES ASSUME g[r].st = "live"
                   PROVE  g[r].kv = FillLen(g[r]) - 1
                            + (One(ov /\ r \in old.reqs /\ r # lc) + One(r \in R))
      BY DEF Holds
    <3>2. f[r].st = "live" /\ g[r].kv = f[r].kv
      BY <1>9, <2>3, <3>1
    <3>3. r # c
      BY <1>3, <1>10, <2>3
    <3>4. r # lc
      BY <1>1, <3>2, <3>3
    <3>5. f[r].kv = FillLen(f[r]) - 1 + One(ov /\ r \in old.reqs)
      BY <1>1, <3>2, <3>3 DEF Holds
    <3> QED
      BY <2>1, <2>3, <3>2, <3>4, <3>5 DEF One
  <2> QED
    BY <2>2, <2>3
<1>23. Posted(t, old, ov)
  <2>1. t.last_batch = b /\ t.chunked_req = mid /\ t.req = g /\ t.pending_chunked_abort = NoReq
    BY <1>1, <1>6
  <2>2. b.mode # "none" /\ b.reqs = R
    BY <1>7
  <2> QED
    BY <1>1, <1>14, <1>15, <1>16, <1>17, <1>18, <1>19, <1>20, <1>21, <1>22, <2>1, <2>2
       DEF Posted, q, lc
<1> QED
  BY <1>23 DEF t, old

-----------------------------------------------------------------------------
(* Decode *)

\* No request is being chunked and every live request runs; old is the batch
\* whose results are due, and the requests retracted since are marked.
Poised(s, old, ov) ==
  LET q == s.result_queue
  IN  /\ StageOK(s) /\ s.chunked_req = NoReq /\ s.pending_chunked_abort = NoReq
      /\ old \in BatchType /\ LastOK(old)
      /\ \A r \in s.running_batch.reqs : s.req[r].st \in {"live", "done"}
      /\ \A r \in Reqs : s.req[r].st = "live" => r \in s.running_batch.reqs
      /\ \A r \in old.reqs : s.req[r].st \in {"live", "done"} \/ s.req[r].is_retracted
      /\ old.chunked_req # NoReq => s.req[old.chunked_req].st = "done"
      /\ Len(q) = Len(Due(old, ov))
      /\ ov /\ old.mode # "none" =>
           /\ DOMAIN q[1] = old.reqs
           /\ \A r \in old.reqs :
                q[1][r].ran = Ran(old, r) /\ (q[1][r].stale => s.req[r].is_retracted)
      /\ \A r \in Reqs : s.req[r].inflight_middle_chunks = One(ov /\ r = old.chunked_req)
      /\ \A r \in Reqs : Holds(s.req[r], One(ov /\ r \in old.reqs))

\* With nothing being chunked a ready state is poised to decode.
LEMMA ReadyPoised ==
  ASSUME NEW s, NEW ov \in BOOLEAN, Ready(s, ov), s.chunked_req = NoReq
  PROVE  Poised(s, s.last_batch, ov)
<1> DEFINE old == s.last_batch
           q == s.result_queue
<1>1. /\ s \in StateType /\ StageOK(s) /\ s.pending_chunked_abort = NoReq
      /\ LastOK(old) /\ old \in BatchType
      /\ \A r \in s.running_batch.reqs : s.req[r].st \in {"live", "done"}
      /\ \A r \in old.reqs : s.req[r].st \in {"live", "done"}
      /\ old.chunked_req # NoReq => s.req[old.chunked_req].st = "done"
      /\ q = Due(old, ov)
      /\ \A r \in Reqs : s.req[r].inflight_middle_chunks = One(ov /\ r = old.chunked_req)
      /\ \A r \in Reqs \ {NoReq} : Holds(s.req[r], One(ov /\ r \in old.reqs))
      /\ \A r \in Reqs : s.req[r].st = "live" => r \in s.running_batch.reqs \/ r = NoReq
  BY ReadyFacts
<1>2. \A r \in Reqs : r # NoReq
  BY NoReqFacts
<1> HIDE DEF q, old
<1>3. ov /\ old.mode # "none" =>
        /\ DOMAIN q[1] = old.reqs
        /\ \A r \in old.reqs : q[1][r].ran = Ran(old, r) /\ q[1][r].stale = FALSE
  <2> DEFINE d == Due(old, ov)
  <2>1. /\ d \in Seq(ResultType)
        /\ ov /\ old.mode # "none" =>
             /\ d[1] = Result(old) /\ DOMAIN d[1] = old.reqs
             /\ \A r \in old.reqs : d[1][r].ran = Ran(old, r) /\ d[1][r].stale = FALSE
    <3>1. old \in BatchType
      BY <1>1
    <3>2. /\ d \in Seq(ResultType) /\ DOMAIN Result(old) = old.reqs
          /\ ov /\ old.mode # "none" => d[1] = Result(old)
          /\ \A r \in old.reqs : Result(old)[r].ran = Ran(old, r) /\ Result(old)[r].stale = FALSE
      BY <3>1, DueFacts
    <3> HIDE DEF d
    <3> QED
      BY <3>2
  <2> QED
    BY <1>1, <2>1
<1>4. Poised(s, old, ov)
  BY <1>1, <1>2, <1>3 DEF Poised, q
<1> QED
  BY <1>4 DEF old

\* The running batch may be filtered and its flag set.
LEMMA PoisedRunning ==
  ASSUME NEW s, NEW old, NEW ov \in BOOLEAN, Poised(s, old, ov), NEW b \in RunningType,
         b.reqs \subseteq s.running_batch.reqs,
         \A r \in s.running_batch.reqs : s.req[r].st = "live" => r \in b.reqs
  PROVE  LET t == [s EXCEPT !.running_batch = b]
         IN  /\ Poised(t, old, ov) /\ t.running_batch = b /\ t.req = s.req
             /\ t \in StateType
<1> DEFINE t == [s EXCEPT !.running_batch = b]
<1>1. s \in StateType /\ StageOK(s)
  BY DEF Poised, StageOK
<1>2. /\ t \in StateType /\ t.running_batch = b /\ t.req = s.req
      /\ t.waiting_queue = s.waiting_queue /\ t.chunked_req = s.chunked_req
      /\ t.pending_chunked_abort = s.pending_chunked_abort
      /\ t.result_queue = s.result_queue /\ t.fault = s.fault
  BY <1>1 DEF StateType
<1> HIDE DEF t
<1>3. StageOK(t)
  BY <1>1, <1>2 DEF StageOK
<1>4. \A r \in b.reqs : s.req[r].st \in {"live", "done"}
  BY DEF Poised
<1>5. \A r \in Reqs : s.req[r].st = "live" => r \in b.reqs
  BY DEF Poised
<1>6. Poised(t, old, ov)
  BY <1>2, <1>3, <1>4, <1>5 DEF Poised
<1> QED
  BY <1>2, <1>6 DEF t

\* Nothing is launched.
LEMMA NothingOK ==
  ASSUME NEW s, NEW old, NEW ov \in BOOLEAN, Poised(s, old, ov),
         Roomy /\ s.running_batch.batch_is_full => s.running_batch.reqs # {}
  PROVE  Posted([s EXCEPT !.last_batch = NoBatch], old, ov)
<1> DEFINE t == [s EXCEPT !.last_batch = NoBatch]
           q == s.result_queue
           lc == old.chunked_req
<1>1. /\ StageOK(s) /\ s \in StateType /\ s.chunked_req = NoReq
      /\ s.pending_chunked_abort = NoReq
      /\ old \in BatchType /\ LastOK(old)
      /\ \A r \in s.running_batch.reqs : s.req[r].st \in {"live", "done"}
      /\ \A r \in Reqs : s.req[r].st = "live" => r \in s.running_batch.reqs
      /\ \A r \in old.reqs : s.req[r].st \in {"live", "done"} \/ s.req[r].is_retracted
      /\ lc # NoReq => s.req[lc].st = "done"
      /\ Len(q) = Len(Due(old, ov))
      /\ ov /\ old.mode # "none" =>
           /\ DOMAIN q[1] = old.reqs
           /\ \A r \in old.reqs :
                q[1][r].ran = Ran(old, r) /\ (q[1][r].stale => s.req[r].is_retracted)
      /\ \A r \in Reqs : s.req[r].inflight_middle_chunks = One(ov /\ r = lc)
      /\ \A r \in Reqs : Holds(s.req[r], One(ov /\ r \in old.reqs))
  BY DEF Poised, StageOK
<1>2. NoBatch \in BatchType /\ NoBatch.reqs = {} /\ NoBatch.mode = "none"
      /\ NoBatch.chunked_req = NoReq
  BY DEF NoBatch, BatchType
<1>3. /\ t \in StateType /\ t.last_batch = NoBatch /\ t.req = s.req
      /\ t.running_batch = s.running_batch
      /\ t.waiting_queue = s.waiting_queue /\ t.chunked_req = s.chunked_req
      /\ t.pending_chunked_abort = s.pending_chunked_abort
      /\ t.result_queue = q /\ t.fault = s.fault
  BY <1>1, <1>2 DEF StateType
<1> HIDE DEF t, q, lc
<1>4. StageOK(t)
  BY <1>1, <1>3 DEF StageOK
<1>5. BatchOK(t)
  BY <1>1, <1>2, <1>3 DEF BatchOK, LastOK, InBatch
<1>6. FlagOK(t)
  BY <1>3 DEF FlagOK
<1>7. NoReq \notin Reqs /\ NoReq \notin old.reqs
  BY <1>1, NoReqFacts DEF BatchType
<1>8. Len(q) = Len(Due(old, ov)) + Len(Results(NoBatch))
  <2>1. Len(Results(NoBatch)) = 0
    BY <1>2, DueFacts
  <2>2. Len(Due(old, ov)) \in Nat
    BY <1>1, DueFacts
  <2> QED
    BY <1>1, <2>1, <2>2
<1>9. ASSUME NEW r \in Reqs
      PROVE  s.req[r].inflight_middle_chunks = One(ov /\ r = lc) + One(r = NoReq)
  BY <1>1, <1>7 DEF One
<1>10. ASSUME NEW r \in Reqs
       PROVE  Holds(s.req[r], One(ov /\ r \in old.reqs /\ r # lc) + One(r \in {}))
  <2>1. SUFFICES ASSUME s.req[r].st = "live"
                 PROVE  s.req[r].kv = FillLen(s.req[r]) - 1
                            + (One(ov /\ r \in old.reqs /\ r # lc) + One(r \in {}))
    BY DEF Holds
  <2>2. r # lc
    BY <1>1, <1>7, <2>1
  <2>3. s.req[r].kv = FillLen(s.req[r]) - 1 + One(ov /\ r \in old.reqs)
    BY <1>1, <2>1 DEF Holds
  <2> QED
    BY <2>2, <2>3 DEF One
<1>11. lc # NoReq => ~s.req[lc].is_retracted
  <2>1. SUFFICES ASSUME lc # NoReq PROVE ~s.req[lc].is_retracted
    OBVIOUS
  <2>2. lc \in Reqs /\ s.req[lc].st = "done"
    BY <1>1, <2>1 DEF BatchType, lc
  <2>3. ReqOK(s.req[lc])
    BY <1>1, <2>2 DEF StageOK, ReqsOK
  <2> QED
    BY <2>2, <2>3 DEF ReqOK
<1>12. Posted(t, old, ov)
  BY <1>1, <1>2, <1>3, <1>4, <1>5, <1>6, <1>7, <1>8, <1>9, <1>10, <1>11
     DEF Posted, lc, q
<1> QED
  BY <1>12 DEF t

\* prepare_for_decode for one request, field by field.
LEMMA DecodeOneFacts ==
  ASSUME NEW q \in ReqType
  PROVE  LET e == DecodeOne(q)
         IN  /\ e \in ReqType /\ e.st = q.st /\ e.is_retracted = q.is_retracted
             /\ e.kv = q.kv + 1 /\ e.len = q.len /\ e.max_new = q.max_new /\ e.out = q.out
             /\ e.inflight_middle_chunks = q.inflight_middle_chunks
  BY DEF DecodeOne, ReqType

\* What becomes of the requests of a decode batch.
Decoded(f, B) == [r \in Reqs |-> IF r \in B THEN DecodeOne(f[r]) ELSE f[r]]

\* How the requests g after a decode launch of B differ from f.
DecodesTo(f, B, g) ==
  /\ g \in [Reqs -> ReqType]
  /\ \A r \in Reqs :
       /\ g[r].len = f[r].len /\ g[r].max_new = f[r].max_new /\ g[r].out = f[r].out
       /\ g[r].st = f[r].st /\ g[r].is_retracted = f[r].is_retracted
       /\ g[r].inflight_middle_chunks = f[r].inflight_middle_chunks
       /\ r \in B => g[r].kv = f[r].kv + 1
       /\ r \notin B => g[r] = f[r]

\* Every request after a decode launch.
LEMMA DecodedFacts ==
  ASSUME NEW f \in [Reqs -> ReqType], NEW B
  PROVE  DecodesTo(f, B, Decoded(f, B))
<1> DEFINE g == Decoded(f, B)
<1>1. g = [r \in Reqs |-> IF r \in B THEN DecodeOne(f[r]) ELSE f[r]]
  BY DEF Decoded
<1> HIDE DEF g
<1>2. ASSUME NEW r \in Reqs
      PROVE  /\ g[r] \in ReqType
             /\ g[r].len = f[r].len /\ g[r].max_new = f[r].max_new /\ g[r].out = f[r].out
             /\ g[r].st = f[r].st /\ g[r].is_retracted = f[r].is_retracted
             /\ g[r].inflight_middle_chunks = f[r].inflight_middle_chunks
             /\ r \in B => g[r].kv = f[r].kv + 1
             /\ r \notin B => g[r] = f[r]
  <2>1. f[r] \in ReqType
    OBVIOUS
  <2>2. CASE r \in B
    <3>1. g[r] = DecodeOne(f[r])
      BY <1>1, <2>2
    <3> DEFINE e == DecodeOne(f[r])
    <3>2. /\ e \in ReqType /\ e.st = f[r].st /\ e.is_retracted = f[r].is_retracted
          /\ e.kv = f[r].kv + 1 /\ e.len = f[r].len /\ e.max_new = f[r].max_new
          /\ e.out = f[r].out /\ e.inflight_middle_chunks = f[r].inflight_middle_chunks
      BY <2>1, DecodeOneFacts
    <3> HIDE DEF e
    <3> QED
      BY <2>2, <3>1, <3>2 DEF e
  <2>3. CASE r \notin B
    BY <1>1, <2>1, <2>3
  <2> QED
    BY <2>2, <2>3
<1>3. g \in [Reqs -> ReqType]
  BY <1>1, <1>2
<1> QED
  BY <1>2, <1>3 DEF DecodesTo, g

\* A decode step takes a page for each request that has filled its last one.
LEMMA DecodePages ==
  ASSUME NEW s \in StateType, NEW B \in SUBSET Reqs, DecodeFits(s, B)
  PROVE  Held(Decoded(s.req, B)) =< TokenCapacity
<1> DEFINE f == s.req
           g == Decoded(f, B)
           N == NeedsPage(s, B)
           w == [r \in Reqs |-> IF r \in N THEN PageSize ELSE 0]
<1>1. f \in [Reqs -> ReqType]
  BY StateFields
<1>2. /\ IsFiniteSet(Reqs) /\ PageSize \in Nat /\ TokenCapacity \in Nat
      /\ \A r \in Reqs : f[r].kv \in Nat /\ CeilPaged(f[r].kv) \in Nat
  BY <1>1, HeldFacts, CapacityAssumption
<1>3. Available(s) = TokenCapacity - Held(f) /\ Held(f) \in Nat
  BY <1>1, AvailableFacts, HeldFacts
<1>4. N = {r \in B : f[r].kv % PageSize = 0} /\ N \in SUBSET Reqs
  BY DEF NeedsPage
<1>5. Cardinality(N) * PageSize =< TokenCapacity - Held(f)
  BY <1>3 DEF DecodeFits
<1>6. DecodesTo(f, B, g)
  <2> HIDE DEF f
  <2> QED
    BY <1>1, DecodedFacts
<1> HIDE DEF f, g, N
<1>7. g \in [Reqs -> ReqType]
  BY <1>6 DEF DecodesTo
<1>8. ASSUME NEW r \in Reqs
      PROVE  w[r] \in Nat /\ CeilPaged(g[r].kv) =< CeilPaged(f[r].kv) + w[r]
  <2>1. w[r] \in Nat /\ w[r] = IF r \in N THEN PageSize ELSE 0
    BY <1>2
  <2>2. CASE r \in B
    <3>1. g[r].kv = f[r].kv + 1 /\ f[r].kv \in Nat
      BY <1>2, <1>6, <2>2 DEF DecodesTo
    <3> DEFINE k == f[r].kv
    <3>2. k \in Nat
      BY <3>1
    <3>3. r \in N <=> k % PageSize = 0
      BY <1>4, <2>2
    <3> HIDE DEF k
    <3>4. CeilPaged(k + 1) =< CeilPaged(k) + (IF k % PageSize = 0 THEN PageSize ELSE 0)
      BY <3>2, CeilNext
    <3>5. CeilPaged(k + 1) =< CeilPaged(k) + w[r]
      BY <2>1, <3>3, <3>4
    <3> QED
      BY <2>1, <3>1, <3>5 DEF k
  <2>3. CASE r \notin B
    <3>1. g[r] = f[r]
      BY <1>6, <2>3 DEF DecodesTo
    <3> QED
      BY <1>2, <2>1, <3>1
  <2> QED
    BY <2>2, <2>3
<1>9. \A r \in Reqs : w[r] = IF r \in N THEN PageSize ELSE 0
  OBVIOUS
<1> HIDE DEF w
<1>10. SumFunctionOnSet(w, Reqs) =< Cardinality(N) * PageSize
  BY <1>2, <1>4, <1>9, SumConstant
<1>11. /\ Held(g) =< Held(f) + SumFunctionOnSet(w, Reqs)
       /\ SumFunctionOnSet(w, Reqs) \in Nat
  BY <1>1, <1>7, <1>8, HeldGrowth
<1>12. Cardinality(N) * PageSize \in Int
  <2>1. IsFiniteSet(N)
    BY <1>2, <1>4, FS_Subset
  <2>2. Cardinality(N) \in Nat
    BY <2>1, FS_CardinalityType
  <2> QED
    BY <1>2, <2>2
<1>13. Held(g) \in Nat
  BY <1>7, HeldFacts
<1>14. Held(g) =< TokenCapacity
  <2> DEFINE x == Cardinality(N) * PageSize
  <2>1. x \in Int /\ x =< TokenCapacity - Held(f) /\ SumFunctionOnSet(w, Reqs) =< x
    BY <1>5, <1>10, <1>12
  <2> HIDE DEF x
  <2> QED
    BY <1>2, <1>3, <1>11, <1>13, <2>1
<1> QED
  BY <1>14 DEF g, f

\* The batch that LaunchDecode launches.
DecodeBatch(s) ==
  [mode |-> "decode", reqs |-> s.running_batch.reqs, chunked_req |-> NoReq,
   is_prefill_only |-> FALSE]

\* The state after a decode batch that has its memory.
LEMMA LaunchDecodeIs ==
  ASSUME NEW s \in StateType, DecodeFits(s, s.running_batch.reqs)
  PROVE  LET t == LaunchDecode(s)
             b == DecodeBatch(s)
         IN  /\ t \in StateType /\ b \in BatchType
             /\ t.waiting_queue = s.waiting_queue /\ t.chunked_req = s.chunked_req
             /\ t.pending_chunked_abort = s.pending_chunked_abort
             /\ t.running_batch = s.running_batch /\ t.last_batch = b
             /\ t.result_queue = Append(s.result_queue, Result(b))
             /\ t.req = Decoded(s.req, s.running_batch.reqs)
             /\ t.fault = s.fault
<1> DEFINE B == s.running_batch.reqs
           b == DecodeBatch(s)
           g == Decoded(s.req, B)
           s2 == [s EXCEPT !.req = g]
           q == Append(s.result_queue, Result(b))
           t == [s2 EXCEPT !.result_queue = q, !.last_batch = b]
<1>1. /\ s.running_batch \in RunningType /\ B \in SUBSET Reqs
      /\ s.result_queue \in Seq(ResultType) /\ s.req \in [Reqs -> ReqType]
  BY StateFields
<1>2. b \in BatchType /\ b.reqs = B
  BY <1>1 DEF DecodeBatch, BatchType
<1>3. Result(b) \in ResultType /\ q \in Seq(ResultType)
  <2>1. Result(b) \in ResultType
    <3> HIDE DEF b
    <3> QED
      BY <1>2, DueFacts
  <2> HIDE DEF b
  <2> QED
    BY <1>1, <2>1
<1>4. g \in [Reqs -> ReqType]
  <2>1. DecodesTo(s.req, B, g)
    <3> HIDE DEF B
    <3> QED
      BY <1>1, DecodedFacts
  <2> QED
    BY <2>1 DEF DecodesTo
<1>5. Held(g) =< TokenCapacity
  BY <1>1, DecodePages
<1>6. /\ s2.req = g /\ s2.result_queue = s.result_queue
      /\ s2 = [s EXCEPT !.req = [r \in Reqs |->
                  IF r \in B THEN DecodeOne(s.req[r]) ELSE s.req[r]]]
  BY DEF StateType, Decoded
<1> HIDE DEF g, q
<1>7. Available(s2) = TokenCapacity - Held(g) /\ Held(g) \in Nat /\ TokenCapacity \in Nat
  <2> HIDE DEF s2
  <2> QED
    BY <1>4, <1>6, AvailableFacts, HeldFacts, CapacityAssumption
<1>8. Fail(s2, Available(s2) < 0, "decode out of memory") = s2
  BY <1>5, <1>7 DEF Fail
<1> DEFINE ran == [r \in B |-> "decode"]
           res == [r \in b.reqs |-> [ran |-> ran[r], stale |-> FALSE]]
<1>9. LaunchDecode(s) = Launch(Fail(s2, Available(s2) < 0, "decode out of memory"), b, ran)
  BY <1>6 DEF LaunchDecode, DecodeBatch
<1>10. LaunchDecode(s) = t
  <2>1. res = Result(b)
    BY <1>2 DEF Result, Ran, DecodeBatch
  <2>2. Launch(s2, b, ran) = [s2 EXCEPT !.result_queue = Append(s2.result_queue, res),
                                        !.last_batch = b]
    BY DEF Launch
  <2> HIDE DEF res, ran, s2, b
  <2>3. Launch(s2, b, ran) = t
    BY <1>6, <2>1, <2>2 DEF q
  <2> QED
    BY <1>8, <1>9, <2>3
<1> HIDE DEF b, ran, res
<1>11. /\ t \in StateType /\ t.waiting_queue = s.waiting_queue
       /\ t.chunked_req = s.chunked_req
       /\ t.pending_chunked_abort = s.pending_chunked_abort
       /\ t.running_batch = s.running_batch /\ t.last_batch = b /\ t.result_queue = q
       /\ t.req = g /\ t.fault = s.fault
  BY <1>2, <1>3, <1>4 DEF StateType
<1> HIDE DEF t
<1> QED
  BY <1>2, <1>10, <1>11 DEF b, q, g

\* The running batch decodes.
LEMMA LaunchDecodeOK ==
  ASSUME NEW s, NEW old, NEW ov \in BOOLEAN, Poised(s, old, ov),
         s.running_batch.reqs # {}, \A r \in s.running_batch.reqs : s.req[r].st = "live",
         DecodeFits(s, s.running_batch.reqs)
  PROVE  Posted(LaunchDecode(s), old, ov)
<1> DEFINE t == LaunchDecode(s)
           b == DecodeBatch(s)
           B == s.running_batch.reqs
           f == s.req
           g == Decoded(f, B)
           p == s.result_queue
           q == t.result_queue
           lc == old.chunked_req
<1>1. /\ StageOK(s) /\ s \in StateType /\ s.fault = {} /\ s.chunked_req = NoReq
      /\ s.pending_chunked_abort = NoReq
      /\ QueueOK(s.waiting_queue, f) /\ ReqsOK(f)
      /\ old \in BatchType /\ LastOK(old)
      /\ \A r \in Reqs : f[r].st = "live" => r \in B
      /\ \A r \in old.reqs : f[r].st \in {"live", "done"} \/ f[r].is_retracted
      /\ lc # NoReq => f[lc].st = "done"
      /\ Len(p) = Len(Due(old, ov))
      /\ ov /\ old.mode # "none" =>
           /\ DOMAIN p[1] = old.reqs
           /\ \A r \in old.reqs :
                p[1][r].ran = Ran(old, r) /\ (p[1][r].stale => f[r].is_retracted)
      /\ \A r \in Reqs : f[r].inflight_middle_chunks = One(ov /\ r = lc)
      /\ \A r \in Reqs : Holds(f[r], One(ov /\ r \in old.reqs))
  BY DEF Poised, StageOK
<1>2. f \in [Reqs -> ReqType] /\ B \in SUBSET Reqs /\ p \in Seq(ResultType)
  BY <1>1, StateFields
<1>3. /\ t \in StateType /\ b \in BatchType
      /\ t.waiting_queue = s.waiting_queue /\ t.chunked_req = s.chunked_req
      /\ t.pending_chunked_abort = s.pending_chunked_abort
      /\ t.running_batch = s.running_batch /\ t.last_batch = b
      /\ q = Append(p, Result(b)) /\ t.req = g /\ t.fault = s.fault
  BY <1>1, LaunchDecodeIs
<1>4. b.mode = "decode" /\ b.reqs = B /\ b.chunked_req = NoReq
  BY DEF DecodeBatch
<1>5. DecodesTo(f, B, g)
  <2> HIDE DEF f, B
  <2> QED
    BY <1>2, DecodedFacts
<1>6. t.running_batch.reqs = B /\ B # {} /\ \A r \in B : f[r].st = "live"
  BY <1>3
<1> HIDE DEF t, b, B, f, g, p, q, lc
<1>7. /\ g \in [Reqs -> ReqType]
      /\ \A r \in Reqs :
           /\ g[r].len = f[r].len /\ g[r].max_new = f[r].max_new /\ g[r].out = f[r].out
           /\ g[r].st = f[r].st /\ g[r].is_retracted = f[r].is_retracted
           /\ g[r].inflight_middle_chunks = f[r].inflight_middle_chunks
           /\ r \in B => g[r].kv = f[r].kv + 1
           /\ r \notin B => g[r] = f[r]
  BY <1>5 DEF DecodesTo
<1>8. NoReq \notin Reqs /\ NoReq \notin old.reqs /\ old.reqs \in SUBSET Reqs
  BY <1>1, NoReqFacts DEF BatchType
<1>9. StageOK(t)
  <2>1. QueueOK(s.waiting_queue, g)
    BY <1>1, <1>7 DEF QueueOK
  <2>2. ReqsOK(g)
    <3>1. SUFFICES ASSUME NEW r \in Reqs PROVE ReqOK(g[r])
      BY DEF ReqsOK
    <3>2. ReqOK(f[r]) /\ g[r] \in ReqType /\ f[r] \in ReqType
      BY <1>1, <1>2, <1>7 DEF ReqsOK
    <3>3. CASE r \in B
      BY <1>6, <1>7, <3>2, <3>3 DEF ReqOK
    <3>4. CASE r \notin B
      BY <1>7, <3>2, <3>4
    <3> QED
      BY <3>3, <3>4
  <2>3. ChunkedOK(NoReq, g)
    BY DEF ChunkedOK
  <2> QED
    BY <1>1, <1>3, <2>1, <2>2, <2>3 DEF StageOK
<1>10. BatchOK(t)
  <2>1. LastOK(b)
    BY <1>4, <1>6 DEF LastOK
  <2>2. InBatch(g, B)
    BY <1>2, <1>6, <1>7 DEF InBatch
  <2>3. \A r \in Reqs : g[r].st = "live" => r \in B
    BY <1>1, <1>7
  <2> QED
    BY <1>1, <1>3, <1>4, <1>6, <2>1, <2>2, <2>3 DEF BatchOK
<1>11. FlagOK(t)
  BY <1>6 DEF FlagOK
<1>12. lc # NoReq => ~g[lc].is_retracted
  <2>1. SUFFICES ASSUME lc # NoReq PROVE ~g[lc].is_retracted
    OBVIOUS
  <2>2. lc \in Reqs /\ g[lc].st = "done"
    <3>1. lc \in Reqs
      BY <1>1, <2>1 DEF BatchType, lc
    <3> QED
      BY <1>1, <1>7, <2>1, <3>1
  <2>3. ReqOK(g[lc])
    BY <1>3, <1>9, <2>2 DEF StageOK, ReqsOK
  <2> QED
    BY <2>2, <2>3 DEF ReqOK
<1>13. /\ Len(q) = Len(Due(old, ov)) + Len(Results(b))
       /\ q[Len(q)] = Result(b)
       /\ ov /\ old.mode # "none" => q[1] = p[1]
  <2> DEFINE res == Result(b)
  <2>1. res \in ResultType /\ Len(Results(b)) = 1
    BY <1>3, <1>4, DueFacts
  <2>2. ov /\ old.mode # "none" => DOMAIN p[1] = old.reqs
    BY <1>1
  <2>3. q = Append(p, res)
    BY <1>3
  <2> HIDE DEF res
  <2>4. /\ Len(q) = Len(Due(old, ov)) + 1 /\ q[Len(q)] = res
        /\ ov /\ old.mode # "none" => q[1] = p[1]
    BY <1>1, <1>2, <2>1, <2>2, <2>3, QueueGrows
  <2> QED
    BY <2>1, <2>4 DEF res
<1>14. ASSUME NEW r \in Reqs
       PROVE  g[r].inflight_middle_chunks = One(ov /\ r = lc) + One(r = NoReq)
  BY <1>1, <1>7, <1>8 DEF One
<1>15. ASSUME NEW r \in Reqs
       PROVE  Holds(g[r], One(ov /\ r \in old.reqs /\ r # lc) + One(r \in B))
  <2>1. SUFFICES ASSUME g[r].st = "live"
                 PROVE  g[r].kv = FillLen(g[r]) - 1
                            + (One(ov /\ r \in old.reqs /\ r # lc) + One(r \in B))
    BY DEF Holds
  <2>2. r # lc /\ r \in B
    BY <1>1, <1>7, <1>8, <2>1
  <2>3. /\ f[r].kv = FillLen(f[r]) - 1 + One(ov /\ r \in old.reqs)
        /\ FillLen(f[r]) \in Nat /\ FillLen(g[r]) = FillLen(f[r]) /\ g[r].kv = f[r].kv + 1
    <3>1. /\ g[r].len = f[r].len /\ g[r].out = f[r].out /\ g[r].st = f[r].st
          /\ g[r].kv = f[r].kv + 1
      BY <1>7, <2>2
    <3>2. Holds(f[r], One(ov /\ r \in old.reqs))
      BY <1>1
    <3>3. FillLen(f[r]) \in Nat
      BY <1>2, ReqLengths
    <3>4. FillLen(g[r]) = FillLen(f[r])
      BY <3>1 DEF FillLen
    <3> QED
      BY ONLY <2>1, <3>1, <3>2, <3>3, <3>4 DEF Holds
  <2> QED
    BY <2>2, <2>3 DEF One
<1>16. Posted(t, old, ov)
  <2>1. /\ t.last_batch = b /\ t.chunked_req = NoReq /\ t.req = g /\ b.mode # "none"
        /\ b.reqs = B /\ t.pending_chunked_abort = NoReq
    BY <1>1, <1>3, <1>4
  <2>2. \A r \in old.reqs : g[r].st \in {"live", "done"} \/ g[r].is_retracted
    BY <1>1, <1>7, <1>8
  <2>3. ov /\ old.mode # "none" =>
           /\ DOMAIN q[1] = old.reqs
           /\ \A r \in old.reqs :
                q[1][r].ran = Ran(old, r) /\ (q[1][r].stale => g[r].is_retracted)
    <3>1. SUFFICES ASSUME ov, old.mode # "none"
                   PROVE  /\ DOMAIN q[1] = old.reqs
                          /\ \A r \in old.reqs :
                               q[1][r].ran = Ran(old, r) /\ (q[1][r].stale => g[r].is_retracted)
      OBVIOUS
    <3>2. q[1] = p[1] /\ DOMAIN p[1] = old.reqs
      BY <1>1, <1>13, <3>1
    <3>3. ASSUME NEW r \in old.reqs
          PROVE  q[1][r].ran = Ran(old, r) /\ (q[1][r].stale => g[r].is_retracted)
      <4>1. p[1][r].ran = Ran(old, r) /\ (p[1][r].stale => f[r].is_retracted)
        BY <1>1, <3>1
      <4>2. g[r].is_retracted = f[r].is_retracted
        BY <1>7, <1>8
      <4> QED
        BY <3>2, <4>1, <4>2
    <3> QED
      BY <3>2, <3>3
  <2> QED
    BY <1>1, <1>8, <1>9, <1>10, <1>11, <1>12, <1>13, <1>14, <1>15, <2>1, <2>2, <2>3
       DEF Posted, q, lc
<1> QED
  BY <1>16 DEF t

-----------------------------------------------------------------------------
(* Retraction *)

\* _get_decode_retraction_order as a relation on a batch.
KeepOrder(s, B) == {z \in B \X B : KeepBefore(s, z[1], z[2])}

\* How many requests of B are kept after r.
Rank(s, B, r) == Cardinality({x \in B : KeepBefore(s, r, x)})

\* The retraction order is strict and total: it numbers a batch.
LEMMA RankFacts ==
  ASSUME NEW s, s.req \in [Reqs -> ReqType], NEW B \in SUBSET Reqs
  PROVE  /\ IsFiniteSet(B) /\ Cardinality(B) \in Nat
         /\ \A x \in B : Rank(s, B, x) \in 0..(Cardinality(B) - 1)
         /\ \A x, y \in B : Rank(s, B, x) = Rank(s, B, y) => x = y
         /\ \A i \in 0..(Cardinality(B) - 1) : \E x \in B : Rank(s, B, x) = i
<1> DEFINE L == KeepOrder(s, B)
<1>1. IsFiniteSet(B) /\ Cardinality(B) \in Nat
  BY LoopAssumption, FS_Subset, FS_CardinalityType
<1>2. \A x, y \in B : <<x, y>> \in L <=> KeepBefore(s, x, y)
  BY DEF KeepOrder
<1>3. \A x \in B : x \in Nat /\ s.req[x].out \in Nat /\ s.req[x].len \in Nat
  BY LoopAssumption DEF ReqType
<1> HIDE DEF L
<1>4. Orders(L, B)
  <2>1. ASSUME NEW x \in B PROVE <<x, x>> \notin L
    BY <1>2, <1>3 DEF KeepBefore
  <2>2. ASSUME NEW x \in B, NEW y \in B, x # y PROVE <<x, y>> \in L \/ <<y, x>> \in L
    BY <1>2, <1>3, <2>2 DEF KeepBefore
  <2>3. ASSUME NEW x \in B, NEW y \in B, NEW z \in B, <<x, y>> \in L, <<y, z>> \in L
        PROVE  <<x, z>> \in L
    <3>1. KeepBefore(s, x, y) /\ KeepBefore(s, y, z)
      BY <1>2, <2>3
    <3>2. KeepBefore(s, x, z)
      BY <1>3, <3>1 DEF KeepBefore
    <3> QED
      BY <1>2, <3>2
  <2> QED
    BY <2>1, <2>2, <2>3 DEF Orders
<1>5. \A x \in B : Rank(s, B, x) = Cardinality(After(L, B, x))
  <2>1. TAKE x \in B
  <2>2. {y \in B : KeepBefore(s, x, y)} = After(L, B, x)
    BY <1>2 DEF After
  <2> QED
    BY <2>2 DEF Rank
<1>6. /\ \A x \in B : Cardinality(After(L, B, x)) \in 0..(Cardinality(B) - 1)
      /\ \A x, y \in B : Cardinality(After(L, B, x)) = Cardinality(After(L, B, y)) => x = y
      /\ \A i \in 0..(Cardinality(B) - 1) : \E x \in B : Cardinality(After(L, B, x)) = i
  BY <1>1, <1>4, Ranking
<1> QED
  BY <1>1, <1>5, <1>6

\* Retracting fewer than all leaves some, and all but one leaves one.
LEMMA WorstFacts ==
  ASSUME NEW s, s.req \in [Reqs -> ReqType], NEW B \in SUBSET Reqs,
         NEW k \in 0..(Cardinality(B) - 1)
  PROVE  /\ Worst(s, B, k) \subseteq B /\ B \ Worst(s, B, k) # {}
         /\ k = Cardinality(B) - 1 => \E x \in B : B \ Worst(s, B, k) = {x}
<1> DEFINE m == Cardinality(B)
<1>1. Worst(s, B, k) = {r \in B : Rank(s, B, r) < k}
  BY DEF Worst, Rank
<1>2. /\ m \in Nat /\ \A x \in B : Rank(s, B, x) \in 0..(m - 1)
      /\ \A x, y \in B : Rank(s, B, x) = Rank(s, B, y) => x = y
      /\ \A i \in 0..(m - 1) : \E x \in B : Rank(s, B, x) = i
  BY RankFacts
<1> HIDE DEF m
<1>3. k \in 0..(m - 1)
  BY DEF m
<1>4. m - 1 \in 0..(m - 1)
  BY <1>2, <1>3
<1>5. PICK x \in B : Rank(s, B, x) = m - 1
  BY <1>2, <1>4
<1>6. x \in B \ Worst(s, B, k)
  BY <1>1, <1>2, <1>3, <1>5
<1>7. ASSUME k = m - 1 PROVE B \ Worst(s, B, k) = {x}
  <2>1. ASSUME NEW y \in B \ Worst(s, B, k) PROVE y = x
    <3>1. Rank(s, B, y) \in 0..(m - 1) /\ ~(Rank(s, B, y) < k)
      BY <1>1, <1>2
    <3>2. Rank(s, B, y) = m - 1
      BY <1>2, <1>7, <3>1
    <3> QED
      BY <1>2, <1>5, <3>2
  <2> QED
    BY <1>6, <2>1
<1> QED
  BY <1>1, <1>6, <1>7 DEF m

\* The retracted requests join the queue, each once.
LEMMA RetractionOrderFacts ==
  ASSUME NEW s, s.req \in [Reqs -> ReqType], NEW R \in SUBSET Reqs
  PROVE  LET o == RetractionOrder(s, R)
         IN  o \in Seq(Reqs) /\ Distinct(o) /\ \A r \in Reqs : Listed(o, r) <=> r \in R
<1> DEFINE o == RetractionOrder(s, R)
           n == Cardinality(R)
<1>1. o = [i \in 1..n |-> CHOOSE r \in R : Rank(s, R, r) = i - 1]
  BY DEF RetractionOrder, Rank
<1>2. /\ n \in Nat /\ \A x \in R : Rank(s, R, x) \in 0..(n - 1)
      /\ \A x, y \in R : Rank(s, R, x) = Rank(s, R, y) => x = y
      /\ \A i \in 0..(n - 1) : \E x \in R : Rank(s, R, x) = i
  BY RankFacts
<1> HIDE DEF o, n
<1>3. \A i \in 1..n : o[i] \in R /\ Rank(s, R, o[i]) = i - 1
  <2>1. TAKE i \in 1..n
  <2>2. i - 1 \in 0..(n - 1)
    BY <1>2
  <2>3. \E r \in R : Rank(s, R, r) = i - 1
    BY <1>2, <2>2
  <2>4. o[i] = CHOOSE r \in R : Rank(s, R, r) = i - 1
    BY <1>1
  <2> QED
    BY <2>3, <2>4
<1>4. DOMAIN o = 1..n
  BY <1>1
<1>5. o \in Seq(Reqs)
  <2>1. o \in [1..n -> Reqs]
    BY <1>1, <1>3
  <2> QED
    BY <1>2, <2>1, IsASeq
<1>6. Distinct(o)
  <2>1. ASSUME NEW i \in 1..n, NEW j \in 1..n, o[i] = o[j] PROVE i = j
    <3>1. i - 1 = j - 1
      BY <1>3, <2>1
    <3> QED
      BY <1>2, <3>1
  <2> QED
    BY <1>4, <2>1 DEF Distinct
<1>7. ASSUME NEW r \in R PROVE Listed(o, r)
  <2> DEFINE i == Rank(s, R, r) + 1
  <2>1. Rank(s, R, r) \in 0..(n - 1) /\ i - 1 = Rank(s, R, r) /\ i \in 1..n
    BY <1>2
  <2>2. o[i] \in R /\ Rank(s, R, o[i]) = Rank(s, R, r)
    BY <1>3, <2>1
  <2>3. o[i] = r
    BY <1>2, <2>2
  <2> QED
    BY <1>4, <2>1, <2>3 DEF Listed
<1>8. \A r \in Reqs : Listed(o, r) => r \in R
  BY <1>3, <1>4 DEF Listed
<1> QED
  BY <1>5, <1>6, <1>7, <1>8 DEF o

\* Two queues without a request in common, one behind the other.
LEMMA ConcatFacts ==
  ASSUME NEW p \in Seq(Reqs), NEW q \in Seq(Reqs), Distinct(p), Distinct(q),
         \A r \in Reqs : ~(Listed(p, r) /\ Listed(q, r))
  PROVE  /\ p \o q \in Seq(Reqs) /\ Distinct(p \o q)
         /\ \A r \in Reqs : Listed(p \o q, r) <=> Listed(p, r) \/ Listed(q, r)
<1> DEFINE m == Len(p)
           n == Len(q)
           z == p \o q
<1>1. /\ m \in Nat /\ n \in Nat /\ DOMAIN p = 1..m /\ DOMAIN q = 1..n
      /\ \A i \in 1..m : p[i] \in Reqs
      /\ \A i \in 1..n : q[i] \in Reqs
  OBVIOUS
<1>2. z \in Seq(Reqs) /\ Len(z) = m + n
  OBVIOUS
<1>3. DOMAIN z = 1..(m + n)
  BY <1>2
<1>4. (\A i \in 1..m : z[i] = p[i]) /\ \A i \in (m + 1)..(m + n) : z[i] = q[i - m]
  OBVIOUS
<1> HIDE DEF m, n, z
<1>5. \A i \in 1..(m + n) : i \in 1..m \/ (i \in (m + 1)..(m + n) /\ i - m \in 1..n)
  BY <1>1
<1>6. \A i \in 1..m, j \in 1..n : p[i] # q[j]
  BY <1>1 DEF Listed
<1>7. Distinct(z)
  <2>1. SUFFICES ASSUME NEW i \in 1..(m + n), NEW j \in 1..(m + n), z[i] = z[j]
                 PROVE  i = j
    BY <1>3 DEF Distinct
  <2>2. CASE i \in 1..m /\ j \in 1..m
    BY <1>1, <1>4, <2>1, <2>2 DEF Distinct
  <2>3. CASE i \in (m + 1)..(m + n) /\ j \in (m + 1)..(m + n)
    <3>1. i - m \in 1..n /\ j - m \in 1..n
      BY <1>1, <2>3
    <3>2. q[i - m] = q[j - m]
      BY <1>4, <2>1, <2>3
    <3>3. i - m = j - m
      BY <1>1, <3>1, <3>2 DEF Distinct
    <3> QED
      BY <1>1, <2>3, <3>3
  <2>4. CASE i \in 1..m /\ j \in (m + 1)..(m + n)
    <3>1. j - m \in 1..n
      BY <1>1, <2>4
    <3> QED
      BY <1>4, <1>6, <2>1, <2>4, <3>1
  <2>5. CASE i \in (m + 1)..(m + n) /\ j \in 1..m
    <3>1. i - m \in 1..n
      BY <1>1, <2>5
    <3> QED
      BY <1>4, <1>6, <2>1, <2>5, <3>1
  <2> QED
    BY <1>5, <2>2, <2>3, <2>4, <2>5
<1>8. ASSUME NEW r \in Reqs
      PROVE  Listed(z, r) <=> Listed(p, r) \/ Listed(q, r)
  <2>1. ASSUME Listed(z, r) PROVE Listed(p, r) \/ Listed(q, r)
    <3>1. PICK i \in 1..(m + n) : z[i] = r
      BY <1>3, <2>1 DEF Listed
    <3>2. CASE i \in 1..m
      BY <1>1, <1>4, <3>1, <3>2 DEF Listed
    <3>3. CASE i \in (m + 1)..(m + n)
      BY <1>1, <1>4, <1>5, <3>1, <3>3 DEF Listed
    <3> QED
      BY <1>5, <3>2, <3>3
  <2>2. ASSUME NEW i \in 1..m, p[i] = r PROVE Listed(z, r)
    <3>1. i \in 1..(m + n)
      BY <1>1
    <3> QED
      BY <1>3, <1>4, <2>2, <3>1 DEF Listed
  <2>3. ASSUME NEW j \in 1..n, q[j] = r PROVE Listed(z, r)
    <3>1. j + m \in (m + 1)..(m + n) /\ j + m \in 1..(m + n) /\ (j + m) - m = j
      BY <1>1
    <3>2. z[j + m] = r
      BY <1>4, <2>3, <3>1
    <3> QED
      BY <1>3, <3>1, <3>2 DEF Listed
  <2> QED
    BY <1>1, <2>1, <2>2, <2>3 DEF Listed
<1> QED
  BY <1>2, <1>7, <1>8 DEF z

\* release_req for one request, field by field.
LEMMA ReleaseReqFacts ==
  ASSUME NEW q \in ReqType
  PROVE  LET e == ReleaseReq(q)
         IN  /\ e \in ReqType /\ e.st = "waiting" /\ e.is_retracted = TRUE /\ e.kv = 0
             /\ e.len = q.len /\ e.max_new = q.max_new /\ e.out = q.out
             /\ e.inflight_middle_chunks = 0
  BY DEF ReleaseReq, ReqType

\* The requests after those of R were retracted.
Released(f, R) == [r \in Reqs |-> IF r \in R THEN ReleaseReq(f[r]) ELSE f[r]]

\* How the requests g after a retraction of R differ from f.
ReleasesTo(f, R, g) ==
  /\ g \in [Reqs -> ReqType]
  /\ \A r \in Reqs :
       /\ r \in R => /\ g[r].st = "waiting" /\ g[r].is_retracted = TRUE /\ g[r].kv = 0
                     /\ g[r].len = f[r].len /\ g[r].max_new = f[r].max_new
                     /\ g[r].out = f[r].out /\ g[r].inflight_middle_chunks = 0
       /\ r \notin R => g[r] = f[r]

\* Every request after a retraction.
LEMMA ReleasedFacts ==
  ASSUME NEW f \in [Reqs -> ReqType], NEW R
  PROVE  ReleasesTo(f, R, Released(f, R))
<1> DEFINE g == Released(f, R)
<1>1. g = [r \in Reqs |-> IF r \in R THEN ReleaseReq(f[r]) ELSE f[r]]
  BY DEF Released
<1> HIDE DEF g
<1>2. ASSUME NEW r \in Reqs
      PROVE  /\ g[r] \in ReqType
             /\ r \in R => /\ g[r].st = "waiting" /\ g[r].is_retracted = TRUE /\ g[r].kv = 0
                           /\ g[r].len = f[r].len /\ g[r].max_new = f[r].max_new
                           /\ g[r].out = f[r].out /\ g[r].inflight_middle_chunks = 0
             /\ r \notin R => g[r] = f[r]
  <2>1. f[r] \in ReqType
    OBVIOUS
  <2>2. CASE r \in R
    <3>1. g[r] = ReleaseReq(f[r])
      BY <1>1, <2>2
    <3> DEFINE e == ReleaseReq(f[r])
    <3>2. /\ e \in ReqType /\ e.st = "waiting" /\ e.is_retracted = TRUE /\ e.kv = 0
          /\ e.len = f[r].len /\ e.max_new = f[r].max_new /\ e.out = f[r].out
          /\ e.inflight_middle_chunks = 0
      BY <2>1, ReleaseReqFacts
    <3> HIDE DEF e
    <3> QED
      BY <2>2, <3>1, <3>2 DEF e
  <2>3. CASE r \notin R
    BY <1>1, <2>1, <2>3
  <2> QED
    BY <2>2, <2>3
<1>3. g \in [Reqs -> ReqType]
  BY <1>1, <1>2
<1> QED
  BY <1>2, <1>3 DEF ReleasesTo, g

\* A voided result keeps what it ran.
LEMMA VoidFacts ==
  ASSUME NEW b \in ResultType, NEW R
  PROVE  /\ Void(b, R) \in ResultType /\ DOMAIN Void(b, R) = DOMAIN b
         /\ \A r \in DOMAIN b : /\ Void(b, R)[r].ran = b[r].ran
                                /\ Void(b, R)[r].stale => r \in R \/ b[r].stale
<1> DEFINE v == Void(b, R)
<1>1. PICK D \in SUBSET Reqs : b \in [D -> Entries]
  BY DEF ResultType
<1>2. v = [r \in D |-> IF r \in R THEN [b[r] EXCEPT !.stale = TRUE] ELSE b[r]]
  BY <1>1 DEF Void
<1> HIDE DEF v
<1>3. ASSUME NEW r \in D
      PROVE  v[r] \in Entries /\ v[r].ran = b[r].ran /\ (v[r].stale => r \in R \/ b[r].stale)
  <2>1. b[r] \in Entries
    BY <1>1
  <2>2. CASE r \in R
    BY <1>2, <2>1, <2>2 DEF Entries
  <2>3. CASE r \notin R
    BY <1>2, <2>1, <2>3
  <2> QED
    BY <2>2, <2>3
<1>4. v \in [D -> Entries]
  BY <1>2, <1>3
<1>5. v \in ResultType
  BY <1>4 DEF ResultType
<1> QED
  BY <1>1, <1>3, <1>4, <1>5 DEF v

\* Voiding results keeps their number and their batches.
LEMMA VoidQueueFacts ==
  ASSUME NEW q \in Seq(ResultType), NEW R
  PROVE  LET p == [i \in DOMAIN q |-> Void(q[i], R)]
         IN  /\ p \in Seq(ResultType) /\ Len(p) = Len(q)
             /\ Len(q) > 0 => p[1] = Void(q[1], R) /\ q[1] \in ResultType
<1> DEFINE p == [i \in DOMAIN q |-> Void(q[i], R)]
           n == Len(q)
<1>1. n \in Nat /\ DOMAIN q = 1..n /\ \A i \in 1..n : q[i] \in ResultType
  OBVIOUS
<1>2. p \in [1..n -> ResultType]
  BY <1>1, VoidFacts
<1> HIDE DEF n
<1>3. p \in Seq(ResultType) /\ Len(p) = n
  <2> HIDE DEF p
  <2> QED
    BY <1>1, <1>2, IsASeq, LenProperties
<1>4. n > 0 => p[1] = Void(q[1], R) /\ q[1] \in ResultType
  BY <1>1
<1> QED
  BY <1>3, <1>4 DEF n

\* The requests of R go back to the waiting queue.
Requeued(s, R) ==
  [Retract(s, R) EXCEPT !.waiting_queue = @ \o RetractionOrder(s, R),
                        !.running_batch.batch_is_full = FALSE]

\* How t follows from s by retracting R and queueing it again.
RequeuesTo(s, R, t) ==
  /\ t \in StateType
  /\ t.waiting_queue = s.waiting_queue \o RetractionOrder(s, R)
  /\ t.chunked_req = s.chunked_req
  /\ t.pending_chunked_abort = s.pending_chunked_abort
  /\ t.running_batch.reqs = s.running_batch.reqs \ R
  /\ t.running_batch.batch_is_full = FALSE
  /\ t.result_queue = [i \in DOMAIN s.result_queue |-> Void(s.result_queue[i], R)]
  /\ t.req = Released(s.req, R) /\ t.fault = s.fault

\* The retraction of retract_decode, field by field.
LEMMA RequeuedIs ==
  ASSUME NEW s \in StateType, NEW R,
         s.waiting_queue \o RetractionOrder(s, R) \in Seq(Reqs)
  PROVE  RequeuesTo(s, R, Requeued(s, R)) /\ Retract(s, R).req = Released(s.req, R)
<1> DEFINE wq == s.waiting_queue \o RetractionOrder(s, R)
           b1 == [s.running_batch EXCEPT !.reqs = s.running_batch.reqs \ R]
           b2 == [b1 EXCEPT !.batch_is_full = FALSE]
           g == Released(s.req, R)
           q == [i \in DOMAIN s.result_queue |-> Void(s.result_queue[i], R)]
           s1 == [s EXCEPT !.running_batch = b1, !.req = g, !.result_queue = q]
           t == [s1 EXCEPT !.waiting_queue = wq, !.running_batch = b2]
<1>1. /\ s.running_batch \in RunningType /\ s.running_batch.reqs \in SUBSET Reqs
      /\ s.result_queue \in Seq(ResultType) /\ s.req \in [Reqs -> ReqType]
  BY StateFields
<1>2. b2 \in RunningType /\ b2.reqs = s.running_batch.reqs \ R /\ b2.batch_is_full = FALSE
  BY <1>1 DEF RunningType
<1>3. g \in [Reqs -> ReqType]
  <2>1. ReleasesTo(s.req, R, g)
    BY <1>1, ReleasedFacts
  <2> QED
    BY <2>1 DEF ReleasesTo
<1>4. q \in Seq(ResultType)
  BY <1>1, VoidQueueFacts
<1>5. Retract(s, R) = s1
  BY DEF Retract, Released
<1> HIDE DEF b1, g, q
<1>6. s1.running_batch = b1 /\ s1.waiting_queue = s.waiting_queue /\ s1.req = g
  BY DEF StateType
<1>7. Requeued(s, R) = t
  <2>1. Requeued(s, R) = [s1 EXCEPT !.waiting_queue = s1.waiting_queue \o RetractionOrder(s, R),
                             !.running_batch = [s1.running_batch EXCEPT !.batch_is_full = FALSE]]
    BY <1>5 DEF Requeued
  <2> HIDE DEF s1
  <2> QED
    BY <1>6, <2>1
<1> HIDE DEF b2, wq
<1>8. wq \in Seq(Reqs)
  BY DEF wq
<1>9. /\ t \in StateType /\ t.waiting_queue = wq /\ t.chunked_req = s.chunked_req
      /\ t.pending_chunked_abort = s.pending_chunked_abort /\ t.running_batch = b2
      /\ t.result_queue = q /\ t.req = g /\ t.fault = s.fault
  BY <1>2, <1>3, <1>4, <1>8 DEF StateType
<1> HIDE DEF t, s1
<1> QED
  BY <1>2, <1>5, <1>6, <1>7, <1>9 DEF wq, q, g, RequeuesTo

\* Retracted requests wait again, and their results under way are void.
LEMMA RequeuedOK ==
  ASSUME NEW s, NEW old, NEW ov \in BOOLEAN, Poised(s, old, ov),
         NEW R \in SUBSET s.running_batch.reqs,
         \A r \in s.running_batch.reqs : s.req[r].st = "live"
  PROVE  LET t == Requeued(s, R)
         IN  /\ Poised(t, old, ov) /\ t \in StateType
             /\ t.running_batch.reqs = s.running_batch.reqs \ R
             /\ \A r \in t.running_batch.reqs : t.req[r].st = "live"
             /\ t.req = Retract(s, R).req
<1> DEFINE t == Requeued(s, R)
           B == s.running_batch.reqs
           f == s.req
           g == Released(f, R)
           wq == s.waiting_queue
           o == RetractionOrder(s, R)
           p == s.result_queue
           q == [i \in DOMAIN p |-> Void(p[i], R)]
           lc == old.chunked_req
<1>1. /\ StageOK(s) /\ s \in StateType /\ s.fault = {} /\ s.chunked_req = NoReq
      /\ s.pending_chunked_abort = NoReq
      /\ QueueOK(wq, f) /\ ReqsOK(f)
      /\ old \in BatchType /\ LastOK(old)
      /\ \A r \in Reqs : f[r].st = "live" => r \in B
      /\ \A r \in old.reqs : f[r].st \in {"live", "done"} \/ f[r].is_retracted
      /\ lc # NoReq => f[lc].st = "done"
      /\ Len(p) = Len(Due(old, ov))
      /\ ov /\ old.mode # "none" =>
           /\ DOMAIN p[1] = old.reqs
           /\ \A r \in old.reqs :
                p[1][r].ran = Ran(old, r) /\ (p[1][r].stale => f[r].is_retracted)
      /\ \A r \in Reqs : f[r].inflight_middle_chunks = One(ov /\ r = lc)
      /\ \A r \in Reqs : Holds(f[r], One(ov /\ r \in old.reqs))
  BY DEF Poised, StageOK
<1>2. /\ f \in [Reqs -> ReqType] /\ B \in SUBSET Reqs /\ p \in Seq(ResultType)
      /\ wq \in Seq(Reqs) /\ R \in SUBSET Reqs /\ R \subseteq B
      /\ \A r \in B : f[r].st = "live"
  BY <1>1, StateFields
<1>3. o \in Seq(Reqs) /\ Distinct(o) /\ \A r \in Reqs : Listed(o, r) <=> r \in R
  BY <1>2, RetractionOrderFacts
<1>4. /\ wq \o o \in Seq(Reqs) /\ Distinct(wq \o o)
      /\ \A r \in Reqs : Listed(wq \o o, r) <=> Listed(wq, r) \/ Listed(o, r)
  <2> HIDE DEF wq, o, f
  <2>1. \A r \in Reqs : ~(Listed(wq, r) /\ Listed(o, r))
    BY <1>1, <1>2, <1>3 DEF QueueOK
  <2>2. Distinct(wq)
    BY <1>1 DEF QueueOK
  <2> QED
    BY <1>2, <1>3, <2>1, <2>2, ConcatFacts
<1>5. /\ t \in StateType /\ t.waiting_queue = wq \o o
      /\ t.chunked_req = s.chunked_req
      /\ t.pending_chunked_abort = s.pending_chunked_abort
      /\ t.running_batch.reqs = B \ R
      /\ t.result_queue = q /\ t.req = g /\ t.fault = s.fault
      /\ Retract(s, R).req = g
  <2>1. s \in StateType /\ s.waiting_queue \o RetractionOrder(s, R) \in Seq(Reqs)
    BY <1>1, <1>4
  <2>2. RequeuesTo(s, R, t) /\ Retract(s, R).req = g
    BY <2>1, RequeuedIs
  <2> HIDE DEF t
  <2> QED
    BY <2>2 DEF RequeuesTo
<1>6. ReleasesTo(f, R, g)
  <2> HIDE DEF f
  <2> QED
    BY <1>2, ReleasedFacts
<1>7. /\ q \in Seq(ResultType) /\ Len(q) = Len(p)
      /\ Len(p) > 0 => q[1] = Void(p[1], R) /\ p[1] \in ResultType
  <2> HIDE DEF p
  <2> QED
    BY <1>2, VoidQueueFacts
<1> HIDE DEF t, B, f, g, wq, o, p, q, lc
<1>8. /\ g \in [Reqs -> ReqType]
      /\ \A r \in Reqs :
           /\ r \in R => /\ g[r].st = "waiting" /\ g[r].is_retracted = TRUE /\ g[r].kv = 0
                         /\ g[r].len = f[r].len /\ g[r].max_new = f[r].max_new
                         /\ g[r].out = f[r].out /\ g[r].inflight_middle_chunks = 0
           /\ r \notin R => g[r] = f[r]
  BY <1>6 DEF ReleasesTo
<1>9. NoReq \notin Reqs /\ old.reqs \in SUBSET Reqs
  BY <1>1, NoReqFacts DEF BatchType
<1>10. StageOK(t)
  <2>1. QueueOK(wq \o o, g)
    BY <1>1, <1>3, <1>4, <1>8 DEF QueueOK
  <2>2. ReqsOK(g)
    <3>1. SUFFICES ASSUME NEW r \in Reqs PROVE ReqOK(g[r])
      BY DEF ReqsOK
    <3>2. ReqOK(f[r]) /\ g[r] \in ReqType /\ f[r] \in ReqType
      BY <1>1, <1>2, <1>8 DEF ReqsOK
    <3>3. CASE r \in R
      <4>1. f[r].st = "live"
        BY <1>2, <3>3
      <4> QED
        BY <1>8, <3>2, <3>3, <4>1 DEF ReqOK
    <3>4. CASE r \notin R
      BY <1>8, <3>2, <3>4
    <3> QED
      BY <3>3, <3>4
  <2>3. ChunkedOK(NoReq, g)
    BY DEF ChunkedOK
  <2> QED
    BY <1>1, <1>5, <2>1, <2>2, <2>3 DEF StageOK
<1>11. /\ \A r \in B \ R : g[r].st = "live"
       /\ \A r \in Reqs : g[r].st = "live" => r \in B \ R
  BY <1>1, <1>2, <1>8
<1>12. /\ \A r \in old.reqs : g[r].st \in {"live", "done"} \/ g[r].is_retracted
       /\ lc # NoReq => g[lc].st = "done"
  <2>1. ASSUME NEW r \in old.reqs
        PROVE  g[r].st \in {"live", "done"} \/ g[r].is_retracted
    BY <1>1, <1>8, <1>9
  <2>2. ASSUME lc # NoReq PROVE g[lc].st = "done"
    <3>1. lc \in Reqs
      BY <1>1, <2>2 DEF BatchType, lc
    <3>2. lc \notin R
      BY <1>1, <1>2, <2>2
    <3> QED
      BY <1>1, <1>8, <2>2, <3>1, <3>2
  <2> QED
    BY <2>1, <2>2
<1>13. ASSUME ov, old.mode # "none"
       PROVE  /\ DOMAIN q[1] = old.reqs
              /\ \A r \in old.reqs :
                   q[1][r].ran = Ran(old, r) /\ (q[1][r].stale => g[r].is_retracted)
  <2>1. Len(p) = 1
    BY <1>1, <1>13, DueFacts
  <2>2. q[1] = Void(p[1], R) /\ p[1] \in ResultType
    BY <1>7, <2>1
  <2>3. DOMAIN p[1] = old.reqs
    BY <1>1, <1>13
  <2>4. /\ DOMAIN q[1] = old.reqs
        /\ \A r \in old.reqs : q[1][r].ran = p[1][r].ran /\ (q[1][r].stale => r \in R \/ p[1][r].stale)
    BY <2>2, <2>3, VoidFacts
  <2>5. ASSUME NEW r \in old.reqs
        PROVE  q[1][r].ran = Ran(old, r) /\ (q[1][r].stale => g[r].is_retracted)
    <3>1. p[1][r].ran = Ran(old, r) /\ (p[1][r].stale => f[r].is_retracted)
      BY <1>1, <1>13
    <3>2. q[1][r].ran = p[1][r].ran /\ (q[1][r].stale => r \in R \/ p[1][r].stale)
      BY <2>4
    <3>3. r \in Reqs
      BY <1>9
    <3>4. CASE r \in R
      BY <1>8, <3>1, <3>2, <3>3, <3>4
    <3>5. CASE r \notin R
      <4>1. g[r] = f[r]
        BY <1>8, <3>3, <3>5
      <4> QED
        BY <3>1, <3>2, <3>5, <4>1
    <3> QED
      BY <3>4, <3>5
  <2> QED
    BY <2>4, <2>5
<1>14. ASSUME NEW r \in Reqs
       PROVE  /\ g[r].inflight_middle_chunks = One(ov /\ r = lc)
              /\ Holds(g[r], One(ov /\ r \in old.reqs))
  <2>1. CASE r \in R
    <3>1. r # lc
      BY <1>1, <1>2, <1>9, <2>1
    <3> QED
      BY <1>8, <2>1, <3>1 DEF One, Holds
  <2>2. CASE r \notin R
    BY <1>1, <1>8, <2>2
  <2> QED
    BY <2>1, <2>2
<1>15. Poised(t, old, ov)
  <2>1. /\ t.req = g /\ t.result_queue = q /\ t.running_batch.reqs = B \ R
        /\ t.chunked_req = NoReq /\ t.pending_chunked_abort = NoReq
    BY <1>1, <1>5
  <2>2. Len(q) = Len(Due(old, ov))
    BY <1>1, <1>7
  <2> QED
    BY <1>1, <1>10, <1>11, <1>12, <1>13, <1>14, <2>1, <2>2 DEF Poised, lc
<1> QED
  BY <1>5, <1>11, <1>15 DEF t, B

\* The last request of the batch always fits: its prompt and output are
\* below the size of the pool.
LEMMA LastFits ==
  ASSUME NEW s, NEW old, NEW ov \in BOOLEAN, Poised(s, old, ov),
         NEW x, s.running_batch.reqs = {x}
  PROVE  DecodeFits(s, {x})
<1> DEFINE f == s.req
           k == f[x].kv
           N == NeedsPage(s, {x})
<1>1. s \in StateType /\ ReqsOK(f) /\ x \in Reqs /\ f \in [Reqs -> ReqType]
  <2>1. s \in StateType /\ ReqsOK(f)
    BY DEF Poised, StageOK
  <2>2. s.running_batch.reqs \in SUBSET Reqs /\ f \in [Reqs -> ReqType]
    BY <2>1, StateFields
  <2> QED
    BY <2>1, <2>2
<1>2. \A r \in Reqs \ {x} : f[r].kv = 0
  <2>1. TAKE r \in Reqs \ {x}
  <2>2. f[r].st # "live"
    BY DEF Poised
  <2> QED
    BY <1>1, <2>2 DEF ReqsOK, ReqOK
<1>3. Available(s) = TokenCapacity - Held(f)
  BY <1>1, AvailableFacts
<1>4. Held(f) = CeilPaged(k)
  <2> HIDE DEF f
  <2> QED
    BY <1>1, <1>2, HeldBy
<1>5. k \in Nat /\ k < TokenCapacity /\ TokenCapacity \in Nat /\ PageSize \in Nat \ {0}
  <2>1. /\ f[x].len \in Nat /\ f[x].max_new \in Nat /\ f[x].out \in Nat /\ k \in Nat
        /\ FillLen(f[x]) = f[x].len + f[x].out
    BY <1>1, ReqLengths DEF FillLen
  <2>2. TokenCapacity \in Nat /\ PageSize \in Nat \ {0} /\ TokenCapacity > 0
    BY CapacityAssumption
  <2>3. CASE f[x].st = "live"
    <3>1. k = FillLen(f[x]) - 1 + One(ov /\ x \in old.reqs)
      BY <1>1, <2>3 DEF Poised, Holds
    <3>2. One(ov /\ x \in old.reqs) \in {0, 1}
      BY DEF One
    <3>3. f[x].out < f[x].max_new \/ f[x].out = 0
      BY <1>1, <2>3 DEF ReqsOK, ReqOK
    <3>4. f[x].len + f[x].max_new < TokenCapacity
      BY <1>1, <2>3 DEF ReqsOK, ReqOK
    <3> QED
      BY <2>1, <2>2, <3>1, <3>2, <3>3, <3>4
  <2>4. CASE f[x].st # "live"
    <3>1. k = 0
      BY <1>1, <2>4 DEF ReqsOK, ReqOK
    <3> QED
      BY <2>2, <3>1
  <2> QED
    BY <2>1, <2>2, <2>3, <2>4
<1>6. N = IF k % PageSize = 0 THEN {x} ELSE {}
  BY DEF NeedsPage
<1> HIDE DEF k, N, f
<1>7. CeilPaged(k) + (IF k % PageSize = 0 THEN PageSize ELSE 0) =< TokenCapacity
      /\ CeilPaged(k) \in Nat
  BY <1>5, CeilInPool, CeilPagedBounds
<1>8. Cardinality(N) * PageSize = IF k % PageSize = 0 THEN PageSize ELSE 0
  <2>1. Cardinality({x}) = 1 /\ Cardinality({}) = 0
    BY FS_Singleton, FS_EmptySet
  <2> QED
    BY <1>5, <1>6, <2>1
<1>9. Cardinality(N) * PageSize =< Available(s)
  BY <1>3, <1>4, <1>5, <1>7, <1>8
<1> QED
  BY <1>9 DEF DecodeFits, N

\* What a decode needs depends on the requests alone.
LEMMA SameFit ==
  ASSUME NEW s, NEW t, s.req = t.req, NEW B
  PROVE  DecodeFits(s, B) <=> DecodeFits(t, B)
  BY DEF DecodeFits, NeedsPage, Available

\* retract_decode never gets as far as aborting the last request.
LEMMA RetractDecodeOK ==
  ASSUME NEW s, NEW old, NEW ov \in BOOLEAN, Poised(s, old, ov),
         s.running_batch.reqs # {}, \A r \in s.running_batch.reqs : s.req[r].st = "live"
  PROVE  Posted(RetractDecode(s), old, ov)
<1> DEFINE B == s.running_batch.reqs
           m == Cardinality(B)
           ok(j) == \/ j = m - 1
                    \/ j > 0 /\ DecodeFits(Retract(s, Worst(s, B, j)), B \ Worst(s, B, j))
           K == {j \in 0..(m - 1) : ok(j)}
           k == Min(K)
           R == Worst(s, B, k)
           s1 == Requeued(s, R)
<1>1. s \in StateType /\ s.req \in [Reqs -> ReqType] /\ B \in SUBSET Reqs
  <2>1. s \in StateType
    BY DEF Poised, StageOK
  <2> QED
    BY <2>1, StateFields
<1>2. m \in Nat /\ m > 0
  <2>1. IsFiniteSet(B) /\ m \in Nat
    BY <1>1, RankFacts
  <2>2. m # 0
    BY <2>1, FS_EmptySet
  <2> QED
    BY <2>1, <2>2
<1>3. k \in K
  <2>1. m - 1 \in K
    BY <1>2
  <2>2. K \in SUBSET Nat
    BY <1>2
  <2> HIDE DEF K
  <2> QED
    BY <2>1, <2>2, LeastNatural
<1>4. k \in 0..(m - 1) /\ ok(k)
  BY <1>3
<1> HIDE DEF k
<1>5. /\ R \subseteq B /\ B \ R # {}
      /\ k = m - 1 => \E x \in B : B \ R = {x}
  BY <1>1, <1>4, WorstFacts
<1>6. RetractDecode(s) =
        IF DecodeFits(s1, B \ R) THEN LaunchDecode(s1)
        ELSE LET s2 == Retract(s1, {CHOOSE r \in B \ R : TRUE})
             IN  [Fail(s2, TRUE, "last request aborted") EXCEPT
                    !.req[CHOOSE r \in B \ R : TRUE] =
                       Finish(s2.req[CHOOSE r \in B \ R : TRUE]),
                    !.last_batch = NoBatch]
  BY DEF RetractDecode, Requeued, k
<1>7. /\ Poised(s1, old, ov) /\ s1.running_batch.reqs = B \ R
      /\ \A r \in s1.running_batch.reqs : s1.req[r].st = "live"
      /\ s1.req = Retract(s, R).req
  <2> HIDE DEF R
  <2> QED
    BY <1>5, RequeuedOK
<1>8. DecodeFits(s1, B \ R)
  <2>1. CASE k = m - 1
    <3>1. PICK x \in B : B \ R = {x}
      BY <1>5, <2>1
    <3>2. Poised(s1, old, ov) /\ s1.running_batch.reqs = {x}
      BY <1>7, <3>1
    <3> HIDE DEF s1, R, B
    <3>3. DecodeFits(s1, {x})
      BY <3>2, LastFits
    <3> QED
      BY <3>1, <3>3
  <2>2. CASE k # m - 1
    <3>1. DecodeFits(Retract(s, R), B \ R)
      BY <1>4, <2>2
    <3> HIDE DEF s1, R, B
    <3> QED
      BY <1>7, <3>1, SameFit
  <2> QED
    BY <2>1, <2>2
<1> HIDE DEF s1, R
<1>9. Posted(LaunchDecode(s1), old, ov)
  <2>1. s1.running_batch.reqs # {} /\ DecodeFits(s1, s1.running_batch.reqs)
    BY <1>5, <1>7, <1>8
  <2> QED
    BY <1>7, <2>1, LaunchDecodeOK
<1> QED
  BY <1>6, <1>8, <1>9

\* update_running_batch
LEMMA UpdateRunningBatchOK ==
  ASSUME NEW s, NEW old, NEW ov \in BOOLEAN, Poised(s, old, ov)
  PROVE  Posted(UpdateRunningBatch(s), old, ov)
<1> DEFINE rb == s.running_batch
           B == {r \in rb.reqs : ~Finished(s, r)}
           b1 == [rb EXCEPT !.reqs = B]
           s1 == [s EXCEPT !.running_batch = b1]
<1>1. s \in StateType /\ rb \in RunningType /\ rb.reqs \in SUBSET Reqs
  <2>1. s \in StateType
    BY DEF Poised, StageOK
  <2> QED
    BY <2>1, StateFields
<1>2. FilterBatch(s) = s1
  BY DEF FilterBatch
<1>3. b1 \in RunningType /\ b1.reqs = B /\ b1.batch_is_full \in BOOLEAN
  BY <1>1 DEF RunningType
<1>4. \A r \in rb.reqs : s.req[r].st = "live" => r \in B
  BY DEF Finished
<1>5. B \subseteq rb.reqs /\ \A r \in B : s.req[r].st = "live"
  BY DEF Poised, Finished
<1> HIDE DEF B, b1
<1>6. Poised(s1, old, ov) /\ s1.running_batch = b1 /\ s1.req = s.req /\ s1 \in StateType
  BY <1>3, <1>4, <1>5, PoisedRunning DEF rb
<1> HIDE DEF s1
<1>7. s1.running_batch.reqs = B
  BY <1>3, <1>6
<1>8. UpdateRunningBatch(s) =
        IF B = {} THEN [ResetIfEmpty(s1) EXCEPT !.last_batch = NoBatch]
        ELSE IF ~DecodeFits(s1, B) THEN RetractDecode(s1)
        ELSE LaunchDecode([s1 EXCEPT !.running_batch.batch_is_full = @ /\ B = rb.reqs])
  BY <1>2, <1>7 DEF UpdateRunningBatch
<1>9. CASE B = {}
  <2> DEFINE b2 == [b1 EXCEPT !.batch_is_full = FALSE]
             s2 == [s1 EXCEPT !.running_batch = b2]
  <2>1. ResetIfEmpty(s1) = s2
    BY <1>6, <1>7, <1>9 DEF ResetIfEmpty
  <2>2. b2 \in RunningType /\ b2.reqs = B /\ b2.batch_is_full = FALSE
    BY <1>3 DEF RunningType
  <2> HIDE DEF b2
  <2>3. Poised(s2, old, ov) /\ s2.running_batch = b2
    BY <1>6, <1>7, <2>2, PoisedRunning
  <2> HIDE DEF s2
  <2>4. Posted([s2 EXCEPT !.last_batch = NoBatch], old, ov)
    BY <2>2, <2>3, NothingOK
  <2> QED
    BY <1>8, <1>9, <2>1, <2>4
<1>10. CASE B # {} /\ ~DecodeFits(s1, B)
  <2>1. Posted(RetractDecode(s1), old, ov)
    BY <1>5, <1>6, <1>7, <1>10, RetractDecodeOK
  <2> QED
    BY <1>8, <1>10, <2>1
<1>11. CASE B # {} /\ DecodeFits(s1, B)
  <2> DEFINE b2 == [b1 EXCEPT !.batch_is_full = b1.batch_is_full /\ B = rb.reqs]
             s2 == [s1 EXCEPT !.running_batch = b2]
  <2>1. [s1 EXCEPT !.running_batch.batch_is_full = @ /\ B = rb.reqs] = s2
    BY <1>6
  <2>2. b2 \in RunningType /\ b2.reqs = B
    BY <1>3 DEF RunningType
  <2> HIDE DEF b2
  <2>3. Poised(s2, old, ov) /\ s2.running_batch = b2 /\ s2.req = s1.req
    BY <1>6, <1>7, <2>2, PoisedRunning
  <2> HIDE DEF s2
  <2>4. DecodeFits(s2, B)
    BY <1>11, <2>3, SameFit
  <2>5. s2.running_batch.reqs = B /\ \A r \in B : s2.req[r].st = "live"
    BY <1>5, <1>6, <2>2, <2>3
  <2>6. Posted(LaunchDecode(s2), old, ov)
    BY <1>11, <2>3, <2>4, <2>5, LaunchDecodeOK
  <2> QED
    BY <1>8, <1>11, <2>1, <2>6
<1> QED
  BY <1>9, <1>10, <1>11

\* With nothing running, all of the pool and every row is free.
LEMMA EmptyEngine ==
  ASSUME NEW s, NEW old, NEW ov \in BOOLEAN, Poised(s, old, ov),
         s.running_batch.reqs = {}
  PROVE  Available(s) = TokenCapacity /\ NumAllocatableReqs(s) > 0 /\ RunningOffset(s) = 0
<1>1. s \in StateType /\ s.req \in [Reqs -> ReqType] /\ ReqsOK(s.req)
  <2>1. s \in StateType /\ ReqsOK(s.req)
    BY DEF Poised, StageOK
  <2> QED
    BY <2>1, StateFields
<1>2. \A r \in Reqs : s.req[r].kv = 0
  <2>1. \A r \in Reqs : s.req[r].st # "live"
    BY DEF Poised
  <2> QED
    BY <1>1, <2>1 DEF ReqsOK, ReqOK
<1>3. Available(s) = TokenCapacity
  <2>1. Held(s.req) = 0
    BY <1>1, <1>2, HeldBy
  <2>2. Available(s) = TokenCapacity - Held(s.req) /\ TokenCapacity \in Nat
    BY <1>1, AvailableFacts, CapacityAssumption
  <2> QED
    BY <2>1, <2>2
<1>4. NumAllocatableReqs(s) > 0
  <2>1. {r \in Reqs : s.req[r].kv > 0} = {}
    BY <1>2
  <2>2. Cardinality({}) = 0
    BY FS_EmptySet
  <2>3. NumAllocatableReqs(s) = Least(MaxRunning - 0, MaxRunning - 0)
    BY <2>1, <2>2 DEF NumAllocatableReqs
  <2> QED
    BY <2>3, LoopAssumption DEF Least
<1>5. RunningOffset(s) = 0
  BY SumEmpty DEF RunningOffset
<1> QED
  BY <1>3, <1>4, <1>5

\* What an accepted request asks for fits in an empty pool.
LEMMA WaitingFits ==
  ASSUME NEW q \in ReqType, ReqOK(q), q.st \in {"waiting", "live"}
  PROVE  /\ FillLen(q) + Greatest(q.max_new - q.out, 0) =< q.len + q.max_new
         /\ Roomy => FillLen(q) + Greatest(q.max_new - q.out, 0) + PageSize < TokenCapacity
         /\ FillLen(q) + Greatest(q.max_new - q.out, 0) \in Nat
<1>1. /\ q.len \in Nat /\ q.max_new \in Nat /\ q.out \in Nat
      /\ q.out < q.max_new \/ q.out = 0
      /\ Roomy => q.len + q.max_new + PageSize < TokenCapacity
      /\ PageSize \in Nat /\ TokenCapacity \in Nat
  BY CapacityAssumption DEF ReqType, ReqOK
<1>2. FillLen(q) = q.len + q.out
  BY DEF FillLen
<1> DEFINE x == q.len
           y == q.max_new
           z == q.out
<1>3. FillLen(q) + Greatest(y - z, 0) =< x + y /\ FillLen(q) + Greatest(y - z, 0) \in Nat
  BY <1>1, <1>2 DEF Greatest
<1> QED
  BY <1>1, <1>3

\* get_next_batch_to_run
LEMMA NextBatchOK ==
  ASSUME NEW s, NEW ov \in BOOLEAN, Ready(s, ov), NEW offset \in 0..RunningOffset(s),
         RunningOffset(s) \in Nat
  PROVE  Posted(NextBatch(s, offset), s.last_batch, ov)
<1> DEFINE c == s.chunked_req
           rb == s.running_batch
           wq == s.waiting_queue
           old == s.last_batch
           a == Walked(s, offset)
           s1(f) == [s EXCEPT !.running_batch.batch_is_full = f]
           nothing(f) ==
             IF rb.reqs # {} /\ ~rb.is_prefill_only THEN UpdateRunningBatch(s1(f))
             ELSE [s1(f) EXCEPT !.last_batch = NoBatch]
<1>1. /\ StageOK(s) /\ s \in StateType /\ ReqsOK(s.req) /\ QueueOK(wq, s.req)
      /\ Roomy /\ rb.batch_is_full => rb.reqs # {}
  BY ReadyFacts
<1>2. /\ wq \in Seq(Reqs) /\ rb \in RunningType /\ rb.batch_is_full \in BOOLEAN
      /\ s.req \in [Reqs -> ReqType] /\ offset \in Nat
  BY <1>1, StateFields DEF RunningType
<1>3. AdderOK(s, a, Len(wq)) /\ (HeadFits(s, offset) => DOMAIN a.run # {})
  BY <1>1, <1>2, WalkedOK
<1>4. a \in AdderType /\ (c # NoReq => c \in DOMAIN a.run) /\ a.full \in BOOLEAN
  BY <1>3 DEF AdderOK, AdderType
<1>5. NextBatch(s, offset) =
        IF c = NoReq /\ (rb.batch_is_full \/ wq = <<>>) THEN nothing(rb.batch_is_full)
        ELSE IF c = NoReq /\ NumAllocatableReqs(s) =< 0 THEN nothing(TRUE)
        ELSE IF DOMAIN a.run = {} THEN nothing(a.full)
        ELSE LaunchPrefill(s, a)
  BY DEF NextBatch, Walked
<1>6. ASSUME c = NoReq, NEW f \in BOOLEAN, Roomy /\ f => rb.reqs # {}
      PROVE  Posted(nothing(f), old, ov)
  <2> DEFINE b == [rb EXCEPT !.batch_is_full = f]
             t == [s EXCEPT !.running_batch = b]
  <2>1. Poised(s, old, ov)
    BY <1>6, ReadyPoised
  <2>2. b \in RunningType /\ b.reqs = rb.reqs /\ b.batch_is_full = f
    BY <1>2, <1>6 DEF RunningType
  <2>3. s1(f) = t
    OBVIOUS
  <2> HIDE DEF b
  <2>4. Poised(t, old, ov) /\ t.running_batch = b
    BY <2>1, <2>2, PoisedRunning
  <2> HIDE DEF t
  <2>5. Posted(UpdateRunningBatch(t), old, ov)
    BY <2>4, UpdateRunningBatchOK
  <2>6. Posted([t EXCEPT !.last_batch = NoBatch], old, ov)
    BY <1>6, <2>2, <2>4, NothingOK
  <2> HIDE DEF s1
  <2> QED
    BY <2>3, <2>5, <2>6
<1> HIDE DEF nothing, a
<1>7. CASE c = NoReq /\ (rb.batch_is_full \/ wq = <<>>)
  BY <1>1, <1>2, <1>5, <1>6, <1>7
<1>8. CASE ~(c = NoReq /\ (rb.batch_is_full \/ wq = <<>>))
           /\ c = NoReq /\ NumAllocatableReqs(s) =< 0
  <2>1. rb.reqs # {}
    <3>1. SUFFICES ASSUME rb.reqs = {} PROVE FALSE
      OBVIOUS
    <3>2. Poised(s, old, ov)
      BY <1>8, ReadyPoised
    <3>3. NumAllocatableReqs(s) > 0
      BY <3>1, <3>2, EmptyEngine
    <3>4. NumAllocatableReqs(s) \in Int
      <4>1. IsFiniteSet(Reqs) /\ rb.reqs \in SUBSET Reqs
        BY <1>1, LoopAssumption, StateFields
      <4>2. /\ Cardinality(rb.reqs) \in Nat
            /\ Cardinality({r \in Reqs : s.req[r].kv > 0}) \in Nat
        BY <4>1, FS_Subset, FS_CardinalityType
      <4> QED
        BY <4>2, LoopAssumption DEF NumAllocatableReqs, Least
    <3> QED
      BY <1>8, <3>3, <3>4
  <2>2. Posted(nothing(TRUE), old, ov)
    BY <1>6, <1>8, <2>1
  <2> QED
    BY <1>5, <1>8, <2>2
<1>9. CASE /\ ~(c = NoReq /\ (rb.batch_is_full \/ wq = <<>>))
           /\ ~(c = NoReq /\ NumAllocatableReqs(s) =< 0) /\ DOMAIN a.run = {}
  <2>1. c = NoReq
    BY <1>4, <1>9
  <2>2. ASSUME Roomy, rb.reqs = {} PROVE FALSE
    <3>1. Poised(s, old, ov)
      BY <2>1, ReadyPoised
    <3>2. /\ Available(s) = TokenCapacity /\ NumAllocatableReqs(s) > 0
          /\ RunningOffset(s) = 0
      BY <2>2, <3>1, EmptyEngine
    <3>3. offset = 0
      BY <3>2
    <3>4. ~rb.batch_is_full /\ wq # <<>> /\ Len(wq) > 0
      BY <1>2, <1>9, <2>1
    <3> DEFINE x == wq[1]
               q == s.req[x]
    <3>5. x \in Reqs /\ 1 \in DOMAIN wq
      BY <1>2, <3>4
    <3>6. q.st = "waiting"
      BY <1>1, <3>5 DEF QueueOK, Listed
    <3>7. q \in ReqType /\ ReqOK(q)
      BY <1>1, <1>2, <3>5 DEF ReqsOK
    <3> HIDE DEF q
    <3>8. /\ FillLen(q) + Greatest(q.max_new - q.out, 0) + PageSize < TokenCapacity
          /\ FillLen(q) + Greatest(q.max_new - q.out, 0) \in Nat
      BY <2>2, <3>6, <3>7, WaitingFits
    <3>9. FillLen(q) + Greatest(q.max_new - q.out, 0) + PageSize < Available(s) - offset
      <4>1. TokenCapacity - 0 = TokenCapacity
        BY CapacityAssumption
      <4> QED
        BY <3>2, <3>3, <3>8, <4>1
    <3>10. HeadFits(s, offset)
      BY <2>1, <3>2, <3>4, <3>9 DEF HeadFits, q
    <3> QED
      BY <1>3, <1>9, <3>10
  <2>3. Posted(nothing(a.full), old, ov)
    BY <1>4, <1>6, <2>1, <2>2
  <2> QED
    BY <1>5, <1>9, <2>3
<1>10. CASE /\ ~(c = NoReq /\ (rb.batch_is_full \/ wq = <<>>))
            /\ ~(c = NoReq /\ NumAllocatableReqs(s) =< 0) /\ DOMAIN a.run # {}
  <2>1. Posted(LaunchPrefill(s, a), old, ov)
    BY <1>3, <1>10, LaunchPrefillOK
  <2> QED
    BY <1>5, <1>10, <2>1
<1> QED
  BY <1>7, <1>8, <1>9, <1>10

-----------------------------------------------------------------------------
(* Results *)

\* A token is added; the request goes on only below its limit.
LEMMA CommitFacts ==
  ASSUME NEW q \in ReqType, NEW x, NEW stops
  PROVE  LET e == Commit(q, x \in stops)
         IN  /\ e \in ReqType /\ e.len = q.len /\ e.max_new = q.max_new /\ e.out = q.out + 1
             /\ e.inflight_middle_chunks = q.inflight_middle_chunks
             /\ e.is_retracted = q.is_retracted
             /\ \/ e.st = "done" /\ e.kv = 0
                \/ e.st = q.st /\ e.kv = q.kv /\ e.out < e.max_new
<1> DEFINE o == q.out + 1
           q1 == [q EXCEPT !.out = o]
           done == q1.to_finish \/ x \in stops \/ q1.out >= q1.max_new
           e == Commit(q, x \in stops)
<1>1. o \in Nat
  BY DEF ReqType
<1> HIDE DEF o
<1>2. /\ q1 \in ReqType /\ q1.out = o /\ q1.len = q.len /\ q1.max_new = q.max_new
      /\ q1.inflight_middle_chunks = q.inflight_middle_chunks
      /\ q1.is_retracted = q.is_retracted /\ q1.st = q.st /\ q1.kv = q.kv
      /\ q1.max_new \in Nat
  BY <1>1 DEF ReqType
<1>3. e = IF done THEN Finish(q1) ELSE q1
  BY DEF Commit, o
<1> HIDE DEF q1, e
<1>4. CASE done
  <2>1. e = Finish(q1)
    BY <1>3, <1>4
  <2>2. /\ Finish(q1) \in ReqType /\ Finish(q1).st = "done" /\ Finish(q1).kv = 0
        /\ Finish(q1).inflight_middle_chunks = q1.inflight_middle_chunks
        /\ Finish(q1).is_retracted = q1.is_retracted
        /\ Finish(q1).out = q1.out /\ Finish(q1).len = q1.len
        /\ Finish(q1).max_new = q1.max_new
    BY <1>2 DEF Finish, ReqType
  <2> QED
    BY <1>2, <2>1, <2>2 DEF e, o
<1>5. CASE ~done
  <2>1. e = q1 /\ ~(q1.out >= q1.max_new)
    BY <1>3, <1>5
  <2> QED
    BY <1>1, <1>2, <2>1 DEF e, o
<1> QED
  BY <1>4, <1>5

\* The result of a middle chunk only counts down.
LEMMA FinishMiddleChunkFacts ==
  ASSUME NEW q \in ReqType, q.inflight_middle_chunks > 0
  PROVE  LET e == FinishMiddleChunk(q)
         IN  /\ e \in ReqType /\ e.len = q.len /\ e.max_new = q.max_new /\ e.out = q.out
             /\ e.inflight_middle_chunks = q.inflight_middle_chunks - 1
             /\ e.is_retracted = q.is_retracted /\ e.st = q.st /\ e.kv = q.kv
<1> DEFINE k == q.inflight_middle_chunks - 1
           e == [q EXCEPT !.inflight_middle_chunks = k]
<1>1. k \in Nat
  BY DEF ReqType
<1>2. FinishMiddleChunk(q) = e
  BY DEF FinishMiddleChunk
<1> HIDE DEF k
<1>3. /\ e \in ReqType /\ e.len = q.len /\ e.max_new = q.max_new /\ e.out = q.out
      /\ e.inflight_middle_chunks = k
      /\ e.is_retracted = q.is_retracted /\ e.st = q.st /\ e.kv = q.kv
  BY <1>1 DEF ReqType
<1> QED
  BY <1>2, <1>3 DEF k

\* Request q had its result: n middle chunks and h tokens are still out.
Applied(q, q1, mid, n, h) ==
  /\ q1 \in ReqType /\ ReqOK(q1)
  /\ q1.inflight_middle_chunks = n /\ q1.is_retracted = q.is_retracted
  /\ q1.st = q.st \/ (q.st = "live" /\ q1.st = "done")
  /\ q1.kv = q.kv \/ q1.kv = 0
  /\ mid = 1 => q1.st = q.st /\ q1.kv = q.kv /\ q1.len = q.len /\ q1.out = q.out
  /\ mid = 0 => Holds(q1, h)

\* The result of a middle chunk counts down, any other adds a token, unless
\* the request has ended or was retracted.  mid is 1 for the middle chunk.
LEMMA ProcessOneOK ==
  ASSUME NEW q \in ReqType, ReqOK(q), NEW e \in Entries, NEW x, NEW stops,
         NEW mid \in {0, 1}, NEW n \in {0, 1}, NEW h \in {0, 1},
         q.inflight_middle_chunks = mid + n, n = 1 => mid = 1 /\ q.st = "live",
         mid = 1 <=> e.ran = "middle",
         q.st \in {"live", "done"} \/ q.is_retracted,
         e.stale => q.is_retracted, mid = 1 => ~q.is_retracted,
         mid = 0 => Holds(q, 1 + h)
  PROVE  LET q1 == ProcessOne(q, e, x \in stops)
         IN  Applied(q, q1, mid, n, h) /\ Misapplied(q, q1, e) = {}
<1> DEFINE q1 == ProcessOne(q, e, x \in stops)
           middle == q.inflight_middle_chunks > 0
<1>1. /\ q.inflight_middle_chunks \in Nat /\ q.kv \in Nat /\ q.out \in Nat /\ q.len \in Nat
      /\ e.ran \in {"extend", "middle", "decode"}
  BY DEF ReqType, Entries
<1>2. middle <=> mid = 1
  BY <1>1
<1>3. q1 = IF q.is_retracted \/ (q.st = "done" /\ (e.ran = "decode" \/ ~middle)) THEN q
           ELSE IF e.ran # "decode" /\ middle THEN FinishMiddleChunk(q)
           ELSE Commit(q, x \in stops)
  BY DEF ProcessOne
<1> HIDE DEF q1
<1>4. CASE mid = 1
  <2>1. e.ran = "middle" /\ ~q.is_retracted /\ middle
    BY <1>2, <1>4
  <2>2. q1 = FinishMiddleChunk(q)
    BY <1>3, <2>1
  <2> DEFINE d == FinishMiddleChunk(q)
  <2>3. /\ d \in ReqType /\ d.len = q.len /\ d.max_new = q.max_new /\ d.out = q.out
        /\ d.inflight_middle_chunks = q.inflight_middle_chunks - 1
        /\ d.is_retracted = q.is_retracted /\ d.st = q.st /\ d.kv = q.kv
    BY <2>1, FinishMiddleChunkFacts
  <2> HIDE DEF d
  <2>4. d.inflight_middle_chunks = n
    BY <1>4, <2>3
  <2>5. ReqOK(d)
    <3>1. q.st # "idle"
      BY <2>1
    <3> QED
      BY <2>3, <3>1 DEF ReqOK
  <2>6. Misapplied(q, d, e) = {}
    BY <2>1, <2>3 DEF Misapplied
  <2>7. Applied(q, d, mid, n, h)
    BY <1>4, <2>3, <2>4, <2>5 DEF Applied
  <2> QED
    BY <2>2, <2>6, <2>7 DEF d, q1
<1>5. CASE mid = 0
  <2>1. e.ran # "middle" /\ ~middle /\ n = 0 /\ q.inflight_middle_chunks = 0
    BY <1>1, <1>2, <1>5
  <2>2. CASE q.is_retracted \/ q.st = "done"
    <3>1. q1 = q
      BY <1>3, <2>1, <2>2
    <3>2. q.st # "live"
      BY <2>2 DEF ReqOK
    <3>3. Applied(q, q, mid, n, h)
      BY <1>5, <2>1, <3>2 DEF Applied, Holds
    <3>4. Misapplied(q, q, e) = {}
      BY DEF Misapplied
    <3> QED
      BY <3>1, <3>3, <3>4 DEF q1
  <2>3. CASE ~q.is_retracted /\ q.st # "done"
    <3>1. q1 = Commit(q, x \in stops) /\ q.st = "live"
      BY <1>3, <2>1, <2>3
    <3> DEFINE d == Commit(q, x \in stops)
    <3>2. /\ d \in ReqType /\ d.len = q.len /\ d.max_new = q.max_new /\ d.out = q.out + 1
          /\ d.inflight_middle_chunks = q.inflight_middle_chunks
          /\ d.is_retracted = q.is_retracted
          /\ \/ d.st = "done" /\ d.kv = 0
             \/ d.st = q.st /\ d.kv = q.kv /\ d.out < d.max_new
      BY CommitFacts
    <3> HIDE DEF d
    <3>3. ReqOK(d)
      BY <2>3, <3>1, <3>2 DEF ReqOK
    <3>4. Holds(d, h)
      <4>1. SUFFICES ASSUME d.st = "live" PROVE d.kv = FillLen(d) - 1 + h
        BY DEF Holds
      <4>2. d.kv = q.kv
        BY <3>2, <4>1
      <4>3. q.kv = FillLen(q) - 1 + (1 + h)
        BY <1>5, <3>1 DEF Holds
      <4> QED
        BY <1>1, <3>2, <4>2, <4>3 DEF FillLen
    <3>5. Misapplied(q, d, e) = {}
      BY <2>1, <2>3, <3>2 DEF Misapplied
    <3>6. Applied(q, d, mid, n, h)
      BY <1>5, <2>1, <3>1, <3>2, <3>3, <3>4 DEF Applied
    <3> QED
      BY <3>1, <3>5, <3>6 DEF d, q1
  <2> QED
    BY <2>2, <2>3
<1> QED
  BY <1>4, <1>5

\* The result at the head of the queue is that of batch b; when it is
\* processed, n middle chunks and h tokens of each request are still out.
Pending(s, b, n, h) ==
  LET c     == s.chunked_req
      lc    == b.chunked_req
      batch == Head(s.result_queue)
  IN  /\ StageOK(s) /\ BatchOK(s) /\ FlagOK(s) /\ s.pending_chunked_abort = NoReq
      /\ s.result_queue # <<>>
      /\ b \in BatchType /\ LastOK(b) /\ (c \in b.reqs => c = lc)
      /\ DOMAIN batch = b.reqs
      /\ \A r \in b.reqs :
           /\ s.req[r].st \in {"live", "done"} \/ s.req[r].is_retracted
           /\ batch[r].ran = Ran(b, r) /\ (batch[r].stale => s.req[r].is_retracted)
      /\ lc # NoReq => ~s.req[lc].is_retracted
      /\ \A r \in Reqs : /\ n[r] \in {0, 1} /\ h[r] \in {0, 1}
                         /\ n[r] = 1 => r = c
                         /\ s.req[r].inflight_middle_chunks = One(r = lc) + n[r]
      /\ \A r \in Reqs \ {c} : Holds(s.req[r], One(r \in b.reqs /\ r # lc) + h[r])

\* Everything but the requests and the result queue is as it was.
Processed(s, t, n, h) ==
  /\ StageOK(t) /\ BatchOK(t) /\ FlagOK(t) /\ t.pending_chunked_abort = NoReq
  /\ t.chunked_req = s.chunked_req /\ t.last_batch = s.last_batch
  /\ t.result_queue = Tail(s.result_queue)
  /\ \A r \in Reqs : t.req[r].inflight_middle_chunks = n[r]
  /\ \A r \in Reqs \ {s.chunked_req} : Holds(t.req[r], h[r])

\* process_batch_result applies each result of the batch to its request.
LEMMA ProcessBatchOK ==
  ASSUME NEW s, NEW b, NEW n, NEW h, Pending(s, b, n, h), NEW stops
  PROVE  Processed(s, ProcessBatchResult(s, stops), n, h)
<1> DEFINE c == s.chunked_req
           lc == b.chunked_req
           f == s.req
           batch == Head(s.result_queue)
           then(r) == ProcessOne(f[r], batch[r], r \in stops)
           g == [r \in Reqs |-> IF r \in DOMAIN batch THEN then(r) ELSE f[r]]
           bad == UNION {Misapplied(f[r], then(r), batch[r]) : r \in DOMAIN batch}
           tl == Tail(s.result_queue)
           t == [s EXCEPT !.req = g, !.fault = s.fault \cup bad, !.result_queue = tl]
<1>1. /\ StageOK(s) /\ s \in StateType /\ s.fault = {} /\ BatchOK(s) /\ FlagOK(s)
      /\ s.pending_chunked_abort = NoReq
      /\ QueueOK(s.waiting_queue, f) /\ ChunkedOK(c, f) /\ ReqsOK(f)
      /\ s.result_queue # <<>>
      /\ b \in BatchType /\ LastOK(b) /\ (c \in b.reqs => c = lc) /\ b.reqs \in SUBSET Reqs
      /\ DOMAIN batch = b.reqs
      /\ \A r \in b.reqs :
           /\ f[r].st \in {"live", "done"} \/ f[r].is_retracted
           /\ batch[r].ran = Ran(b, r) /\ (batch[r].stale => f[r].is_retracted)
      /\ lc # NoReq => ~f[lc].is_retracted
      /\ \A r \in Reqs : /\ n[r] \in {0, 1} /\ h[r] \in {0, 1}
                         /\ n[r] = 1 => r = c
                         /\ f[r].inflight_middle_chunks = One(r = lc) + n[r]
      /\ \A r \in Reqs \ {c} : Holds(f[r], One(r \in b.reqs /\ r # lc) + h[r])
  BY DEF Pending, StageOK, BatchType
<1>2. /\ f \in [Reqs -> ReqType] /\ s.result_queue \in Seq(ResultType)
      /\ c \in Reqs \cup {NoReq} /\ lc \in Reqs \cup {NoReq}
  BY <1>1, StateFields DEF BatchType
<1>3. batch \in ResultType /\ tl \in Seq(ResultType)
  BY <1>1, <1>2
<1>4. ProcessBatchResult(s, stops) = t
  BY DEF ProcessBatchResult
<1>5. NoReq \notin Reqs
  BY NoReqFacts
<1>6. LastOK(b) /\ (lc # NoReq => b.mode = "extend" /\ lc \in b.reqs)
  BY <1>1 DEF LastOK
<1> HIDE DEF c, lc, f, batch, tl
<1>7. ASSUME NEW r \in b.reqs
      PROVE  /\ Applied(f[r], then(r), One(r = lc), n[r], h[r])
             /\ Misapplied(f[r], then(r), batch[r]) = {}
  <2> DEFINE q == f[r]
             e == batch[r]
             mid == One(r = lc)
             k == n[r]
             m == h[r]
  <2>1. r \in Reqs /\ q \in ReqType /\ ReqOK(q) /\ mid \in {0, 1} /\ k \in {0, 1} /\ m \in {0, 1}
    BY <1>1, <1>2 DEF ReqsOK, One
  <2>2. e \in Entries
    BY <1>1, <1>3 DEF ResultType
  <2>3. q.inflight_middle_chunks = mid + k
    BY <1>1, <2>1
  <2>4. k = 1 => mid = 1 /\ q.st = "live"
    <3>1. SUFFICES ASSUME k = 1 PROVE mid = 1 /\ q.st = "live"
      OBVIOUS
    <3>2. r = c
      BY <1>1, <2>1, <3>1
    <3>3. r = lc
      BY <1>1, <3>2
    <3>4. q.st = "live"
      BY <1>1, <1>5, <2>1, <3>2 DEF ChunkedOK
    <3> QED
      BY <3>3, <3>4 DEF One
  <2>5. mid = 1 <=> e.ran = "middle"
    <3>1. e.ran = Ran(b, r)
      BY <1>1
    <3>2. CASE r = lc
      BY <1>5, <1>6, <2>1, <3>1, <3>2 DEF Ran, One, lc
    <3>3. CASE r # lc
      BY <3>1, <3>3 DEF Ran, One, lc
    <3> QED
      BY <3>2, <3>3
  <2>6. q.st \in {"live", "done"} \/ q.is_retracted
    BY <1>1
  <2>7. e.stale => q.is_retracted
    BY <1>1
  <2>8. mid = 1 => ~q.is_retracted
    BY <1>1, <1>5, <2>1 DEF One
  <2>9. mid = 0 => Holds(q, 1 + m)
    <3>1. SUFFICES ASSUME mid = 0 PROVE Holds(q, 1 + m)
      OBVIOUS
    <3>2. r # lc /\ r # c
      BY <1>1, <3>1 DEF One
    <3>3. Holds(q, One(r \in b.reqs /\ r # lc) + m)
      BY <1>1, <2>1, <3>2
    <3>4. One(r \in b.reqs /\ r # lc) = 1
      BY <3>2 DEF One
    <3> QED
      BY <3>3, <3>4
  <2> HIDE DEF q, e, mid, k, m
  <2>10. LET q1 == ProcessOne(q, e, r \in stops)
         IN  Applied(q, q1, mid, k, m) /\ Misapplied(q, q1, e) = {}
    BY <2>1, <2>2, <2>3, <2>4, <2>5, <2>6, <2>7, <2>8, <2>9, ProcessOneOK
  <2> QED
    BY <2>10 DEF q, e, mid, k, m
<1>8. bad = {}
  <2>1. \A r \in DOMAIN batch : Misapplied(f[r], then(r), batch[r]) = {}
    BY <1>1, <1>7
  <2> HIDE DEF then
  <2> QED
    BY <2>1
<1> HIDE DEF bad, then
<1>9. \A r \in Reqs : g[r] = IF r \in b.reqs THEN then(r) ELSE f[r]
  BY <1>1
<1>10. ASSUME NEW r \in Reqs
       PROVE  /\ g[r] \in ReqType /\ ReqOK(g[r])
              /\ g[r].inflight_middle_chunks = n[r] /\ g[r].is_retracted = f[r].is_retracted
              /\ g[r].st = f[r].st \/ (f[r].st = "live" /\ g[r].st = "done")
              /\ g[r].kv = f[r].kv \/ g[r].kv = 0
              /\ r = c => /\ g[r].st = f[r].st /\ g[r].kv = f[r].kv /\ g[r].len = f[r].len
                          /\ g[r].out = f[r].out
              /\ r # c => Holds(g[r], h[r])
  <2>1. f[r] \in ReqType /\ ReqOK(f[r]) /\ n[r] \in {0, 1} /\ h[r] \in {0, 1}
    BY <1>1, <1>2 DEF ReqsOK
  <2>2. CASE r \in b.reqs
    <3> DEFINE d == then(r)
               mid == One(r = lc)
    <3>1. g[r] = d
      BY <1>9, <2>2
    <3>2. Applied(f[r], d, mid, n[r], h[r])
      BY <1>7, <2>2
    <3>3. r = c => mid = 1
      BY <1>1, <2>2 DEF One
    <3>4. mid = 1 => r = lc
      BY DEF One
    <3>5. mid \in {0, 1}
      BY DEF One
    <3> HIDE DEF d, mid
    <3>6. /\ d \in ReqType /\ ReqOK(d)
          /\ d.inflight_middle_chunks = n[r] /\ d.is_retracted = f[r].is_retracted
          /\ d.st = f[r].st \/ (f[r].st = "live" /\ d.st = "done")
          /\ d.kv = f[r].kv \/ d.kv = 0
          /\ mid = 1 => d.st = f[r].st /\ d.kv = f[r].kv /\ d.len = f[r].len /\ d.out = f[r].out
          /\ mid = 0 => Holds(d, h[r])
      BY <3>2 DEF Applied
    <3>7. ASSUME r # c PROVE Holds(d, h[r])
      <4>1. CASE mid = 0
        BY <3>6, <4>1
      <4>2. CASE mid = 1
        <5>1. r = lc
          BY <3>4, <4>2
        <5>2. Holds(f[r], One(r \in b.reqs /\ r # lc) + h[r])
          BY <1>1, <3>7
        <5>3. One(r \in b.reqs /\ r # lc) + h[r] = h[r]
          BY <2>1, <5>1 DEF One
        <5> QED
          BY <3>6, <4>2, <5>2, <5>3 DEF Holds, FillLen
      <4> QED
        BY <3>5, <4>1, <4>2
    <3> QED
      BY <3>1, <3>3, <3>6, <3>7
  <2>3. CASE r \notin b.reqs
    <3>1. g[r] = f[r]
      BY <1>9, <2>3
    <3>2. r # lc
      BY <1>5, <1>6, <2>3
    <3>3. f[r].inflight_middle_chunks = n[r]
      BY <1>1, <2>1, <3>2 DEF One
    <3>4. ASSUME r # c PROVE Holds(f[r], h[r])
      <4>1. Holds(f[r], One(r \in b.reqs /\ r # lc) + h[r])
        BY <1>1, <3>4
      <4>2. One(r \in b.reqs /\ r # lc) + h[r] = h[r]
        BY <2>1, <2>3 DEF One
      <4> QED
        BY <4>1, <4>2
    <3> QED
      BY <2>1, <3>1, <3>3, <3>4
  <2> QED
    BY <2>2, <2>3
<1>11. g \in [Reqs -> ReqType]
  BY <1>10
<1> HIDE DEF g
<1>12. /\ t \in StateType /\ t.req = g /\ t.fault = {} /\ t.result_queue = tl
       /\ t.waiting_queue = s.waiting_queue /\ t.chunked_req = s.chunked_req
       /\ t.pending_chunked_abort = s.pending_chunked_abort
       /\ t.running_batch = s.running_batch /\ t.last_batch = s.last_batch
  BY <1>1, <1>3, <1>8, <1>11 DEF StateType
<1> HIDE DEF t
<1>13. StageOK(t)
  <2>1. QueueOK(s.waiting_queue, g)
    <3>1. \A r \in Reqs : g[r].st = "waiting" <=> f[r].st = "waiting"
      BY <1>10
    <3> QED
      BY <1>1, <3>1 DEF QueueOK
  <2>2. ChunkedOK(c, g)
    <3>1. SUFFICES ASSUME c # NoReq PROVE ChunkedOK(c, g)
      BY DEF ChunkedOK
    <3>2. c \in Reqs
      BY <1>2, <3>1
    <3>3. g[c].st = f[c].st /\ g[c].kv = f[c].kv /\ FillLen(g[c]) = FillLen(f[c])
      BY <1>10, <3>2 DEF FillLen
    <3>4. \A r \in Reqs : g[r].kv = f[r].kv \/ g[r].kv = 0
      BY <1>10
    <3>5. Held(g) =< Held(f)
      BY <1>2, <1>11, <3>4, HeldShrinks
    <3>6. Held(g) \in Nat /\ Held(f) \in Nat /\ TokenCapacity \in Nat
      BY <1>2, <1>11, HeldFacts, CapacityAssumption
    <3>7. /\ f[c].st = "live" /\ 0 < f[c].kv /\ f[c].kv < FillLen(f[c])
          /\ CeilPaged(FillLen(f[c])) - CeilPaged(f[c].kv) =< TokenCapacity - Held(f)
      BY <1>1, <3>1 DEF ChunkedOK, Held
    <3>8. CeilPaged(FillLen(f[c])) \in Nat /\ CeilPaged(f[c].kv) \in Nat
      BY <1>2, <3>2, ReqLengths, CeilPagedBounds
    <3>9. CeilPaged(FillLen(g[c])) - CeilPaged(g[c].kv) =< TokenCapacity - Held(g)
      BY <3>3, <3>5, <3>6, <3>7, <3>8
    <3> QED
      BY <3>3, <3>7, <3>9 DEF ChunkedOK, Held
  <2>3. ReqsOK(g)
    BY <1>10 DEF ReqsOK
  <2> QED
    BY <1>12, <2>1, <2>2, <2>3 DEF StageOK, c
<1>14. BatchOK(t)
  <2>1. \A r \in Reqs : /\ f[r].st \in {"live", "done"} => g[r].st \in {"live", "done"}
                        /\ g[r].st = "live" => f[r].st = "live"
    BY <1>10
  <2>2. s.running_batch.reqs \in SUBSET Reqs /\ s.last_batch.reqs \in SUBSET Reqs
    BY <1>1, StateFields
  <2> DEFINE last == s.last_batch
             run == s.running_batch.reqs
  <2>3. /\ LastOK(last) /\ last.chunked_req = c
        /\ InBatch(f, run) /\ InBatch(f, last.reqs)
        /\ c # NoReq => c \notin run
        /\ last.mode = "extend" => last.reqs \cap run = {}
        /\ last.mode = "decode" => last.reqs = run
        /\ \A r \in Reqs : f[r].st = "live" =>
             r \in run \/ (last.mode = "extend" /\ r \in last.reqs)
    BY <1>1 DEF BatchOK, c, f
  <2>4. InBatch(g, run) /\ InBatch(g, last.reqs)
    BY <2>1, <2>2, <2>3 DEF InBatch
  <2>5. \A r \in Reqs : g[r].st = "live" =>
             r \in run \/ (last.mode = "extend" /\ r \in last.reqs)
    BY <2>1, <2>3
  <2>6. t.last_batch = last /\ t.running_batch.reqs = run /\ t.chunked_req = c /\ t.req = g
    BY <1>12 DEF c
  <2> HIDE DEF last, run
  <2> QED
    BY <2>3, <2>4, <2>5, <2>6 DEF BatchOK
<1>15. FlagOK(t)
  BY <1>1, <1>12 DEF FlagOK
<1>16. Processed(s, t, n, h)
  <2>1. \A r \in Reqs : t.req[r].inflight_middle_chunks = n[r]
    BY <1>10, <1>12
  <2>2. \A r \in Reqs \ {s.chunked_req} : Holds(t.req[r], h[r])
    BY <1>10, <1>12 DEF c
  <2> QED
    BY <1>1, <1>12, <1>13, <1>14, <1>15, <2>1, <2>2 DEF Processed, tl
<1> QED
  BY <1>4, <1>16

\* One sequence of length at most one is another.
LEMMA ShortSeq ==
  ASSUME NEW q \in Seq(ResultType), NEW b \in BatchType,
         Len(q) = Len(Results(b)), b.mode # "none" => q[Len(q)] = Result(b)
  PROVE  q = Results(b)
<1>1. CASE b.mode = "none"
  <2>1. Results(b) = <<>>
    BY <1>1 DEF Results
  <2>2. Len(q) = 0
    BY <2>1
  <2> QED
    BY <2>1, <2>2
<1>2. CASE b.mode # "none"
  <2> DEFINE x == Result(b)
  <2>1. Results(b) = <<x>>
    BY <1>2 DEF Results
  <2> HIDE DEF x
  <2>2. Len(q) = 1
    BY <2>1
  <2>3. q[1] = x
    BY <1>2, <2>2 DEF x
  <2>4. q = <<x>>
    BY <2>2, <2>3
  <2> QED
    BY <2>1, <2>4
<1> QED
  BY <1>1, <1>2

\* No result is due.
LEMMA NotDueOK ==
  ASSUME NEW s, NEW old, NEW ov \in BOOLEAN, Posted(s, old, ov),
         IF ov THEN old.mode = "none" ELSE s.last_batch.mode = "none"
  PROVE  LoopInv(s, ov)
<1> DEFINE last == s.last_batch
           c == s.chunked_req
           q == s.result_queue
           lc == old.chunked_req
<1>1. /\ StageOK(s) /\ BatchOK(s) /\ FlagOK(s) /\ s.pending_chunked_abort = NoReq
      /\ old \in BatchType /\ LastOK(old)
      /\ Len(q) = Len(Due(old, ov)) + Len(Results(last))
      /\ last.mode # "none" => q[Len(q)] = Result(last)
      /\ \A r \in Reqs : s.req[r].inflight_middle_chunks
                           = One(ov /\ r = lc) + One(r = c)
      /\ \A r \in Reqs \ {c} :
           Holds(s.req[r], One(ov /\ r \in old.reqs /\ r # lc) + One(r \in last.reqs))
  BY DEF Posted
<1>2. s \in StateType /\ q \in Seq(ResultType) /\ last \in BatchType
  <2>1. s \in StateType
    BY <1>1 DEF StageOK
  <2> QED
    BY <2>1, StateFields
<1>3. LastOK(last) /\ last.chunked_req = c
  BY <1>1 DEF BatchOK
<1>4. NoReq \notin Reqs
  BY NoReqFacts
<1>5. NoBatch.reqs = {} /\ NoBatch.chunked_req = NoReq
  BY DEF NoBatch
<1> HIDE DEF last, c, q, lc
<1>6. CASE ov
  <2>1. old.mode = "none" /\ old.reqs = {} /\ lc = NoReq
    BY <1>1, <1>5, <1>6 DEF LastOK, lc
  <2>2. Due(old, ov) = <<>>
    BY <1>6, <2>1 DEF Due, Results
  <2>3. Len(Results(last)) \in Nat
    BY <1>2, DueFacts
  <2>4. Len(q) = Len(Results(last))
    BY <1>1, <2>2, <2>3
  <2>5. q = Results(last)
    BY <1>1, <1>2, <2>4, ShortSeq
  <2>6. q = Due(last, ov)
    BY <1>6, <2>5 DEF Due
  <2>7. ASSUME NEW r \in Reqs
        PROVE  s.req[r].inflight_middle_chunks = One(ov /\ r = c)
    BY <1>1, <1>4, <1>6, <2>1 DEF One
  <2>8. ASSUME NEW r \in Reqs \ {c}
        PROVE  Holds(s.req[r], One(ov /\ r \in last.reqs))
    <3>1. One(ov /\ r \in old.reqs /\ r # lc) + One(r \in last.reqs) = One(ov /\ r \in last.reqs)
      BY <1>6, <2>1 DEF One
    <3> QED
      BY <1>1, <3>1
  <2> QED
    BY <1>1, <2>6, <2>7, <2>8 DEF LoopInv, q, c, last
<1>7. CASE ~ov
  <2>1. last.mode = "none" /\ last.reqs = {} /\ c = NoReq
    BY <1>3, <1>5, <1>7 DEF LastOK, last
  <2>2. Len(Due(old, ov)) = 0
    BY <1>7 DEF Due
  <2>3. Len(Results(last)) = 0
    BY <2>1 DEF Results
  <2>4. q = <<>> /\ Due(last, ov) = <<>>
    <3>1. Len(q) = 0
      BY <1>1, <2>2, <2>3
    <3> QED
      BY <1>2, <1>7, <3>1 DEF Due
  <2>5. ASSUME NEW r \in Reqs
        PROVE  s.req[r].inflight_middle_chunks = One(ov /\ r = c)
    BY <1>1, <1>4, <1>7, <2>1 DEF One
  <2>6. ASSUME NEW r \in Reqs \ {c}
        PROVE  Holds(s.req[r], One(ov /\ r \in last.reqs))
    <3>1. One(ov /\ r \in old.reqs /\ r # lc) + One(r \in last.reqs) = One(ov /\ r \in last.reqs)
      BY <1>7, <2>1 DEF One
    <3> QED
      BY <1>1, <3>1
  <2> QED
    BY <1>1, <2>4, <2>5, <2>6 DEF LoopInv, q, c, last
<1> QED
  BY <1>6, <1>7

\* A result is due: with overlap that of the batch before, else the batch's own.
LEMMA DueOK ==
  ASSUME NEW s, NEW old, NEW ov \in BOOLEAN, Posted(s, old, ov), NEW stops,
         IF ov THEN old.mode # "none" ELSE s.last_batch.mode # "none"
  PROVE  LoopInv(ProcessBatchResult(s, stops), ov)
<1> DEFINE last == s.last_batch
           c == s.chunked_req
           q == s.result_queue
           lc == old.chunked_req
           n == [r \in Reqs |-> One(ov /\ r = c)]
           h == [r \in Reqs |-> One(ov /\ r \in last.reqs)]
           b == IF ov THEN old ELSE last
           t == ProcessBatchResult(s, stops)
<1>1. /\ StageOK(s) /\ BatchOK(s) /\ FlagOK(s) /\ s.pending_chunked_abort = NoReq
      /\ old \in BatchType /\ LastOK(old) /\ (c \in old.reqs => c = lc)
      /\ \A r \in old.reqs : s.req[r].st \in {"live", "done"} \/ s.req[r].is_retracted
      /\ lc # NoReq => ~s.req[lc].is_retracted
      /\ Len(q) = Len(Due(old, ov)) + Len(Results(last))
      /\ ov /\ old.mode # "none" =>
           /\ DOMAIN q[1] = old.reqs
           /\ \A r \in old.reqs :
                q[1][r].ran = Ran(old, r) /\ (q[1][r].stale => s.req[r].is_retracted)
      /\ last.mode # "none" => q[Len(q)] = Result(last)
      /\ \A r \in Reqs : s.req[r].inflight_middle_chunks
                           = One(ov /\ r = lc) + One(r = c)
      /\ \A r \in Reqs \ {c} :
           Holds(s.req[r], One(ov /\ r \in old.reqs /\ r # lc) + One(r \in last.reqs))
  BY DEF Posted
<1>2. /\ s \in StateType /\ q \in Seq(ResultType) /\ last \in BatchType
      /\ s.req \in [Reqs -> ReqType] /\ ReqsOK(s.req) /\ last.reqs \in SUBSET Reqs
  <2>1. s \in StateType /\ ReqsOK(s.req)
    BY <1>1 DEF StageOK
  <2> QED
    BY <2>1, StateFields
<1>3. LastOK(last) /\ last.chunked_req = c /\ InBatch(s.req, last.reqs)
  BY <1>1 DEF BatchOK
<1>4. \A r \in Reqs : /\ n[r] = One(ov /\ r = c) /\ h[r] = One(ov /\ r \in last.reqs)
                      /\ n[r] \in {0, 1} /\ h[r] \in {0, 1} /\ (n[r] = 1 => r = c)
  BY DEF One
<1>5. last.mode # "none" => Len(Results(last)) = 1
  BY DEF Results
<1>6. Len(Results(last)) \in Nat
  BY <1>2, DueFacts
<1> HIDE DEF last, c, q, lc, n, h, t
<1>7. CASE ov
  <2>1. old.mode # "none" /\ Len(Due(old, ov)) = 1 /\ b = old
    BY <1>7 DEF Due, Results
  <2>2. Len(q) = 1 + Len(Results(last)) /\ q # <<>> /\ Head(q) = q[1]
    BY <1>1, <1>2, <1>6, <2>1
  <2>3. ASSUME NEW r \in Reqs
        PROVE  s.req[r].inflight_middle_chunks = One(r = lc) + n[r]
    BY <1>1, <1>4, <1>7 DEF One
  <2>4. ASSUME NEW r \in Reqs \ {c}
        PROVE  Holds(s.req[r], One(r \in old.reqs /\ r # lc) + h[r])
    <3>1. /\ One(ov /\ r \in old.reqs /\ r # lc) = One(r \in old.reqs /\ r # lc)
          /\ One(r \in last.reqs) = h[r]
      BY <1>4, <1>7 DEF One
    <3> QED
      BY <1>1, <3>1
  <2>5. Pending(s, old, n, h)
    <3>1. DOMAIN Head(q) = old.reqs
      BY <1>1, <1>7, <2>1, <2>2
    <3>2. ASSUME NEW r \in old.reqs
          PROVE  Head(q)[r].ran = Ran(old, r) /\ (Head(q)[r].stale => s.req[r].is_retracted)
      BY <1>1, <1>7, <2>1, <2>2
    <3> QED
      BY <1>1, <1>4, <2>2, <2>3, <2>4, <3>1, <3>2 DEF Pending, q, c, lc
  <2>6. Processed(s, t, n, h)
    BY <2>5, ProcessBatchOK DEF t
  <2>7. Tail(q) = Results(last)
    <3> DEFINE p == Tail(q)
    <3>1. p \in Seq(ResultType) /\ Len(p) = Len(Results(last))
      BY <1>2, <1>6, <2>2
    <3>2. last.mode # "none" => p[Len(p)] = Result(last)
      <4>1. SUFFICES ASSUME last.mode # "none" PROVE p[Len(p)] = Result(last)
        OBVIOUS
      <4>2. Len(q) = 2 /\ Len(p) = 1 /\ q[2] = Result(last)
        BY <1>1, <1>5, <2>2, <3>1, <4>1
      <4>3. p[1] = q[2]
        BY <1>2, <4>2
      <4> QED
        BY <4>2, <4>3
    <3> HIDE DEF p
    <3>3. p = Results(last)
      BY <1>2, <3>1, <3>2, ShortSeq
    <3> QED
      BY <3>3 DEF p
  <2>8. t.result_queue = Due(t.last_batch, ov)
    BY <1>7, <2>6, <2>7 DEF Processed, Due, last, q
  <2>9. /\ \A r \in Reqs : t.req[r].inflight_middle_chunks = One(ov /\ r = t.chunked_req)
        /\ \A r \in Reqs \ {t.chunked_req} : Holds(t.req[r], One(ov /\ r \in t.last_batch.reqs))
    BY <1>4, <2>6 DEF Processed, c, last
  <2> QED
    BY <2>6, <2>8, <2>9 DEF LoopInv, Processed, t
<1>8. CASE ~ov
  <2>1. last.mode # "none" /\ Len(Due(old, ov)) = 0 /\ Len(Results(last)) = 1
    BY <1>5, <1>8 DEF Due, last
  <2>2. Len(q) = 1 /\ q # <<>> /\ Head(q) = Result(last) /\ Tail(q) = <<>>
    <3>1. Len(q) = 1 /\ q[1] = Result(last)
      BY <1>1, <2>1
    <3>2. q # <<>> /\ Head(q) = q[1]
      <4>1. q \in Seq(ResultType) /\ Len(q) = 1
        BY <1>2, <3>1
      <4>2. q # <<>>
        BY ONLY <4>1
      <4> QED
        BY ONLY <4>1, <4>2
    <3>3. Tail(q) \in Seq(ResultType) /\ Len(Tail(q)) = 0
      BY <1>2, <3>1, <3>2
    <3> DEFINE p == Tail(q)
    <3>4. p = <<>>
      <4> HIDE DEF p
      <4>1. p \in Seq(ResultType) /\ Len(p) = 0
        BY <3>3 DEF p
      <4> QED
        BY <4>1
    <3> QED
      BY <3>1, <3>2, <3>4
  <2>3. ASSUME NEW r \in Reqs
        PROVE  s.req[r].inflight_middle_chunks = One(r = c) + n[r]
    BY <1>1, <1>4, <1>8 DEF One
  <2>4. ASSUME NEW r \in Reqs \ {c}
        PROVE  Holds(s.req[r], One(r \in last.reqs /\ r # c) + h[r])
    <3>1. One(ov /\ r \in old.reqs /\ r # lc) + One(r \in last.reqs)
            = One(r \in last.reqs /\ r # c) + h[r]
      BY <1>4, <1>8 DEF One
    <3> QED
      BY <1>1, <3>1
  <2>5. Pending(s, last, n, h)
    <3> DEFINE res == Result(last)
    <3>1. DOMAIN res = last.reqs /\ \A r \in last.reqs : res[r].ran = Ran(last, r)
                                                         /\ res[r].stale = FALSE
      BY DEF Result
    <3> HIDE DEF res
    <3>2. Head(q) = res
      BY <2>2 DEF res
    <3>3. \A r \in last.reqs : s.req[r].st \in {"live", "done"}
      BY <1>3 DEF InBatch
    <3>4. c # NoReq => ~s.req[c].is_retracted
      <4>1. SUFFICES ASSUME c # NoReq PROVE ~s.req[c].is_retracted
        OBVIOUS
      <4>2. c \in last.reqs /\ c \in Reqs
        BY <1>2, <1>3, <4>1 DEF LastOK
      <4> QED
        BY <1>2, <3>3, <4>2 DEF ReqsOK, ReqOK
    <3>5. last.chunked_req = c
      BY <1>3
    <3>6. \A r \in last.reqs :
            /\ s.req[r].st \in {"live", "done"} \/ s.req[r].is_retracted
            /\ Head(q)[r].ran = Ran(last, r) /\ (Head(q)[r].stale => s.req[r].is_retracted)
      BY <3>1, <3>2, <3>3
    <3>7. DOMAIN Head(q) = last.reqs
      BY <3>1, <3>2
    <3>8. /\ \A r \in Reqs :
               s.req[r].inflight_middle_chunks = One(r = last.chunked_req) + n[r]
          /\ \A r \in Reqs \ {c} :
               Holds(s.req[r], One(r \in last.reqs /\ r # last.chunked_req) + h[r])
          /\ last.chunked_req # NoReq => ~s.req[last.chunked_req].is_retracted
          /\ c \in last.reqs => c = last.chunked_req
      BY <2>3, <2>4, <3>4, <3>5
    <3> QED
      BY <1>1, <1>2, <1>3, <1>4, <2>2, <3>6, <3>7, <3>8 DEF Pending, q, c
  <2>6. Processed(s, t, n, h)
    BY <2>5, ProcessBatchOK DEF t
  <2>7. t.result_queue = Due(t.last_batch, ov)
    BY <1>8, <2>2, <2>6 DEF Processed, Due, q
  <2>8. /\ \A r \in Reqs : t.req[r].inflight_middle_chunks = One(ov /\ r = t.chunked_req)
        /\ \A r \in Reqs \ {t.chunked_req} : Holds(t.req[r], One(ov /\ r \in t.last_batch.reqs))
    BY <1>4, <2>6 DEF Processed, c, last
  <2> QED
    BY <2>6, <2>7, <2>8 DEF LoopInv, Processed, t
<1> QED
  BY <1>7, <1>8

-----------------------------------------------------------------------------
(* Between the passes *)

\* A free request slot.
LEMMA IdleFacts ==
  /\ Idle \in ReqType /\ ReqOK(Idle) /\ Idle.st = "idle" /\ Idle.kv = 0
  /\ Idle.inflight_middle_chunks = 0
  BY DEF Idle, ReqType, ReqOK

\* Requests that are in no batch, and not being chunked, may change as long
\* as they hold no KV.
LEMMA OthersChange ==
  ASSUME NEW s, NEW ov \in BOOLEAN, LoopInv(s, ov), NEW wq \in Seq(Reqs),
         NEW g \in [Reqs -> ReqType], NEW p \in {NoReq, s.chunked_req}, QueueOK(wq, g),
         \A r \in Reqs :
           \/ g[r] = s.req[r]
           \/ /\ ReqOK(g[r]) /\ g[r].st # "live" /\ g[r].inflight_middle_chunks = 0
              /\ r \notin s.running_batch.reqs /\ r \notin s.last_batch.reqs
              /\ r # s.chunked_req
  PROVE  LoopInv([s EXCEPT !.waiting_queue = wq, !.req = g, !.pending_chunked_abort = p], ov)
<1> DEFINE t == [s EXCEPT !.waiting_queue = wq, !.req = g, !.pending_chunked_abort = p]
           f == s.req
           c == s.chunked_req
           last == s.last_batch
           run == s.running_batch.reqs
<1>1. /\ StageOK(s) /\ s \in StateType /\ s.fault = {} /\ ChunkedOK(c, f) /\ ReqsOK(f)
      /\ BatchOK(s) /\ FlagOK(s)
      /\ s.result_queue = Due(last, ov)
      /\ \A r \in Reqs : f[r].inflight_middle_chunks = One(ov /\ r = c)
      /\ \A r \in Reqs \ {c} : Holds(f[r], One(ov /\ r \in last.reqs))
  BY DEF LoopInv, StageOK
<1>2. /\ f \in [Reqs -> ReqType] /\ run \in SUBSET Reqs /\ last.reqs \in SUBSET Reqs
      /\ c \in Reqs \cup {NoReq} /\ p \in Reqs \cup {NoReq}
  BY <1>1, StateFields
<1>3. /\ LastOK(last) /\ last.chunked_req = c
      /\ InBatch(f, run) /\ InBatch(f, last.reqs)
      /\ c # NoReq => c \notin run
      /\ last.mode = "extend" => last.reqs \cap run = {}
      /\ last.mode = "decode" => last.reqs = run
      /\ \A r \in Reqs : f[r].st = "live" =>
           r \in run \/ (last.mode = "extend" /\ r \in last.reqs)
  BY <1>1 DEF BatchOK
<1>4. \A r \in Reqs :
        \/ g[r] = f[r]
        \/ /\ ReqOK(g[r]) /\ g[r].st # "live" /\ g[r].inflight_middle_chunks = 0
           /\ r \notin run /\ r \notin last.reqs /\ r # c
  OBVIOUS
<1>5. /\ t \in StateType /\ t.waiting_queue = wq /\ t.req = g
      /\ t.pending_chunked_abort = p /\ t.chunked_req = c
      /\ t.running_batch = s.running_batch /\ t.last_batch = last
      /\ t.result_queue = s.result_queue /\ t.fault = s.fault
  BY <1>1, <1>2 DEF StateType
<1>6. t.running_batch.reqs = run
  BY <1>5
<1> HIDE DEF t, f, c, last, run
<1>7. ReqsOK(g)
  BY <1>1, <1>4 DEF ReqsOK
<1>8. ChunkedOK(c, g)
  <2>1. SUFFICES ASSUME c # NoReq PROVE ChunkedOK(c, g)
    BY DEF ChunkedOK
  <2>2. c \in Reqs /\ g[c] = f[c]
    BY <1>2, <1>4, <2>1
  <2>3. \A r \in Reqs : g[r].kv = f[r].kv \/ g[r].kv = 0
    BY <1>4 DEF ReqOK
  <2>4. Held(g) =< Held(f)
    BY <1>2, <2>3, HeldShrinks
  <2>5. Held(g) \in Nat /\ Held(f) \in Nat /\ TokenCapacity \in Nat
    BY <1>2, HeldFacts, CapacityAssumption
  <2>6. /\ f[c].st = "live" /\ 0 < f[c].kv /\ f[c].kv < FillLen(f[c])
        /\ CeilPaged(FillLen(f[c])) - CeilPaged(f[c].kv) =< TokenCapacity - Held(f)
    BY <1>1, <2>1 DEF ChunkedOK, Held
  <2>7. CeilPaged(FillLen(f[c])) \in Nat /\ CeilPaged(f[c].kv) \in Nat
    BY <1>2, <2>2, ReqLengths, CeilPagedBounds
  <2>8. CeilPaged(FillLen(g[c])) - CeilPaged(g[c].kv) =< TokenCapacity - Held(g)
    BY <2>2, <2>4, <2>5, <2>6, <2>7
  <2> QED
    BY <2>2, <2>6, <2>8 DEF ChunkedOK, Held
<1>9. StageOK(t)
  BY <1>1, <1>5, <1>7, <1>8 DEF StageOK
<1>10. InBatch(g, run) /\ InBatch(g, last.reqs)
  BY <1>2, <1>3, <1>4 DEF InBatch
<1>11. \A r \in Reqs : g[r].st = "live" =>
         r \in run \/ (last.mode = "extend" /\ r \in last.reqs)
  BY <1>3, <1>4
<1>12. BatchOK(t)
  BY <1>3, <1>5, <1>6, <1>10, <1>11 DEF BatchOK
<1>13. FlagOK(t)
  BY <1>1, <1>5 DEF FlagOK, last
<1>14. ASSUME NEW r \in Reqs
       PROVE  /\ g[r].inflight_middle_chunks = One(ov /\ r = c)
              /\ r # c => Holds(g[r], One(ov /\ r \in last.reqs))
  <2>1. CASE g[r] = f[r]
    BY <1>1, <2>1
  <2>2. CASE g[r] # f[r]
    <3>1. g[r].st # "live" /\ g[r].inflight_middle_chunks = 0 /\ r # c
      BY <1>4, <2>2
    <3> QED
      BY <3>1 DEF One, Holds
  <2> QED
    BY <2>1, <2>2
<1>15. t.result_queue = Due(t.last_batch, ov) /\ t.pending_chunked_abort \in {NoReq, t.chunked_req}
  BY <1>1, <1>5 DEF c
<1>16. LoopInv(t, ov)
  BY <1>5, <1>9, <1>12, <1>13, <1>14, <1>15 DEF LoopInv
<1> QED
  BY <1>16 DEF t

\* The result queue refers to the requests of the last batch only.
LEMMA QueuedBatch ==
  ASSUME NEW b \in BatchType, NEW ov \in BOOLEAN
  PROVE  \A i \in DOMAIN Due(b, ov) : DOMAIN Due(b, ov)[i] = b.reqs
<1> DEFINE d == Due(b, ov)
<1>1. /\ d \in Seq(ResultType) /\ DOMAIN Result(b) = b.reqs
      /\ Len(d) = IF ov /\ b.mode # "none" THEN 1 ELSE 0
      /\ ov /\ b.mode # "none" => d[1] = Result(b)
  BY DueFacts
<1> HIDE DEF d
<1>2. \A i \in DOMAIN d : i = 1 /\ ov /\ b.mode # "none"
  BY <1>1
<1>3. \A i \in DOMAIN d : DOMAIN d[i] = b.reqs
  BY <1>1, <1>2
<1> QED
  BY <1>3 DEF d

\* Forgetting finished requests that nothing refers to.
LEMMA CollectOK ==
  ASSUME NEW s, NEW ov \in BOOLEAN, LoopInv(s, ov)
  PROVE  LoopInv(Collect(s), ov)
<1> DEFINE used == s.running_batch.reqs \cup s.last_batch.reqs \cup {s.chunked_req}
                     \cup UNION {DOMAIN s.result_queue[i] : i \in DOMAIN s.result_queue}
           g == [r \in Reqs |-> IF Finished(s, r) /\ r \notin used THEN Idle ELSE s.req[r]]
           wq == s.waiting_queue
           p == s.pending_chunked_abort
           t == [s EXCEPT !.waiting_queue = wq, !.req = g, !.pending_chunked_abort = p]
<1>1. /\ s \in StateType /\ QueueOK(wq, s.req) /\ p \in {NoReq, s.chunked_req}
  BY DEF LoopInv, StageOK
<1>2. s.req \in [Reqs -> ReqType] /\ wq \in Seq(Reqs)
  BY <1>1, StateFields
<1>3. Collect(s) = t
  BY <1>1 DEF Collect, StateType
<1>4. \A r \in Reqs : \/ g[r] = s.req[r]
                      \/ /\ g[r] = Idle /\ s.req[r].st = "done" /\ r \notin used
  BY DEF Finished
<1>5. g \in [Reqs -> ReqType]
  BY <1>2, IdleFacts
<1> HIDE DEF g
<1>6. QueueOK(wq, g)
  <2>1. \A r \in Reqs : g[r].st = "waiting" <=> s.req[r].st = "waiting"
    BY <1>4, IdleFacts
  <2> QED
    BY <1>1, <2>1 DEF QueueOK
<1>7. \A r \in Reqs :
        \/ g[r] = s.req[r]
        \/ /\ ReqOK(g[r]) /\ g[r].st # "live" /\ g[r].inflight_middle_chunks = 0
           /\ r \notin s.running_batch.reqs /\ r \notin s.last_batch.reqs
           /\ r # s.chunked_req
  BY <1>4, IdleFacts
<1> HIDE DEF wq, p
<1>8. LoopInv(t, ov)
  BY <1>1, <1>2, <1>5, <1>6, <1>7, OthersChange
<1> QED
  BY <1>3, <1>8

\* A request that is aborted while it waits leaves no trace.
LEMMA AbortWaitingOK ==
  ASSUME NEW s, NEW ov \in BOOLEAN, LoopInv(s, ov), NEW x \in Reqs,
         s.req[x].st = "waiting", NEW p \in {NoReq, s.chunked_req}
  PROVE  LET t == [s EXCEPT !.pending_chunked_abort = p]
         IN  LoopInv(Collect([t EXCEPT !.waiting_queue = Drop(@, {x}), !.req[x].st = "done"]), ov)
<1> DEFINE f == s.req
           wq == Drop(s.waiting_queue, {x})
           f1 == [f EXCEPT ![x].st = "done"]
           u == [s EXCEPT !.pending_chunked_abort = p, !.waiting_queue = wq, !.req = f1]
           used == s.running_batch.reqs \cup s.last_batch.reqs \cup {s.chunked_req}
                     \cup UNION {DOMAIN s.result_queue[i] : i \in DOMAIN s.result_queue}
           g == [r \in Reqs |-> IF f1[r].st = "done" /\ r \notin used THEN Idle ELSE f1[r]]
           v == [s EXCEPT !.waiting_queue = wq, !.req = g, !.pending_chunked_abort = p]
<1>1. /\ s \in StateType /\ StageOK(s) /\ BatchOK(s) /\ QueueOK(s.waiting_queue, f)
      /\ s.result_queue = Due(s.last_batch, ov) /\ ChunkedOK(s.chunked_req, f)
  BY DEF LoopInv, StageOK
<1>2. /\ f \in [Reqs -> ReqType] /\ s.waiting_queue \in Seq(Reqs)
      /\ s.last_batch \in BatchType
  BY <1>1, StateFields
<1>3. /\ wq \in Seq(Reqs) /\ Distinct(wq)
      /\ \A r \in Reqs : Listed(wq, r) <=> r \notin {x} /\ Listed(s.waiting_queue, r)
  BY <1>1, <1>2, DropFacts DEF QueueOK
<1>4. f1 \in [Reqs -> ReqType] /\ f1[x].st = "done" /\ \A r \in Reqs \ {x} : f1[r] = f[r]
  BY <1>2 DEF ReqType
<1>5. LET t == [s EXCEPT !.pending_chunked_abort = p]
      IN  [t EXCEPT !.waiting_queue = Drop(@, {x}), !.req[x].st = "done"] = u
  BY <1>1 DEF StateType
<1> HIDE DEF wq, f1, f
<1>6. /\ u.req = f1 /\ u.running_batch = s.running_batch /\ u.last_batch = s.last_batch
      /\ u.chunked_req = s.chunked_req /\ u.result_queue = s.result_queue
  BY <1>1 DEF StateType
<1>7. Collect(u) = [u EXCEPT !.req = g]
  <2> HIDE DEF u
  <2> QED
    BY <1>6 DEF Collect, Finished
<1>8. x \notin used
  <2>1. /\ \A r \in s.running_batch.reqs : f[r].st \in {"live", "done"}
        /\ \A r \in s.last_batch.reqs : f[r].st \in {"live", "done"}
    BY <1>1 DEF BatchOK, InBatch, f
  <2>2. s.chunked_req # x
    BY <1>1, NoReqFacts DEF ChunkedOK, f
  <2>3. f[x].st = "waiting"
    BY DEF f
  <2>4. \A i \in DOMAIN s.result_queue : DOMAIN s.result_queue[i] = s.last_batch.reqs
    BY <1>1, <1>2, QueuedBatch
  <2> QED
    BY <2>1, <2>2, <2>3, <2>4
<1>9. \A r \in Reqs :
        \/ r # x /\ g[r] = f[r]
        \/ g[r] = Idle /\ r \notin used /\ (r = x \/ f[r].st = "done")
  BY <1>4, <1>8
<1>10. g \in [Reqs -> ReqType]
  BY <1>4, IdleFacts
<1> HIDE DEF g
<1>11. QueueOK(wq, g)
  <2>1. \A r \in Reqs : g[r].st = "waiting" <=> r # x /\ f[r].st = "waiting"
    BY <1>9, IdleFacts
  <2> QED
    BY <1>1, <1>3, <2>1 DEF QueueOK
<1>12. \A r \in Reqs :
         \/ g[r] = s.req[r]
         \/ /\ ReqOK(g[r]) /\ g[r].st # "live" /\ g[r].inflight_middle_chunks = 0
            /\ r \notin s.running_batch.reqs /\ r \notin s.last_batch.reqs
            /\ r # s.chunked_req
  BY <1>9, IdleFacts DEF f
<1>13. LoopInv(v, ov)
  BY <1>3, <1>10, <1>11, <1>12, OthersChange
<1>14. [u EXCEPT !.req = g] = v
  BY <1>1 DEF StateType
<1> QED
  BY <1>5, <1>7, <1>13, <1>14

\* An abort in flight only marks the request.
LEMMA AbortInFlightOK ==
  ASSUME NEW s, NEW ov \in BOOLEAN, LoopInv(s, ov), NEW x \in Reqs, s.req[x].st # "idle"
  PROVE  LoopInv(AbortInFlight(s, x), ov)
<1> DEFINE f == s.req
           g == [f EXCEPT ![x].to_finish = TRUE]
           t == [s EXCEPT !.req = g]
           c == s.chunked_req
           last == s.last_batch
           run == s.running_batch.reqs
<1>1. AbortInFlight(s, x) = s \/ AbortInFlight(s, x) = t
  BY DEF AbortInFlight
<1>2. /\ StageOK(s) /\ s \in StateType /\ s.fault = {} /\ ChunkedOK(c, f) /\ ReqsOK(f)
      /\ QueueOK(s.waiting_queue, f) /\ BatchOK(s) /\ FlagOK(s)
      /\ s.pending_chunked_abort \in {NoReq, c}
      /\ s.result_queue = Due(last, ov)
      /\ \A r \in Reqs : f[r].inflight_middle_chunks = One(ov /\ r = c)
      /\ \A r \in Reqs \ {c} : Holds(f[r], One(ov /\ r \in last.reqs))
  BY DEF LoopInv, StageOK
<1>3. /\ f \in [Reqs -> ReqType] /\ run \in SUBSET Reqs /\ last.reqs \in SUBSET Reqs
      /\ c \in Reqs \cup {NoReq}
  BY <1>2, StateFields
<1>4. /\ g \in [Reqs -> ReqType]
      /\ \A r \in Reqs :
           /\ g[r].st = f[r].st /\ g[r].len = f[r].len /\ g[r].max_new = f[r].max_new
           /\ g[r].out = f[r].out /\ g[r].kv = f[r].kv
           /\ g[r].inflight_middle_chunks = f[r].inflight_middle_chunks
           /\ g[r].is_retracted = f[r].is_retracted
           /\ r # x => g[r] = f[r]
  <2> DEFINE q == f[x]
             q2 == [q EXCEPT !.to_finish = TRUE]
  <2>1. q \in ReqType
    BY <1>3
  <2>2. /\ q2 \in ReqType /\ q2.st = q.st /\ q2.len = q.len /\ q2.max_new = q.max_new
        /\ q2.out = q.out /\ q2.kv = q.kv
        /\ q2.inflight_middle_chunks = q.inflight_middle_chunks
        /\ q2.is_retracted = q.is_retracted
    <3> HIDE DEF q
    <3> QED
      BY <2>1 DEF ReqType
  <2>3. g = [f EXCEPT ![x] = q2]
    OBVIOUS
  <2> HIDE DEF q2, g
  <2>4. g \in [Reqs -> ReqType] /\ g[x] = q2 /\ \A r \in Reqs : r # x => g[r] = f[r]
    BY <1>3, <2>2, <2>3
  <2> QED
    BY <2>2, <2>4 DEF q
<1> HIDE DEF g
<1>5. /\ t \in StateType /\ t.req = g /\ t.waiting_queue = s.waiting_queue
      /\ t.pending_chunked_abort = s.pending_chunked_abort /\ t.chunked_req = c
      /\ t.running_batch = s.running_batch /\ t.last_batch = last
      /\ t.result_queue = s.result_queue /\ t.fault = s.fault
  BY <1>2, <1>4 DEF StateType
<1>6. f[x].st # "idle"
  OBVIOUS
<1> HIDE DEF t, f
<1>7. ReqsOK(g)
  BY <1>2, <1>4, <1>6 DEF ReqsOK, ReqOK
<1>8. QueueOK(s.waiting_queue, g)
  BY <1>2, <1>4 DEF QueueOK
<1>9. ChunkedOK(c, g)
  <2>1. SUFFICES ASSUME c # NoReq PROVE ChunkedOK(c, g)
    BY DEF ChunkedOK
  <2>2. c \in Reqs
    BY <1>3, <2>1
  <2>3. [r \in Reqs |-> CeilPaged(g[r].kv)] = [r \in Reqs |-> CeilPaged(f[r].kv)]
    BY <1>4
  <2>4. FillLen(g[c]) = FillLen(f[c]) /\ g[c].kv = f[c].kv /\ g[c].st = f[c].st
    BY <1>4, <2>2 DEF FillLen
  <2> HIDE DEF c
  <2> QED
    BY <1>2, <2>1, <2>3, <2>4 DEF ChunkedOK
<1>10. StageOK(t)
  BY <1>2, <1>5, <1>7, <1>8, <1>9 DEF StageOK
<1>11. BatchOK(t)
  <2>1. /\ LastOK(last) /\ last.chunked_req = c
        /\ InBatch(f, run) /\ InBatch(f, last.reqs)
        /\ c # NoReq => c \notin run
        /\ last.mode = "extend" => last.reqs \cap run = {}
        /\ last.mode = "decode" => last.reqs = run
        /\ \A r \in Reqs : f[r].st = "live" =>
             r \in run \/ (last.mode = "extend" /\ r \in last.reqs)
    BY <1>2 DEF BatchOK, f
  <2>2. InBatch(g, run) /\ InBatch(g, last.reqs)
    BY <1>3, <1>4, <2>1 DEF InBatch
  <2>3. t.running_batch.reqs = run
    BY <1>5
  <2> HIDE DEF run, last, c
  <2> QED
    BY <1>4, <1>5, <2>1, <2>2, <2>3 DEF BatchOK
<1>12. FlagOK(t)
  BY <1>2, <1>5 DEF FlagOK
<1>13. \A r \in Reqs \ {c} : Holds(g[r], One(ov /\ r \in last.reqs))
  BY <1>2, <1>4 DEF Holds, FillLen
<1>14. \A r \in Reqs : g[r].inflight_middle_chunks = One(ov /\ r = c)
  BY <1>2, <1>4
<1>15. LoopInv(t, ov)
  BY <1>2, <1>5, <1>10, <1>11, <1>12, <1>13, <1>14 DEF LoopInv
<1> QED
  BY <1>1, <1>15 DEF t

\* What handle_generate_request queues is a request that fits.
LEMMA WaitingOK ==
  ASSUME NEW input \in Lens, NEW want \in Wants
  PROVE  LET q == Waiting(HandleGenerateRequest(input, want))
         IN  /\ q \in ReqType /\ ReqOK(q) /\ q.st = "waiting"
             /\ q.inflight_middle_chunks = 0
<1> DEFINE h == HandleGenerateRequest(input, want)
<1>1. input \in Nat \ {0} /\ want \in Nat
  BY LoopAssumption
<1>2. h.max_new \in Nat
  <2>1. h.max_new = InitReqMaxNewTokens(input, want)
    BY DEF HandleGenerateRequest
  <2> QED
    BY <1>1, <2>1, ClippedNewTokens
<1>3. h.len \in Nat /\ h.len > 0
  <2>1. h.len = IF ~TooLong(input) THEN input
                ELSE IF AllowAutoTruncate THEN MaxReqInputLen ELSE 1
    BY DEF HandleGenerateRequest
  <2>2. MaxReqInputLen \in Nat /\ MaxReqInputLen > 0
    BY CapacityAssumption DEF MaxReqInputLen, MaxReqLen, Least
  <2> QED
    BY <1>1, <2>1, <2>2
<1>4. h.to_finish \in BOOLEAN
  BY DEF HandleGenerateRequest
<1>5. h.len + h.max_new < TokenCapacity
  BY <1>1, QueuedRequestInContext
<1>6. ASSUME Roomy PROVE h.len + h.max_new + PageSize < TokenCapacity
  <2>1. PageSize =< 5 \/ ContextLen + PageSize =< TokenCapacity
    BY <1>6 DEF Roomy
  <2>2. FitsEmptyPool(h.len, h.max_new)
    BY <1>1, <2>1, QueuedRequestFits
  <2> QED
    BY <2>2 DEF FitsEmptyPool
<1> DEFINE q == Waiting(h)
<1> HIDE DEF h
<1>7. /\ q \in ReqType /\ q.st = "waiting" /\ q.len = h.len /\ q.max_new = h.max_new
      /\ q.out = 0 /\ q.kv = 0 /\ q.inflight_middle_chunks = 0 /\ q.is_retracted = FALSE
  BY <1>2, <1>3, <1>4 DEF Waiting, Idle, ReqType
<1>8. ReqOK(q)
  <2> HIDE DEF q
  <2> QED
    BY <1>3, <1>5, <1>6, <1>7 DEF ReqOK
<1> QED
  BY <1>7, <1>8 DEF h

\* A request arrives.
LEMMA ArriveOK ==
  ASSUME NEW s, NEW ov \in BOOLEAN, LoopInv(s, ov), NEW x \in Reqs, s.req[x].st = "idle",
         NEW q \in ReqType, ReqOK(q), q.st = "waiting", q.inflight_middle_chunks = 0
  PROVE  LoopInv([s EXCEPT !.waiting_queue = Append(@, x), !.req = [@ EXCEPT ![x] = q]], ov)
<1> DEFINE f == s.req
           g == [f EXCEPT ![x] = q]
           p == s.pending_chunked_abort
           old == s.waiting_queue
           wq == Append(old, x)
           t == [s EXCEPT !.waiting_queue = wq, !.req = g, !.pending_chunked_abort = p]
<1>1. /\ s \in StateType /\ BatchOK(s) /\ QueueOK(old, f) /\ ChunkedOK(s.chunked_req, f)
      /\ p \in {NoReq, s.chunked_req}
  BY DEF LoopInv, StageOK
<1>2. f \in [Reqs -> ReqType] /\ old \in Seq(Reqs)
  BY <1>1, StateFields
<1>3. /\ g \in [Reqs -> ReqType] /\ wq \in Seq(Reqs) /\ g[x] = q
      /\ \A r \in Reqs \ {x} : g[r] = f[r]
  BY <1>2
<1>4. ~Listed(old, x) /\ f[x].st = "idle"
  BY <1>1 DEF QueueOK
<1>5. Distinct(wq) /\ \A r \in Reqs : Listed(wq, r) <=> r = x \/ Listed(old, r)
  <2> DEFINE m == Len(old)
  <2>1. /\ m \in Nat /\ DOMAIN wq = 1..(m + 1) /\ DOMAIN old = 1..m
        /\ wq[m + 1] = x /\ \A j \in 1..m : wq[j] = old[j]
    BY <1>2
  <2> HIDE DEF m, wq, old
  <2>2. \A r \in Reqs : Listed(wq, r) <=> r = x \/ Listed(old, r)
    BY <2>1 DEF Listed
  <2>3. \A j \in 1..m : old[j] # x
    BY <1>4, <2>1 DEF Listed
  <2>4. Distinct(wq)
    BY <1>1, <2>1, <2>3 DEF Distinct, QueueOK
  <2> QED
    BY <2>2, <2>4
<1> HIDE DEF g, wq
<1>6. QueueOK(wq, g)
  BY <1>1, <1>3, <1>5 DEF QueueOK
<1>7. /\ x \notin s.running_batch.reqs /\ x \notin s.last_batch.reqs /\ x # s.chunked_req
  BY <1>1, <1>4, NoReqFacts DEF BatchOK, InBatch, ChunkedOK
<1>8. \A r \in Reqs :
        \/ g[r] = s.req[r]
        \/ /\ ReqOK(g[r]) /\ g[r].st # "live" /\ g[r].inflight_middle_chunks = 0
           /\ r \notin s.running_batch.reqs /\ r \notin s.last_batch.reqs
           /\ r # s.chunked_req
  BY <1>3, <1>7
<1> HIDE DEF p
<1>9. LoopInv(t, ov)
  BY <1>1, <1>3, <1>6, <1>8, OthersChange
<1>10. t = [s EXCEPT !.waiting_queue = Append(@, x), !.req = [@ EXCEPT ![x] = q]]
  BY <1>1 DEF StateType, p, wq, g
<1> QED
  BY <1>9, <1>10

\* The sum of what the running requests may still generate.
LEMMA OffsetFacts ==
  ASSUME NEW s \in StateType
  PROVE  RunningOffset(s) \in Nat
<1> DEFINE w == [r \in Reqs |-> Greatest(s.req[r].max_new - s.req[r].out, 0)]
           B == s.running_batch.reqs
<1>1. s.req \in [Reqs -> ReqType] /\ B \in SUBSET Reqs
  BY StateFields
<1>2. IsFiniteSet(B)
  BY <1>1, LoopAssumption, FS_Subset
<1>3. \A r \in B : w[r] \in Nat
  BY <1>1, ReqLengths
<1> HIDE DEF w, B
<1>4. SumFunctionOnSet(w, B) \in Nat
  BY <1>2, <1>3, SumInNat
<1> QED
  BY <1>4 DEF RunningOffset, w, B

-----------------------------------------------------------------------------
(* The specification *)

\* The inductive invariant of Spec.
LoopInvariant == overlap \in BOOLEAN /\ LoopInv(State, overlap)

\* The state that a step hands to Becomes is the next one.
LEMMA BecomesState ==
  ASSUME NEW x \in StateType, Becomes(x)
  PROVE  State' = x /\ overlap' = overlap
  BY DEF StateType, Becomes, State

\* An engine without requests.
LEMMA InitOK == Init => LoopInvariant
<1>1. SUFFICES ASSUME Init PROVE LoopInvariant
  OBVIOUS
<1>2. overlap \in BOOLEAN
  BY <1>1, LoopAssumption DEF Init
<1>3. NoBatch \in BatchType /\ NoBatch.mode = "none" /\ NoBatch.chunked_req = NoReq
      /\ NoBatch.reqs = {}
  BY DEF NoBatch, BatchType
<1> DEFINE s == State
           f == [r \in Reqs |-> Idle]
<1>4. /\ s.waiting_queue = <<>> /\ s.chunked_req = NoReq /\ s.pending_chunked_abort = NoReq
      /\ s.running_batch = [reqs |-> {}, batch_is_full |-> FALSE, is_prefill_only |-> FALSE]
      /\ s.last_batch = NoBatch /\ s.result_queue = <<>> /\ s.req = f /\ s.fault = {}
  BY <1>1 DEF Init, State
<1>5. f \in [Reqs -> ReqType] /\ \A r \in Reqs : f[r] = Idle
  BY IdleFacts
<1>6. s \in StateType
  <2> HIDE DEF f
  <2>1. <<>> \in Seq(Reqs) /\ <<>> \in Seq(ResultType)
    OBVIOUS
  <2>2. [reqs |-> {}, batch_is_full |-> FALSE, is_prefill_only |-> FALSE] \in RunningType
    BY DEF RunningType
  <2>3. s = [waiting_queue |-> <<>>, chunked_req |-> NoReq, pending_chunked_abort |-> NoReq,
             running_batch |-> [reqs |-> {}, batch_is_full |-> FALSE,
                                is_prefill_only |-> FALSE],
             last_batch |-> NoBatch, result_queue |-> <<>>, req |-> f, fault |-> {}]
    BY <1>1 DEF Init, State, f
  <2> QED
    BY <1>3, <1>5, <2>1, <2>2, <2>3 DEF StateType
<1> HIDE DEF s, f
<1>7. StageOK(s)
  <2>1. QueueOK(s.waiting_queue, s.req)
    <3>1. DOMAIN s.waiting_queue = {}
      BY <1>4
    <3> QED
      BY <1>4, <1>5, <3>1, IdleFacts DEF QueueOK, Distinct, Listed
  <2>2. ChunkedOK(s.chunked_req, s.req)
    BY <1>4 DEF ChunkedOK
  <2>3. ReqsOK(s.req)
    BY <1>4, <1>5, IdleFacts DEF ReqsOK
  <2> QED
    BY <1>4, <1>6, <2>1, <2>2, <2>3 DEF StageOK
<1>8. BatchOK(s)
  <2>1. s.running_batch.reqs = {}
    BY <1>4
  <2>2. \A r \in Reqs : s.req[r].st # "live"
    BY <1>4, <1>5, IdleFacts
  <2> QED
    BY <1>3, <1>4, <2>1, <2>2 DEF BatchOK, LastOK, InBatch
<1>9. FlagOK(s)
  BY <1>4 DEF FlagOK
<1>10. Due(NoBatch, overlap) = <<>>
  BY <1>2, <1>3 DEF Due, Results
<1>11. NoReq \notin Reqs
  BY NoReqFacts
<1>12. \A r \in Reqs : /\ s.req[r].inflight_middle_chunks = One(overlap /\ r = NoReq)
                       /\ Holds(s.req[r], One(overlap /\ r \in {}))
  BY <1>4, <1>5, <1>11, IdleFacts DEF One, Holds
<1>13. LoopInv(s, overlap)
  BY <1>3, <1>4, <1>7, <1>8, <1>9, <1>10, <1>12 DEF LoopInv
<1> QED
  BY <1>2, <1>13 DEF LoopInvariant, s

\* Neither stage before the choice changes the last batch.
LEMMA StagesKeepLast ==
  ASSUME NEW s \in StateType
  PROVE  /\ ProcessPendingChunkedAbort(s).last_batch = s.last_batch
         /\ MergeLastBatch(s).last_batch = s.last_batch
         /\ FilterPrefillOnly(s).last_batch = s.last_batch
<1>1. ProcessPendingChunkedAbort(s).last_batch = s.last_batch
  BY DEF ProcessPendingChunkedAbort, AbortInFlight, StateType
<1>2. MergeLastBatch(s).last_batch = s.last_batch
  <2>1. \A b : [s EXCEPT !.running_batch = b].last_batch = s.last_batch
    BY DEF StateType
  <2>2. MergeLastBatch(s) = s \/ \E b : MergeLastBatch(s) = [s EXCEPT !.running_batch = b]
    BY DEF MergeLastBatch
  <2> QED
    BY <2>1, <2>2
<1>3. FilterPrefillOnly(s).last_batch = s.last_batch
  <2> DEFINE t == FilterBatch(s)
  <2>1. t.last_batch = s.last_batch /\ ResetIfEmpty(t).last_batch = s.last_batch
    BY DEF FilterBatch, ResetIfEmpty, StateType
  <2> QED
    BY <2>1 DEF FilterPrefillOnly
<1> QED
  BY <1>1, <1>2, <1>3

\* A pass of the event loop.
LEMMA IterateOK ==
  ASSUME LoopInvariant, Iterate
  PROVE  LoopInvariant'
<1> DEFINE s0 == ProcessPendingChunkedAbort(State)
           s00 == MergeLastBatch(s0)
           s == FilterPrefillOnly(s00)
<1>1. overlap \in BOOLEAN /\ LoopInv(State, overlap)
  BY DEF LoopInvariant
<1>2. Aborted(s0, overlap) /\ Placed(s0) /\ FlagOK(s0)
  BY <1>1, PendingAbortOK
<1>3. Ready(s00, overlap)
  <2> HIDE DEF s0
  <2> QED
    BY <1>1, <1>2, MergeOK
<1>4. Ready(s, overlap)
  <2> HIDE DEF s00
  <2> QED
    BY <1>1, <1>3, FilterPrefillOnlyOK
<1>5. State \in StateType /\ s0 \in StateType /\ s00 \in StateType /\ s \in StateType
  <2>1. State \in StateType
    BY <1>1 DEF LoopInv, StageOK
  <2>2. s0 \in StateType
    BY <1>2 DEF Aborted, StageOK
  <2>3. s00 \in StateType
    BY <1>3 DEF Ready, Aborted, StageOK
  <2>4. s \in StateType
    BY <1>4 DEF Ready, Aborted, StageOK
  <2> QED
    BY <2>1, <2>2, <2>3, <2>4
<1>6. s.last_batch = last_batch
  <2>1. State.last_batch = last_batch
    BY DEF State
  <2>2. s0.last_batch = State.last_batch
    BY <1>5, StagesKeepLast
  <2>3. s00.last_batch = s0.last_batch
    <3> HIDE DEF s0
    <3> QED
      BY <1>5, StagesKeepLast
  <2>4. s.last_batch = s00.last_batch
    <3> HIDE DEF s00
    <3> QED
      BY <1>5, StagesKeepLast
  <2> QED
    BY <2>1, <2>2, <2>3, <2>4
<1>7. \E offset \in 0..RunningOffset(s) :
        LET s1  == NextBatch(s, offset)
            due == IF overlap THEN last_batch.mode # "none" ELSE s1.last_batch.mode # "none"
        IN  IF ~due \/ s1.fault # {} THEN Becomes(Collect(s1))
            ELSE \E stops \in SUBSET DOMAIN Head(s1.result_queue) :
                   Becomes(Collect(ProcessBatchResult(s1, stops)))
  BY DEF Iterate
<1> HIDE DEF s
<1>8. PICK offset \in 0..RunningOffset(s) :
        LET s1  == NextBatch(s, offset)
            due == IF overlap THEN last_batch.mode # "none" ELSE s1.last_batch.mode # "none"
        IN  IF ~due \/ s1.fault # {} THEN Becomes(Collect(s1))
            ELSE \E stops \in SUBSET DOMAIN Head(s1.result_queue) :
                   Becomes(Collect(ProcessBatchResult(s1, stops)))
  BY <1>7
<1> DEFINE s1 == NextBatch(s, offset)
           due == IF overlap THEN last_batch.mode # "none" ELSE s1.last_batch.mode # "none"
<1>9. RunningOffset(s) \in Nat
  BY <1>5, OffsetFacts
<1>10. Posted(s1, last_batch, overlap)
  BY <1>1, <1>4, <1>6, <1>9, NextBatchOK
<1>11. s1.fault = {}
  BY <1>10 DEF Posted, StageOK
<1> HIDE DEF s1
<1>12. PICK x : LoopInv(x, overlap) /\ Becomes(x)
  <2>1. CASE ~due
    <3>1. Becomes(Collect(s1))
      BY <1>8, <2>1 DEF s1
    <3>2. LoopInv(s1, overlap)
      BY <1>1, <1>10, <2>1, NotDueOK
    <3>3. LoopInv(Collect(s1), overlap)
      BY <1>1, <3>2, CollectOK
    <3> QED
      BY <3>1, <3>3
  <2>2. CASE due
    <3>1. PICK stops : Becomes(Collect(ProcessBatchResult(s1, stops)))
      BY <1>8, <1>11, <2>2 DEF s1
    <3>2. LoopInv(ProcessBatchResult(s1, stops), overlap)
      BY <1>1, <1>10, <2>2, DueOK
    <3> DEFINE s2 == ProcessBatchResult(s1, stops)
    <3> HIDE DEF s2
    <3>3. LoopInv(s2, overlap)
      BY <3>2 DEF s2
    <3>4. LoopInv(Collect(s2), overlap)
      BY <1>1, <3>3, CollectOK
    <3> QED
      BY <3>1, <3>4 DEF s2
  <2> QED
    BY <2>1, <2>2
<1>13. x \in StateType
  BY <1>12 DEF LoopInv, StageOK
<1>14. State' = x /\ overlap' = overlap
  BY <1>12, <1>13, BecomesState
<1>15. LoopInv(State', overlap')
  BY <1>12, <1>14
<1> QED
  BY <1>1, <1>14, <1>15 DEF LoopInvariant

\* A request that arrives between two passes.
LEMMA ArriveKeepsInv ==
  ASSUME LoopInvariant, NEW r \in Reqs, NEW input \in Lens, NEW want \in Wants,
         Arrive(r, input, want)
  PROVE  LoopInvariant'
<1> DEFINE q == Waiting(HandleGenerateRequest(input, want))
           s == State
           t == [s EXCEPT !.waiting_queue = Append(@, r), !.req = [@ EXCEPT ![r] = q]]
<1>1. overlap \in BOOLEAN /\ LoopInv(s, overlap)
  BY DEF LoopInvariant
<1>2. q \in ReqType /\ ReqOK(q) /\ q.st = "waiting" /\ q.inflight_middle_chunks = 0
  BY WaitingOK
<1>3. /\ req[r].st = "idle" /\ req' = [req EXCEPT ![r] = q]
      /\ waiting_queue' = Append(waiting_queue, r)
      /\ UNCHANGED <<overlap, chunked_req, pending_chunked_abort, running_batch, last_batch,
                     result_queue, fault>>
  BY DEF Arrive
<1> HIDE DEF q
<1>4. s.req[r].st = "idle"
  BY <1>3 DEF State
<1>5. State' = t
  <2> DEFINE w1 == Append(waiting_queue, r)
             f1 == [req EXCEPT ![r] = q]
  <2>1. s.waiting_queue = waiting_queue /\ s.req = req
    BY DEF State
  <2>2. t = [s EXCEPT !.waiting_queue = w1, !.req = f1]
    <3> HIDE DEF s
    <3> QED
      BY <2>1
  <2>3. waiting_queue' = w1 /\ req' = f1
    BY <1>3
  <2> HIDE DEF w1, f1, t
  <2> QED
    BY <1>3, <2>2, <2>3 DEF State
<1> HIDE DEF s
<1>6. LoopInv(t, overlap)
  BY <1>1, <1>2, <1>4, ArriveOK
<1>7. LoopInv(State', overlap')
  BY <1>3, <1>5, <1>6
<1> QED
  BY <1>1, <1>3, <1>7 DEF LoopInvariant

\* An abort that arrives between two passes.
LEMMA AbortKeepsInv ==
  ASSUME LoopInvariant, NEW r \in Reqs, Abort(r)
  PROVE  LoopInvariant'
<1> DEFINE s == State
           p == IF r = chunked_req THEN r ELSE pending_chunked_abort
           t == [s EXCEPT !.pending_chunked_abort = p]
<1>1. overlap \in BOOLEAN /\ LoopInv(s, overlap)
  BY DEF LoopInvariant
<1>2. s \in StateType /\ QueueOK(s.waiting_queue, s.req)
      /\ s.pending_chunked_abort \in {NoReq, s.chunked_req}
  BY <1>1 DEF LoopInv, StageOK
<1>3. /\ s.req = req /\ s.chunked_req = chunked_req /\ s.waiting_queue = waiting_queue
      /\ s.pending_chunked_abort = pending_chunked_abort
  BY DEF State
<1>4. p \in {NoReq, s.chunked_req}
  BY <1>2, <1>3
<1>5. /\ req[r].st \in {"waiting", "live"}
      /\ IF r \in ToSet(waiting_queue)
           THEN Becomes(Collect([t EXCEPT !.waiting_queue = Drop(@, {r}),
                                          !.req[r].st = "done"]))
           ELSE Becomes(AbortInFlight(t, r))
  BY DEF Abort, State
<1>6. s.req \in [Reqs -> ReqType] /\ s.waiting_queue \in Seq(Reqs)
  BY <1>2, StateFields
<1> HIDE DEF s, p
<1>7. PICK x : LoopInv(x, overlap) /\ Becomes(x)
  <2>1. CASE r \in ToSet(waiting_queue)
    <3>1. s.req[r].st = "waiting"
      BY <1>2, <1>3, <2>1 DEF QueueOK, Listed, ToSet
    <3>2. LoopInv(Collect([t EXCEPT !.waiting_queue = Drop(@, {r}), !.req[r].st = "done"]),
                  overlap)
      BY <1>1, <1>4, <3>1, AbortWaitingOK
    <3> QED
      BY <1>5, <2>1, <3>2
  <2>2. CASE r \notin ToSet(waiting_queue)
    <3> DEFINE f == s.req
               wq == s.waiting_queue
    <3>1. LoopInv([s EXCEPT !.waiting_queue = wq, !.req = f, !.pending_chunked_abort = p], overlap)
      <4>1. \A x \in Reqs : f[x] = s.req[x]
        OBVIOUS
      <4>2. f \in [Reqs -> ReqType] /\ wq \in Seq(Reqs) /\ QueueOK(wq, f)
        BY <1>2, <1>6
      <4> HIDE DEF f, wq
      <4> QED
        BY <1>1, <1>4, <4>1, <4>2, OthersChange
    <3>2. [s EXCEPT !.waiting_queue = wq, !.req = f, !.pending_chunked_abort = p] = t
      BY <1>2 DEF StateType
    <3>3. LoopInv(t, overlap) /\ t.req[r].st # "idle"
      BY <1>2, <1>3, <1>5, <3>1, <3>2 DEF StateType
    <3> HIDE DEF t
    <3>4. LoopInv(AbortInFlight(t, r), overlap)
      BY <1>1, <3>3, AbortInFlightOK
    <3> QED
      BY <1>5, <2>2, <3>4
  <2> QED
    BY <2>1, <2>2
<1>8. x \in StateType
  BY <1>7 DEF LoopInv, StageOK
<1>9. State' = x /\ overlap' = overlap
  BY <1>7, <1>8, BecomesState
<1>10. LoopInv(State', overlap')
  BY <1>7, <1>9
<1> QED
  BY <1>1, <1>9, <1>10 DEF LoopInvariant

\* Every step.
LEMMA NextOK == LoopInvariant /\ [Next]_vars => LoopInvariant'
<1>1. SUFFICES ASSUME LoopInvariant, [Next]_vars PROVE LoopInvariant'
  OBVIOUS
<1>2. CASE Iterate
  BY <1>1, <1>2, IterateOK
<1>3. ASSUME NEW r \in Reqs, NEW input \in Lens, NEW want \in Wants, Arrive(r, input, want)
      PROVE  LoopInvariant'
  BY <1>1, <1>3, ArriveKeepsInv
<1>4. ASSUME NEW r \in Reqs, Abort(r) PROVE LoopInvariant'
  BY <1>1, <1>4, AbortKeepsInv
<1>5. CASE UNCHANGED vars
  <2>1. State' = State /\ overlap' = overlap
    BY <1>5 DEF vars, State
  <2>2. LoopInv(State, overlap) /\ overlap \in BOOLEAN
    BY <1>1 DEF LoopInvariant
  <2>3. LoopInv(State', overlap')
    BY <2>1, <2>2
  <2> QED
    BY <2>1, <2>2, <2>3 DEF LoopInvariant
<1> QED
  BY <1>1, <1>2, <1>3, <1>4, <1>5 DEF Next

\* The invariant of the event loop holds between any two passes.
THEOREM SchedulerInvariant == Spec => []LoopInvariant
<1> QED
  BY InitOK, NextOK, PTL DEF Spec

\* The invariant in terms of the variables.
LEMMA LoopFields ==
  ASSUME LoopInvariant
  PROVE  /\ overlap \in BOOLEAN
         /\ waiting_queue \in Seq(Reqs) /\ QueueOK(waiting_queue, req)
         /\ chunked_req \in Reqs \cup {NoReq} /\ pending_chunked_abort \in {NoReq, chunked_req}
         /\ running_batch \in RunningType /\ last_batch \in BatchType
         /\ req \in [Reqs -> ReqType] /\ fault = {}
         /\ result_queue = Due(last_batch, overlap)
         /\ ChunkedOK(chunked_req, req) /\ BatchOK(State) /\ FlagOK(State)
         /\ \A r \in Reqs : ReqOK(req[r])
         /\ \A r \in Reqs : req[r].inflight_middle_chunks = One(overlap /\ r = chunked_req)
<1> DEFINE s == State
<1>1. /\ s.waiting_queue = waiting_queue /\ s.chunked_req = chunked_req
      /\ s.pending_chunked_abort = pending_chunked_abort /\ s.running_batch = running_batch
      /\ s.last_batch = last_batch /\ s.result_queue = result_queue /\ s.req = req
      /\ s.fault = fault
  BY DEF State
<1> HIDE DEF s
<1>2. overlap \in BOOLEAN /\ LoopInv(s, overlap)
  BY DEF LoopInvariant, s
<1>3. /\ StageOK(s) /\ BatchOK(s) /\ FlagOK(s)
      /\ s.pending_chunked_abort \in {NoReq, s.chunked_req}
      /\ s.result_queue = Due(s.last_batch, overlap)
      /\ \A r \in Reqs : s.req[r].inflight_middle_chunks = One(overlap /\ r = s.chunked_req)
  BY <1>2 DEF LoopInv
<1>4. /\ s \in StateType /\ s.fault = {} /\ QueueOK(s.waiting_queue, s.req)
      /\ ChunkedOK(s.chunked_req, s.req) /\ ReqsOK(s.req)
  BY <1>3 DEF StageOK
<1>5. /\ s.waiting_queue \in Seq(Reqs) /\ s.chunked_req \in Reqs \cup {NoReq}
      /\ s.running_batch \in RunningType /\ s.last_batch \in BatchType
      /\ s.req \in [Reqs -> ReqType]
  BY <1>4, StateFields
<1>6. \A r \in Reqs : ReqOK(s.req[r])
  BY <1>4 DEF ReqsOK
<1>7. BatchOK(State) /\ FlagOK(State)
  BY <1>3 DEF s
<1> QED
  BY <1>1, <1>2, <1>3, <1>4, <1>5, <1>6, <1>7

\* The results that are outstanding between two passes.
LEMMA OutstandingResults ==
  ASSUME LoopInvariant
  PROVE  /\ Len(result_queue) \in {0, 1} /\ DOMAIN result_queue = 1..Len(result_queue)
         /\ overlap /\ last_batch.mode # "none" => Len(result_queue) = 1
         /\ \A i \in DOMAIN result_queue :
              /\ i = 1 /\ overlap /\ last_batch.mode # "none"
              /\ DOMAIN result_queue[i] = last_batch.reqs
              /\ \A r \in last_batch.reqs : result_queue[i][r].ran = Ran(last_batch, r)
<1> DEFINE b == last_batch
           d == Due(last_batch, overlap)
<1>1. b \in BatchType /\ overlap \in BOOLEAN /\ result_queue = d
  BY LoopFields
<1>2. /\ d \in Seq(ResultType)
      /\ Len(d) = IF overlap /\ b.mode # "none" THEN 1 ELSE 0
      /\ overlap /\ b.mode # "none" => d[1] = Result(b)
      /\ DOMAIN Result(b) = b.reqs
      /\ \A r \in b.reqs : Result(b)[r].ran = Ran(b, r)
  BY <1>1, DueFacts
<1> HIDE DEF d
<1>3. DOMAIN d = 1..Len(d) /\ Len(d) \in {0, 1}
  BY <1>2
<1>4. ASSUME NEW i \in DOMAIN d
      PROVE  i = 1 /\ overlap /\ b.mode # "none"
  BY <1>2, <1>3, <1>4
<1> QED
  BY <1>1, <1>2, <1>3, <1>4

\* The invariant has the types.
LEMMA InvType == LoopInvariant => TypeOK
<1>1. SUFFICES ASSUME LoopInvariant PROVE TypeOK
  OBVIOUS
<1>2. /\ waiting_queue \in Seq(Reqs) /\ chunked_req \in Reqs \cup {NoReq}
      /\ pending_chunked_abort \in {NoReq, chunked_req} /\ running_batch \in RunningType
      /\ req \in [Reqs -> ReqType]
  BY <1>1, LoopFields
<1>3. Len(result_queue) =< 1
  <2>1. Len(result_queue) \in {0, 1}
    BY <1>1, OutstandingResults
  <2> QED
    BY <2>1
<1>4. ToSet(waiting_queue) \subseteq Reqs
  BY <1>2 DEF ToSet
<1>5. running_batch.reqs \subseteq Reqs /\ running_batch.batch_is_full \in BOOLEAN
  BY <1>2 DEF RunningType
<1>6. \A r \in Reqs : req[r].st \in {"idle", "waiting", "live", "done"}
  BY <1>2 DEF ReqType
<1> QED
  BY <1>2, <1>3, <1>4, <1>5, <1>6 DEF TypeOK

\* A request is in one place.
LEMMA InvScheduledOnce == LoopInvariant => ScheduledOnce
<1>1. SUFFICES ASSUME LoopInvariant, NEW r \in Reqs
      PROVE
    LET queued  == Cardinality({i \in DOMAIN waiting_queue : waiting_queue[i] = r})
        chunked == r = chunked_req
        merging == last_batch.mode = "extend" /\ r \in last_batch.reqs /\ ~chunked
        running == r \in running_batch.reqs
    IN  /\ queued = IF req[r].st = "waiting" THEN 1 ELSE 0
        /\ req[r].st = "waiting" => ~running /\ ~chunked
        /\ req[r].st = "live" => Cardinality({x \in {"chunked", "merging", "running"} :
              CASE x = "chunked" -> chunked [] x = "merging" -> merging
                [] x = "running" -> running}) = 1
  BY DEF ScheduledOnce
<1> DEFINE P == {i \in DOMAIN waiting_queue : waiting_queue[i] = r}
           chunked == r = chunked_req
           merging == last_batch.mode = "extend" /\ r \in last_batch.reqs /\ ~chunked
           running == r \in running_batch.reqs
           X == {x \in {"chunked", "merging", "running"} :
                  CASE x = "chunked" -> chunked [] x = "merging" -> merging
                    [] x = "running" -> running}
<1>2. /\ QueueOK(waiting_queue, req) /\ ChunkedOK(chunked_req, req) /\ BatchOK(State)
      /\ waiting_queue \in Seq(Reqs)
  BY <1>1, LoopFields
<1>3. /\ Distinct(waiting_queue)
      /\ req[r].st = "waiting" <=> Listed(waiting_queue, r)
  BY <1>1, <1>2 DEF QueueOK
<1>4. /\ last_batch.chunked_req = chunked_req /\ LastOK(last_batch)
      /\ InBatch(req, running_batch.reqs)
      /\ chunked_req # NoReq => chunked_req \notin running_batch.reqs
      /\ last_batch.mode = "extend" => last_batch.reqs \cap running_batch.reqs = {}
      /\ \A x \in Reqs : req[x].st = "live" =>
           x \in running_batch.reqs \/ (last_batch.mode = "extend" /\ x \in last_batch.reqs)
  BY <1>2 DEF BatchOK, State
<1>5. r # NoReq
  BY <1>1, NoReqFacts
<1>6. Cardinality(P) = IF req[r].st = "waiting" THEN 1 ELSE 0
  <2>1. CASE req[r].st = "waiting"
    <3>1. PICK i \in DOMAIN waiting_queue : waiting_queue[i] = r
      BY <1>3, <2>1 DEF Listed
    <3>2. P = {i}
      BY <1>3, <3>1 DEF Distinct
    <3>3. Cardinality({i}) = 1
      BY FS_Singleton
    <3> QED
      BY <2>1, <3>2, <3>3
  <2>2. CASE req[r].st # "waiting"
    <3>1. P = {}
      BY <1>3, <2>2 DEF Listed
    <3>2. Cardinality({}) = 0
      BY FS_EmptySet
    <3> QED
      BY <2>2, <3>1, <3>2
  <2> QED
    BY <2>1, <2>2
<1>7. req[r].st = "waiting" => ~running /\ ~chunked
  BY <1>2, <1>4, <1>5 DEF InBatch, ChunkedOK
<1>8. ASSUME req[r].st = "live"
      PROVE  Cardinality(X) = 1
  <2>0. /\ "chunked" \in X <=> chunked
        /\ "merging" \in X <=> merging
        /\ "running" \in X <=> running
        /\ X \subseteq {"chunked", "merging", "running"}
    OBVIOUS
  <2>1. \/ chunked /\ ~merging /\ ~running
        \/ ~chunked /\ merging /\ ~running
        \/ ~chunked /\ ~merging /\ running
    BY <1>1, <1>4, <1>5, <1>8
  <2> HIDE DEF X, chunked, merging, running
  <2>2. PICK x : X = {x}
    <3>1. CASE chunked /\ ~merging /\ ~running
      <4>1. X = {"chunked"}
        BY <2>0, <3>1
      <4> QED
        BY <4>1
    <3>2. CASE ~chunked /\ merging /\ ~running
      <4>1. X = {"merging"}
        BY <2>0, <3>2
      <4> QED
        BY <4>1
    <3>3. CASE ~chunked /\ ~merging /\ running
      <4>1. X = {"running"}
        BY <2>0, <3>3
      <4> QED
        BY <4>1
    <3> QED
      BY <2>1, <3>1, <3>2, <3>3
  <2>3. Cardinality({x}) = 1
    BY FS_Singleton
  <2> QED
    BY <2>2, <2>3
<1> QED
  BY <1>6, <1>7, <1>8

\* Between two passes at most the last batch is outstanding, and only the chunked
\* request has a middle chunk there.
LEMMA InvMiddleChunks == LoopInvariant => MiddleChunksCounted
<1>1. SUFFICES ASSUME LoopInvariant, NEW r \in Reqs
      PROVE  req[r].inflight_middle_chunks =
               Cardinality({i \in DOMAIN result_queue :
                     r \in DOMAIN result_queue[i] /\ result_queue[i][r].ran = "middle"})
  BY DEF MiddleChunksCounted
<1> DEFINE S == {i \in DOMAIN result_queue :
                   r \in DOMAIN result_queue[i] /\ result_queue[i][r].ran = "middle"}
<1>2. /\ req[r].inflight_middle_chunks = One(overlap /\ r = chunked_req)
      /\ BatchOK(State)
  BY <1>1, LoopFields
<1>3. last_batch.chunked_req = chunked_req /\ LastOK(last_batch)
  BY <1>2 DEF BatchOK, State
<1>4. r # NoReq
  BY <1>1, NoReqFacts
<1>5. /\ Len(result_queue) \in {0, 1} /\ DOMAIN result_queue = 1..Len(result_queue)
      /\ overlap /\ last_batch.mode # "none" => Len(result_queue) = 1
      /\ \A i \in DOMAIN result_queue :
           /\ i = 1 /\ overlap /\ last_batch.mode # "none"
           /\ DOMAIN result_queue[i] = last_batch.reqs
           /\ \A x \in last_batch.reqs : result_queue[i][x].ran = Ran(last_batch, x)
  BY <1>1, OutstandingResults
<1>6. CASE overlap /\ r = chunked_req
  <2>1. last_batch.mode = "extend" /\ r \in last_batch.reqs /\ Ran(last_batch, r) = "middle"
    BY <1>3, <1>4, <1>6 DEF LastOK, Ran
  <2>2. 1 \in DOMAIN result_queue
    BY <1>5, <1>6, <2>1
  <2>3. S = {1}
    BY <1>5, <2>1, <2>2
  <2>4. Cardinality({1}) = 1
    BY FS_Singleton
  <2> QED
    BY <1>2, <1>6, <2>3, <2>4 DEF One
<1>7. CASE ~(overlap /\ r = chunked_req)
  <2>1. ASSUME NEW i \in S PROVE FALSE
    <3>1. i \in DOMAIN result_queue /\ r \in DOMAIN result_queue[i]
          /\ result_queue[i][r].ran = "middle"
      BY <2>1
    <3>2. overlap /\ r \in last_batch.reqs /\ Ran(last_batch, r) = "middle"
      BY <1>5, <3>1
    <3>3. r = last_batch.chunked_req
      BY <3>2 DEF Ran
    <3> QED
      BY <1>3, <1>7, <3>2, <3>3
  <2>2. S = {}
    BY <2>1
  <2>3. Cardinality({}) = 0
    BY FS_EmptySet
  <2> QED
    BY <1>2, <1>7, <2>2, <2>3 DEF One
<1> QED
  BY <1>6, <1>7

\* A waiting request keeps the lengths it was admitted with.
LEMMA InvFits ==
  ASSUME Roomy
  PROVE  LoopInvariant => AcceptedFitsEmptyPool
<1>1. SUFFICES ASSUME LoopInvariant, NEW i \in DOMAIN waiting_queue
      PROVE  FitsEmptyPool(FillLen(req[waiting_queue[i]]),
                           Greatest(req[waiting_queue[i]].max_new - req[waiting_queue[i]].out, 0))
  BY DEF AcceptedFitsEmptyPool
<1> DEFINE r == waiting_queue[i]
           q == req[r]
<1>2. /\ waiting_queue \in Seq(Reqs) /\ QueueOK(waiting_queue, req)
      /\ req \in [Reqs -> ReqType] /\ \A x \in Reqs : ReqOK(req[x])
  BY <1>1, LoopFields
<1>3. r \in Reqs
  BY <1>1, <1>2
<1>4. q \in ReqType /\ ReqOK(q) /\ q.st = "waiting"
  BY <1>1, <1>2, <1>3 DEF QueueOK, Listed
<1> HIDE DEF q
<1>5. FillLen(q) + Greatest(q.max_new - q.out, 0) + PageSize < TokenCapacity
  BY <1>4, WaitingFits
<1> QED
  BY <1>5 DEF FitsEmptyPool, q

\* The flag of an empty running batch.
LEMMA InvFlag ==
  ASSUME Roomy
  PROVE  LoopInvariant => FullFlagHidesNothing
<1>1. SUFFICES ASSUME LoopInvariant, running_batch.reqs = {}, running_batch.batch_is_full,
                      last_batch = NoBatch
      PROVE  FALSE
  BY DEF FullFlagHidesNothing
<1>2. FlagOK(State)
  BY <1>1, LoopFields
<1>3. last_batch.mode = "extend"
  BY <1>1, <1>2 DEF FlagOK, State
<1> QED
  BY <1>1, <1>3 DEF NoBatch

\* Requests and batches keep their types between two passes, at most one
\* result is outstanding, and a pending abort is of the chunked request.
THEOREM SchedulerTypes == Spec => []TypeOK
  BY SchedulerInvariant, InvType, PTL

\* No request is lost and none is scheduled twice: the waiting queue lists a
\* waiting request once, and a live one is being chunked, running or in the
\* prefill batch about to be merged, and only one of these, in both loops.
THEOREM NoRequestLostOrDoubled == Spec => []ScheduledOnce
  BY SchedulerInvariant, InvScheduledOnce, PTL

\* inflight_middle_chunks counts the outstanding results of middle chunks.
THEOREM MiddleChunksAreCounted == Spec => []MiddleChunksCounted
  BY SchedulerInvariant, InvMiddleChunks, PTL

\* Neither prefill nor decode runs out of KV memory after its budget check,
\* the last request of a batch is never aborted, add_one_req never cuts two
\* requests, and no result is applied to the wrong request or chunk.
THEOREM SchedulerNeverFails == Spec => []NoFault
<1>1. LoopInvariant => NoFault
  BY LoopFields DEF NoFault
<1> QED
  BY <1>1, SchedulerInvariant, PTL

\* Whatever waits, retracted requests included, passes the first gate of
\* add_one_req once the pool is empty, if a page is at most five tokens or
\* the context leaves a page of the pool unused.
THEOREM WaitingRequestFits ==
  ASSUME Roomy
  PROVE  Spec => []AcceptedFitsEmptyPool
<1>1. LoopInvariant => AcceptedFitsEmptyPool
  BY InvFits
<1> QED
  BY <1>1, SchedulerInvariant, PTL

\* Under the same condition batch_is_full is never left set on an engine
\* with nothing in flight, so it hides no request.
THEOREM FullFlagIsHarmless ==
  ASSUME Roomy
  PROVE  Spec => []FullFlagHidesNothing
<1>1. LoopInvariant => FullFlagHidesNothing
  BY InvFlag
<1> QED
  BY <1>1, SchedulerInvariant, PTL
=============================================================================
