------------------------------- MODULE RadixKV -------------------------------
(***************************************************************************)
(* The life of a request's KV cache: admission against the prefix tree,    *)
(* chunked prefill, decode under memory pressure, retraction, abort and    *)
(* release, in one scheduler that may run one batch ahead of the results   *)
(* it has processed (event_loop_overlap).                                  *)
(*                                                                         *)
(* Pages come from PagePool: a set from which an allocation fails only     *)
(* when the set is too small.  Pages are interchangeable, so an allocation *)
(* takes the smallest ones.                                                *)
(***************************************************************************)
EXTENDS RadixTree

CONSTANTS
  Reqs,        \* requests, 1..n
  NumPages,    \* pages of the pool
  Sampled,     \* the tokens the model may sample
  Sent,        \* what clients send: origin_input_ids and max_new_tokens
  ChunkSize,   \* chunked_prefill_size
  Depth        \* batches launched before their result is processed: 2 with
               \* the overlap scheduler, 1 without

Pages == 1..NumPages

\* Requests come with a max_new_tokens that init_req_max_new_tokens has cut
\* down to what the empty pool holds (module Admission).
ASSUME PoolAssumption ==
  /\ Reqs \subseteq Nat /\ IsFiniteSet(Reqs)
  /\ NumPages \in Nat /\ Depth \in {1, 2}
  /\ ChunkSize \in Nat /\ ChunkSize >= PageSize
  /\ Sampled \subseteq Nat   \* token ids
  /\ \A q \in Sent : /\ q.ids \in Seq(Nat) /\ q.max_new \in Nat
                     /\ Len(q.ids) > 0 /\ q.max_new > 0
                     /\ Len(q.ids) + q.max_new + PageSize < NumPages * PageSize

VARIABLES
  tree,    \* the RadixCache
  free,    \* the allocator's available pages
  req,     \* req[r]: the Req and its ReqKvInfo
  queue,   \* result_queue: launched batches, [request -> what it ran]
  kv,      \* page -> the tokens its KV was computed from; <<>> while the page
           \* is free, when anything may be written over it
  fault    \* the RuntimeErrors, asserts and double frees met so far

vars == <<tree, free, req, queue, kv, fault>>

(***************************************************************************)
(* A request: st is where the scheduler holds it; toks are its prompt and  *)
(* the tokens sampled on the device, of which the first `known` have been  *)
(* processed (origin_input_ids + output_ids); row its req_to_token row in  *)
(* pages; kv_len is kv_allocated_len, which equals kv_committed_len        *)
(* without speculation; fill the extend_range end of its last prefill.     *)
(***************************************************************************)
NoReq == [st |-> "idle", plen |-> 0, max_new |-> 0, toks |-> <<>>, known |-> 0,
          row |-> <<>>, kv_len |-> 0, cache_protected_len |-> 0, last_node |-> Root,
          fill |-> 0]

Init ==
  /\ tree = EmptyTree
  /\ free = Pages
  /\ req = [r \in Reqs |-> NoReq]
  /\ queue = <<>>
  /\ kv = [p \in Pages |-> <<>>]
  /\ fault = {}

\* The scheduler state the cache operations work on.
State == [tree |-> tree, free |-> free, req |-> req, kv |-> kv, fault |-> fault]

Becomes(s) ==
  /\ tree' = s.tree
  /\ free' = s.free
  /\ req' = s.req
  /\ kv' = s.kv
  /\ fault' = s.fault

InState(st) == {r \in Reqs : req[r].st = st}
InFlight == UNION {DOMAIN queue[i] : i \in DOMAIN queue}
CanLaunch == Len(queue) < Depth /\ fault = {}

Ascending(S) ==
  [i \in 1..Cardinality(S) |-> CHOOSE x \in S : Cardinality({y \in S : y < x}) = i - 1]

Available(s) == Cardinality(s.free) * PageSize

-----------------------------------------------------------------------------
(* Freeing and eviction *)

FreePages(s, S) ==
  [s EXCEPT !.free = @ \cup S,
            !.kv = [p \in Pages |-> IF p \in S THEN <<>> ELSE @[p]],
            !.fault = @ \cup IF S \cap s.free # {} THEN {"double free"} ELSE {}]

\* Bug variant: the partial last page of the segment is not freed.
FreeSegment_FloorEnd(s, row, start, end) ==
  FreePages(s, {row[i] : i \in (start \div PageSize + 1)..(end \div PageSize)})

\* allocator.free_segment(kv_row[start:end], start_pos=start)
FreeSegment(s, row, start, end) ==
  IF start >= end THEN s
  ELSE FreePages([s EXCEPT !.fault = @ \cup
                    IF start % PageSize # 0 THEN {"unaligned segment"} ELSE {}],
                 {row[i] : i \in (start \div PageSize + 1)..(CeilAlign(end) \div PageSize)})

\* evict, with the nodes E the heap gave up.
Evict(s, E) ==
  [FreePages(s, {s.tree.value[p] : p \in ValuesOf(s.tree, E)})
     EXCEPT !.tree = DeleteLeaves(s.tree, E)]

\* evict_to_free_tokens: the states eviction for n tokens may lead to.
EvictToFreeTokens(s, n) ==
  {Evict(s, E) : E \in EvictChoices(s.tree, n - Available(s))}

\* An eviction that asks for more than there is drains the tree.
EvictAll(s) == Evict(s, Drained(s.tree))

-----------------------------------------------------------------------------
(* cache_unfinished_req and cache_finished_req *)

\* Bug variant: the row keeps the indices whose duplicates were just freed.
CacheUnfinishedReq_KeepsRow(s, r, n) ==
  LET q   == s.req[r]
      key == PageAligned(SubSeq(q.toks, 1, n))
      t1  == Insert(s.tree, key, q.row)
      s1  == FreeSegment(s, q.row, q.cache_protected_len, Len(Matched(s.tree, key)))
  IN  [s1 EXCEPT !.tree = IncLockRef(DecLockRef(t1, q.last_node), key),
                 !.req[r].cache_protected_len = Len(key),
                 !.req[r].last_node = key]

\* Give the page-aligned part of the first n tokens to the tree, free what
\* the tree already had, and read the row back from the tree.
CacheUnfinishedReq(s, r, n) ==
  LET q   == s.req[r]
      key == PageAligned(SubSeq(q.toks, 1, n))
      t1  == Insert(s.tree, key, q.row)
      m   == Matched(t1, key)
      s1  == FreeSegment(s, q.row, q.cache_protected_len, Len(Matched(s.tree, key)))
  IN  [s1 EXCEPT
         !.tree = IncLockRef(DecLockRef(SplitNode(t1, m), q.last_node), m),
         !.fault = @ \cup IF m # key THEN {"rematch shorter than key"} ELSE {},
         !.req[r].row = [i \in DOMAIN q.row |->
            IF i * PageSize > q.cache_protected_len /\ i * PageSize =< Len(m)
              THEN t1.value[PagePrefix(key, i)] ELSE q.row[i]],
         !.req[r].cache_protected_len = Len(m),
         !.req[r].last_node = m]

\* release_kv_cache: cache_finished_req, then the row goes back.
ReleaseRow(s, r) ==
  [s EXCEPT !.req[r].row = <<>>, !.req[r].kv_len = 0,
            !.req[r].cache_protected_len = 0, !.req[r].last_node = Root,
            !.req[r].fill = 0]

\* is_insert = FALSE: only the protected prefix stays, with the tree.
ReleaseNoInsert(s, r) ==
  LET q == s.req[r]
  IN  ReleaseRow([FreeSegment(s, q.row, q.cache_protected_len, q.kv_len)
                    EXCEPT !.tree = DecLockRef(@, q.last_node)], r)

\* The second insert only cuts the fresh leaf at the prompt boundary.
SplitAtPrompt(t, key, prompt, row) ==
  IF 0 < Len(prompt) /\ Len(prompt) < Len(key) THEN Insert(t, prompt, row) ELSE t

\* Bug variant: the row is freed although the tree took it over.
ReleaseInsert_FreesRow(s, r) ==
  LET q   == s.req[r]
      key == PageAligned(SubSeq(q.toks, 1, Min({q.kv_len, q.known})))
  IN  ReleaseRow([FreeSegment(s, q.row, q.cache_protected_len, q.kv_len)
                    EXCEPT !.tree = DecLockRef(Insert(@, key, q.row), q.last_node)], r)

ReleaseInsert(s, r) ==
  LET q      == s.req[r]
      owned  == q.kv_len
      ids    == SubSeq(q.toks, 1, Min({owned, q.known}))
      key    == PageAligned(ids)
      prompt == PageAligned(SubSeq(ids, 1, Min({q.plen, Len(ids)})))
      dup    == Len(Matched(s.tree, key))
      t1     == SplitAtPrompt(Insert(s.tree, key, q.row), key, prompt, q.row)
      s1     == FreeSegment(FreeSegment(s, q.row, q.cache_protected_len, dup),
                            q.row, Len(key), owned)
  IN  ReleaseRow([s1 EXCEPT !.tree = DecLockRef(t1, q.last_node)], r)

-----------------------------------------------------------------------------
(* Arrival and admission *)

\* A client sends a request (the slots are reused once one is over).
Arrive(r, q) ==
  /\ fault = {}
  /\ req[r].st = "idle"
  /\ r \notin InFlight
  /\ req' = [req EXCEPT ![r] = [NoReq EXCEPT !.st = "waiting", !.plen = Len(q.ids),
                                            !.max_new = q.max_new, !.toks = q.ids,
                                            !.known = Len(q.ids)]]
  /\ UNCHANGED <<tree, free, queue, kv, fault>>

\* init_next_round_input: at least one token is left to compute.
PrefixOf(r) == Matched(tree, PageAligned(Front(req[r].toks)))

\* add_one_req: the prompt's prefix is pinned while the budget is read, so
\* the request cannot count on evicting what it is about to use.
Admission(r) == IncLockRef(SplitNode(tree, PrefixOf(r)), PrefixOf(r))

\* Bug variant: a retracted request is charged for the tokens it has.
TotalTokens_ChargesOutput(r) ==
  Len(req[r].toks) - Len(PrefixOf(r)) + req[r].max_new + PageSize

TotalTokens(r) ==
  Len(req[r].toks) - Len(PrefixOf(r))
    + Max({req[r].max_new - (req[r].known - req[r].plen), 0}) + PageSize

\* Bug variant: the budget is read before the prefix is pinned.
HasBudget_Unpinned(r) == TotalTokens(r) < Available(State) + tree.evictable_size_

HasBudget(r) == TotalTokens(r) < Available(State) + Admission(r).evictable_size_

\* The n smallest available pages.
TakePages(s, n) == SubSeq(Ascending(s.free), 1, n)

\* The device writes KV for tokens from+1 .. to of a row.
WriteKV(mem, row, toks, from, to) ==
  [p \in Pages |->
     LET at == {i \in (from \div PageSize + 1)..(CeilAlign(to) \div PageSize) :
                  row[i] = p}
     IN  IF at = {} THEN mem[p]
         ELSE SubSeq(toks, 1, Min({Max(at) * PageSize, to}))]

\* alloc_for_extend evicts for the extension and a page per request, then
\* run_batch launches it; the last chunk samples a token.
ExtendDemand(n) == n + IF PageSize = 1 THEN 0 ELSE PageSize

LaunchExtend(s0, r, prefix, n) ==
  \E s \in EvictToFreeTokens(s0, ExtendDemand(n)), t \in Sampled :
    LET q     == s.req[r]
        need  == (CeilAlign(prefix + n) - CeilAlign(prefix)) \div PageSize
        row   == q.row \o TakePages(s, need)
        whole == prefix + n = Len(q.toks)
    IN  IF need > Cardinality(s.free)
          THEN /\ Becomes([s EXCEPT !.fault = @ \cup {"prefill out of memory"}])
               /\ UNCHANGED queue
          ELSE /\ Becomes([s EXCEPT
                    !.free = @ \ ToSet(TakePages(s, need)),
                    !.kv = WriteKV(@, row, q.toks, prefix, prefix + n),
                    !.req[r] = [q EXCEPT
                       !.st = IF whole THEN "running" ELSE "chunked",
                       !.row = row, !.kv_len = prefix + n, !.fill = prefix + n,
                       !.toks = IF whole THEN Append(@, t) ELSE @]])
               /\ queue' = Append(queue, [x \in {r} |-> IF whole THEN "extend" ELSE "chunk"])

\* A fresh request starts on a page, and its chunks end on one.
FirstChunk(rest) ==
  IF CeilAlign(rest) > ChunkSize THEN FloorAlign(ChunkSize) ELSE rest

\* Prefill comes first, and an unfinished chunked request before any other.
AddOneReq(r) ==
  LET m == PrefixOf(r)
  IN  /\ CanLaunch
      /\ req[r].st = "waiting"
      /\ r \notin InFlight
      /\ InState("chunked") = {}
      /\ HasBudget(r)
      /\ LaunchExtend(
           [State EXCEPT
              !.tree = Admission(r),
              !.req[r].row = [i \in 1..(Len(m) \div PageSize) |->
                                tree.value[PagePrefix(m, i)]],
              !.req[r].cache_protected_len = Len(m),
              !.req[r].last_node = m],
           r, Len(m), FirstChunk(Len(req[r].toks) - Len(m)))

\* NO_TOKEN: the request stays in the queue; the match has split the tree.
RejectReq(r) ==
  /\ CanLaunch
  /\ req[r].st = "waiting"
  /\ r \notin InFlight
  /\ InState("chunked") = {}
  /\ ~HasBudget(r)
  /\ tree' = SplitNode(tree, PrefixOf(r))
  /\ UNCHANGED <<free, req, queue, kv, fault>>

\* stash_chunked_request and add_chunked_req: the next chunk is cut by the
\* budget that is left at any token, page boundary or not.
NextChunk(r, n) ==
  LET prefix == req[r].kv_len
  IN  /\ CanLaunch
      /\ req[r].st = "chunked"
      /\ n =< Len(req[r].toks) - prefix
      /\ LaunchExtend(CacheUnfinishedReq(State, r, prefix), r, prefix, n)

-----------------------------------------------------------------------------
(* Decode and retraction *)

\* Bug variant: every row of a decode batch gets a page.
NeedsPage_EveryRow(s, B) == B

\* new_tokens_required_next_decode
NeedsPage(s, B) == {r \in B : s.req[r].kv_len % PageSize = 0}

\* check_decode_mem: the need fits once everything evictable is evicted.
CheckDecodeMem(s, B) ==
  Cardinality(NeedsPage(s, B)) * PageSize =< Available(EvictAll(s))

\* The device writes the KV of one more token of every row of a decode batch.
WriteSlots(mem, row, reqs, B) ==
  [p \in Pages |->
     LET at == {r \in B : row[r][reqs[r].kv_len \div PageSize + 1] = p}
         r  == CHOOSE x \in at : TRUE
     IN  IF at = {} THEN mem[p] ELSE SubSeq(reqs[r].toks, 1, reqs[r].kv_len + 1)]

\* prepare_for_decode and run_batch: every row gets the slot of the token
\* sampled last, and the device samples the next.
LaunchDecode(s0, B) ==
  \E s \in EvictToFreeTokens(s0, Cardinality(B) * PageSize), t \in [B -> Sampled] :
    LET N     == NeedsPage(s, B)
        pages == TakePages(s, Cardinality(N))
        rank(r) == Cardinality({x \in N : x =< r})
        row   == [r \in B |-> IF r \in N THEN Append(s.req[r].row, pages[rank(r)])
                              ELSE s.req[r].row]
    IN  IF Cardinality(N) > Cardinality(s.free)
          THEN /\ Becomes([s EXCEPT !.fault = @ \cup {"decode out of memory"}])
               /\ UNCHANGED queue
          ELSE /\ Becomes([s EXCEPT
                    !.free = @ \ ToSet(pages),
                    !.kv = WriteSlots(@, row, s.req, B),
                    !.req = [r \in Reqs |->
                       IF r \notin B THEN s.req[r]
                       ELSE [s.req[r] EXCEPT !.row = row[r], !.kv_len = @ + 1,
                                             !.toks = Append(@, t[r])]]])
               /\ queue' = Append(queue, [r \in B |-> "decode"])

UpdateRunningBatch ==
  /\ CanLaunch
  /\ InState("chunked") = {}
  /\ InState("running") # {}
  /\ CheckDecodeMem(State, InState("running"))
  /\ LaunchDecode(State, InState("running"))

\* release_req: KV freed without caching, back to the queue with the tokens
\* that were processed; a token still in flight is lost.
Requeue(s, r) ==
  [s EXCEPT !.req[r].st = "waiting",
            !.req[r].toks = SubSeq(@, 1, s.req[r].known)]

\* SGLANG_RETRACT_DECODE_STEPS tokens per request that stays are more than
\* the pools of the instances hold, so each release_req drains the tree.
Retract(s, R) ==
  FoldSet(LAMBDA r, x : EvictAll(Requeue(ReleaseNoInsert(x, r), r)), EvictAll(s), R)

\* retract_decode with R the requests it popped: at least one, unless only
\* one request runs; each but the last because the rest did not fit.
RetractChoices(s, B) ==
  {R \in SUBSET B :
     /\ R # B
     /\ R # {} \/ Cardinality(B) = 1
     /\ Cardinality(B \ R) = 1 \/ CheckDecodeMem(Retract(s, R), B \ R)
     /\ \/ Cardinality(R) =< 1
        \/ \E r \in R : ~CheckDecodeMem(Retract(s, R \ {r}), (B \ R) \cup {r})}

\* A request that cannot even run alone is aborted; without another holder
\* of KV in the pool that is a failure of the admission budget.
RetractDecode ==
  LET B == InState("running")
  IN  /\ CanLaunch
      /\ InState("chunked") = {}
      /\ B # {}
      /\ ~CheckDecodeMem(State, B)
      /\ \E R \in RetractChoices(State, B) :
           LET s == Retract(State, R)
               r == CHOOSE x \in B \ R : TRUE
           IN  IF CheckDecodeMem(s, B \ R)
                 THEN LaunchDecode(s, B \ R)
                 ELSE /\ Becomes([ReleaseNoInsert(s, r) EXCEPT
                           !.req[r] = NoReq,
                           !.fault = @ \cup {"last request aborted"}])
                      /\ UNCHANGED queue

-----------------------------------------------------------------------------
(* Results, aborts, flush *)

\* process_batch_result_prefill / _decode for one request of the batch.  A
\* request that finished, was retracted or aborted since the launch is
\* skipped, and a middle chunk has no token to append.
ProcessOne(s, r, ran, finished) ==
  LET s1 == [s EXCEPT !.req[r].known = @ + 1]
  IN  IF s.req[r].st # "running" \/ ran = "chunk" THEN s
      ELSE IF finished
             THEN [ReleaseInsert(s1, r) EXCEPT !.req[r] = NoReq]
             ELSE IF ran = "extend" THEN CacheUnfinishedReq(s1, r, s.req[r].fill)
                  ELSE s1

\* update_finish_state: length reached, or a stop token, stop string, abort.
MustFinish(r) == req[r].known + 1 - req[r].plen >= req[r].max_new

ProcessBatchResult ==
  /\ queue # <<>> /\ fault = {}
  /\ LET batch == Head(queue)
         live  == {r \in DOMAIN batch : req[r].st = "running" /\ batch[r] # "chunk"}
     IN  \E fin \in SUBSET live :
           /\ \A r \in live : MustFinish(r) => r \in fin
           /\ Becomes(FoldLeft(LAMBDA s, r : ProcessOne(s, r, batch[r], r \in fin),
                               State, Ascending(DOMAIN batch)))
  /\ queue' = Tail(queue)

\* abort_request on a waiting request: dropped, it holds no KV.
AbortWaiting(r) ==
  /\ fault = {}
  /\ req[r].st = "waiting"
  /\ req' = [req EXCEPT ![r] = NoReq]
  /\ UNCHANGED <<tree, free, queue, kv, fault>>

\* process_pending_chunked_abort
AbortChunked(r) ==
  /\ fault = {}
  /\ req[r].st = "chunked"
  /\ Becomes([ReleaseNoInsert(State, r) EXCEPT !.req[r] = NoReq])
  /\ UNCHANGED queue

\* flush_cache, refused unless the scheduler is idle.
FlushCache ==
  /\ fault = {}
  /\ InState("idle") = Reqs
  /\ queue = <<>>
  /\ tree # EmptyTree
  /\ tree' = EmptyTree
  /\ free' = Pages
  /\ kv' = [p \in Pages |-> <<>>]
  /\ UNCHANGED <<req, queue, fault>>

Next ==
  \/ \E r \in Reqs, q \in Sent : Arrive(r, q)
  \/ \E r \in Reqs : AddOneReq(r)
  \/ \E r \in Reqs : RejectReq(r)
  \/ \E r \in Reqs, n \in 1..ChunkSize : NextChunk(r, n)
  \/ UpdateRunningBatch
  \/ RetractDecode
  \/ ProcessBatchResult
  \/ \E r \in Reqs : AbortWaiting(r)
  \/ \E r \in Reqs : AbortChunked(r)
  \/ FlushCache

Spec == Init /\ [][Next]_vars

\* The event loop never sleeps while it has a batch to launch or a result to
\* process; which of the two comes first, and whose request, is its policy.
\* This is weak fairness of the loop, whose every step changes result_queue,
\* with its ENABLED written out.
LoopHasWork ==
  /\ fault = {}
  /\ \/ queue # <<>>
     \/ InState("chunked") # {}
     \/ InState("running") # {}
     \/ \E r \in InState("waiting") : HasBudget(r)

EventLoopStep == queue' # queue

FairSpec == Spec /\ ([]<>~LoopHasWork \/ []<><<EventLoopStep>>_vars)

-----------------------------------------------------------------------------
(* Properties *)

\* A row has exactly the pages of kv_allocated_len, last_node is in the tree, and
\* the overlap scheduler runs at most Depth batches ahead.
TypeOK ==
  /\ free \subseteq Pages
  /\ \A r \in Reqs :
       /\ req[r].st \in {"idle", "waiting", "chunked", "running"}
       /\ ToSet(req[r].row) \subseteq Pages
       /\ Len(req[r].row) * PageSize = CeilAlign(req[r].kv_len)
       /\ req[r].last_node \in tree.nodes \cup {Root}
  /\ DOMAIN tree.lock_ref = tree.nodes
  /\ Len(queue) =< Depth

Live == InState("chunked") \cup InState("running")
TreePages == {tree.value[p] : p \in DOMAIN tree.value}
OwnPages(r) ==
  {req[r].row[i] : i \in (req[r].cache_protected_len \div PageSize + 1)..Len(req[r].row)}

\* The page census of _check_kv_page_invariants: the free pool, the tree and
\* the unprotected rows of the live requests never share a page, and the
\* tree does not hold one page under two prefixes.
OneOwnerPerPage ==
  /\ free \cap TreePages = {}
  /\ \A p, q \in DOMAIN tree.value : tree.value[p] = tree.value[q] => p = q
  /\ \A r \in Live : OwnPages(r) \cap (free \cup TreePages) = {}
  /\ \A r, s \in Live : r # s => OwnPages(r) \cap OwnPages(s) = {}

\* invariant_checker: available + evictable + protected + uncached = total,
\* after every step, the ones between a launch and its result included.
NoMemoryLeak ==
  Available(State) + tree.evictable_size_ + tree.protected_size_
    + SumFunctionOnSet([r \in Reqs |-> CeilAlign(req[r].kv_len)
                                        - req[r].cache_protected_len], Live)
  = NumPages * PageSize

\* Splits, inserts and retractions keep every lock_ref equal to the number
\* of live requests whose last_node lies at or below the node.
LocksAreHolders ==
  \A n \in tree.nodes :
    tree.lock_ref[n] = Cardinality({r \in Live : IsPrefix(n, req[r].last_node)})

\* The incremental counters and the leaf set are what a walk of the tree
\* would compute, so evict can really deliver evictable_size() tokens.
CountersExact ==
  /\ tree.evictable_size_ = SizeOf(tree, {n \in tree.nodes : tree.lock_ref[n] = 0})
  /\ tree.protected_size_ = SizeOf(tree, {n \in tree.nodes : tree.lock_ref[n] > 0})
  /\ tree.evictable_leaves =
       {n \in tree.nodes : tree.lock_ref[n] = 0 /\ Descendants(tree, n) = {}}

\* Two children of a node never start with the same page, so a lookup by
\* child_key cannot miss a cached prefix.
SiblingsDiffer ==
  \A m, n \in tree.nodes :
    PageAligned(LongestCommonPrefix({m, n})) \in tree.nodes \cup {Root}

\* The point of a prefix cache: whatever page a request reads was computed
\* from its own tokens, and whatever the tree offers under a prefix was
\* computed from that prefix.
KVMatchesTokens ==
  /\ \A p \in DOMAIN tree.value : kv[tree.value[p]] = p
  /\ \A r \in Live : \A i \in DOMAIN req[r].row :
       kv[req[r].row[i]] =
         SubSeq(req[r].toks, 1, Min({i * PageSize, req[r].kv_len}))

\* No RuntimeError out of an allocation the budget had approved, no failed
\* assert, no double free.
NoFault == fault = {}

\* Once clients stop sending, every request comes to its end: retraction and
\* re-admission do not chase each other for ever, no chunked prefill is
\* stranded and no launched batch stays unprocessed.
DrainsWhenQuiet ==
  <>[][~\E r \in Reqs, q \in Sent : Arrive(r, q)]_vars
    => <>[](InState("idle") = Reqs /\ queue = <<>>)
=============================================================================
