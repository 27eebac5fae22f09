---------------------------- MODULE SchedulerLoop ----------------------------
(***************************************************************************)
(* One iteration of event_loop_normal / event_loop_overlap after another:  *)
(* the waiting queue, the request being prefilled in chunks, the running   *)
(* batch with its batch_is_full flag, the batch launched last and the      *)
(* results not processed yet.  The scheduler is one thread, so an          *)
(* iteration is one step; requests and aborts come in between.             *)
(*                                                                         *)
(* Without prefix cache (RadixKV has that side): a request holds the pages *)
(* of its kv_allocated_len.  The policy is fcfs, and every request is cut  *)
(* by chunked_prefill_size.                                                *)
(***************************************************************************)
EXTENDS Admission, FiniteSets, Sequences, SequencesExt

CONSTANTS
  Reqs,         \* request slots, a set of naturals
  Lens,         \* prompt lengths clients send
  Wants,        \* max_new_tokens clients ask for
  ChunkSize,    \* chunked_prefill_size
  MaxRunning,   \* max_running_requests, and rows of req_to_token_pool
  Overlaps      \* {TRUE}: event_loop_overlap, {FALSE}: event_loop_normal, or both

ASSUME LoopAssumption ==
  /\ Reqs \subseteq Nat \ {0} /\ IsFiniteSet(Reqs)
  /\ Lens \subseteq Nat \ {0} /\ Wants \subseteq Nat
  /\ ChunkSize \in Nat /\ ChunkSize >= PageSize
  /\ MaxRunning \in Nat \ {0}
  /\ Overlaps \subseteq BOOLEAN

VARIABLES
  overlap,         \* enable_overlap: which of the two loops the server runs
  waiting_queue, chunked_req, pending_chunked_abort,
  running_batch,   \* [reqs, batch_is_full, is_prefill_only]
  last_batch,      \* [mode, reqs, chunked_req, is_prefill_only]
  result_queue,    \* launched batches: request -> [ran, stale]
  req,             \* the Req objects
  fault            \* RuntimeErrors, failed asserts, results misapplied

vars == <<overlap, waiting_queue, chunked_req, pending_chunked_abort, running_batch,
          last_batch, result_queue, req, fault>>

NoReq == 0
NoBatch == [mode |-> "none", reqs |-> {}, chunked_req |-> NoReq, is_prefill_only |-> FALSE]

\* st is "done" for a finished Req that a batch may still refer to.
Idle == [st |-> "idle", len |-> 0, max_new |-> 0, out |-> 0, kv |-> 0,
         inflight_middle_chunks |-> 0, to_finish |-> FALSE, is_retracted |-> FALSE]

Init ==
  /\ overlap \in Overlaps
  /\ waiting_queue = <<>>
  /\ chunked_req = NoReq
  /\ pending_chunked_abort = NoReq
  /\ running_batch = [reqs |-> {}, batch_is_full |-> FALSE, is_prefill_only |-> FALSE]
  /\ last_batch = NoBatch
  /\ result_queue = <<>>
  /\ req = [r \in Reqs |-> Idle]
  /\ fault = {}

State ==
  [waiting_queue |-> waiting_queue, chunked_req |-> chunked_req,
   pending_chunked_abort |-> pending_chunked_abort, running_batch |-> running_batch,
   last_batch |-> last_batch, result_queue |-> result_queue, req |-> req,
   fault |-> fault]

Becomes(s) ==
  /\ UNCHANGED overlap
  /\ waiting_queue' = s.waiting_queue
  /\ chunked_req' = s.chunked_req
  /\ pending_chunked_abort' = s.pending_chunked_abort
  /\ running_batch' = s.running_batch
  /\ last_batch' = s.last_batch
  /\ result_queue' = s.result_queue
  /\ req' = s.req
  /\ fault' = s.fault

Fail(s, cond, what) == IF cond THEN [s EXCEPT !.fault = @ \cup {what}] ELSE s

Available(s) ==
  TokenCapacity - SumFunctionOnSet([r \in Reqs |-> CeilPaged(s.req[r].kv)], Reqs)

FillLen(q) == q.len + q.out

Finished(s, r) == s.req[r].st = "done"

Finish(q) == [q EXCEPT !.st = "done", !.kv = 0]

-----------------------------------------------------------------------------
(* get_next_batch_to_run: the part before a batch is chosen *)

\* Abort method 3: a request of the running or the last batch ends with the
\* next result it gets.
AbortInFlight(s, r) ==
  IF r \in s.running_batch.reqs \cup s.last_batch.reqs /\ ~Finished(s, r)
    THEN [s EXCEPT !.req[r].to_finish = TRUE] ELSE s

\* Bug variant: the pending abort stays set.
ProcessPendingChunkedAbort_StaysSet(s0) ==
  LET r == s0.pending_chunked_abort
  IN  IF r = NoReq THEN s0
      ELSE IF s0.chunked_req # r THEN AbortInFlight(s0, r)
      ELSE [s0 EXCEPT !.chunked_req = NoReq,
                      !.req[r] = [Finish(s0.req[r]) EXCEPT !.to_finish = FALSE]]

ProcessPendingChunkedAbort(s0) ==
  LET r == s0.pending_chunked_abort
      s == [s0 EXCEPT !.pending_chunked_abort = NoReq]
  IN  IF r = NoReq THEN s
      ELSE IF s.chunked_req # r THEN AbortInFlight(s, r)
      ELSE [s EXCEPT !.chunked_req = NoReq,
                     !.req[r] = [Finish(s.req[r]) EXCEPT !.to_finish = FALSE]]

\* Bug variant: the request still being chunked is merged as well.
MergeLastBatch_WithChunked(s) ==
  IF s.last_batch.mode # "extend" THEN s
  ELSE [s EXCEPT !.running_batch.reqs =
                    @ \cup {r \in s.last_batch.reqs : ~Finished(s, r)}]

\* merge_batch
MergeBatch(run, kept, prefill_only) ==
  [run EXCEPT !.reqs = @ \cup kept, !.is_prefill_only = @ /\ prefill_only]

\* The last prefill batch joins the running batch, without the request that
\* is still being chunked; a batch that shrinks makes room.
MergeLastBatch(s) ==
  LET last == s.last_batch
      kept == {r \in last.reqs : /\ ~Finished(s, r)
                                 /\ r \notin {s.chunked_req, last.chunked_req}}
      run  == [s.running_batch EXCEPT !.batch_is_full = @ /\ kept = last.reqs]
  IN  IF last.mode # "extend" THEN s
      ELSE [s EXCEPT !.running_batch =
              IF kept = {} THEN run
              ELSE IF run.reqs = {}
                THEN [reqs |-> kept, batch_is_full |-> FALSE,
                      is_prefill_only |-> last.is_prefill_only]
              ELSE MergeBatch(run, kept, last.is_prefill_only)]

FilterBatch(s) ==
  [s EXCEPT !.running_batch.reqs = {r \in @ : ~Finished(s, r)}]

\* Bug variant: an empty running batch keeps its full flag.
ResetIfEmpty_KeepsFlag(s) == s

ResetIfEmpty(s) ==
  IF s.running_batch.reqs = {} THEN [s EXCEPT !.running_batch.batch_is_full = FALSE]
  ELSE s

FilterPrefillOnly(s) ==
  IF s.running_batch.is_prefill_only THEN ResetIfEmpty(FilterBatch(s)) ELSE s

-----------------------------------------------------------------------------
(* PrefillAdder *)

\* Rows and batch slots for new requests (get_num_allocatable_reqs).
NumAllocatableReqs(s) ==
  Least(MaxRunning - Cardinality(s.running_batch.reqs),
        MaxRunning - Cardinality({r \in Reqs : s.req[r].kv > 0}))

\* What the running requests may still generate; new_token_ratio scales it
\* down to anything from nothing to all of it.
RunningOffset(s) ==
  SumFunctionOnSet([r \in Reqs |-> Greatest(s.req[r].max_new - s.req[r].out, 0)],
                   s.running_batch.reqs)

\* The adder: run maps the chosen requests to the tokens they extend by.
Adder(s, offset) ==
  [avail |-> Available(s), total_offset |-> offset, current_offset |-> 0,
   rem_chunk |-> ChunkSize, run |-> <<>>, new_chunked |-> NoReq,
   full |-> s.running_batch.batch_is_full, stop |-> FALSE]

RemTotal(a) == a.avail - a.total_offset

With(f, x, v) == [y \in DOMAIN f \cup {x} |-> IF y = x THEN v ELSE f[y]]

\* _update_prefill_budget
Reserve(a, r, n, new) ==
  [a EXCEPT !.run = With(@, r, n),
            !.total_offset = @ + CeilPaged(n) + PageSize + new,
            !.current_offset = @ + CeilPaged(n) + PageSize,
            !.rem_chunk = @ - CeilPaged(n)]

\* budget_state: the verdict that ends the walk over the queue.
Verdict(a) ==
  LET no_token == RemTotal(a) =< 0 \/ a.avail - a.current_offset =< 0
  IN  [a EXCEPT !.full = @ \/ no_token, !.stop = no_token \/ a.rem_chunk =< 0]

\* A chunked request makes progress whatever the budget says.
AddChunkedReq(s, a) ==
  LET r     == s.chunked_req
      room  == Least(a.rem_chunk, RemTotal(a))
      limit == IF room > 0 THEN room ELSE a.rem_chunk
      left  == FillLen(s.req[r]) - s.req[r].kv
  IN  IF r = NoReq THEN a
      ELSE [Reserve(a, r, Least(left, limit), IF left > limit THEN 0 ELSE s.req[r].max_new)
              EXCEPT !.new_chunked = IF left > limit THEN r ELSE NoReq]

AddOneReq(s, a, r) ==
  LET q     == s.req[r]
      n     == FillLen(q)
      total == n + Greatest(q.max_new - q.out, 0) + PageSize
      cut   == FloorPaged(a.rem_chunk)
  IN  IF a.stop THEN a
      ELSE IF a.full \/ Cardinality(DOMAIN a.run) >= NumAllocatableReqs(s)
        THEN [a EXCEPT !.full = TRUE, !.stop = TRUE]
      ELSE IF total >= RemTotal(a) THEN [a EXCEPT !.full = TRUE, !.stop = TRUE]
      ELSE IF CeilPaged(n) =< a.rem_chunk THEN Verdict(Reserve(a, r, n, q.max_new))
      ELSE IF cut =< 0 THEN [a EXCEPT !.stop = TRUE]
      ELSE Verdict([Reserve(a, r, cut, 0) EXCEPT
                      !.new_chunked = IF @ = NoReq THEN r ELSE -1])

-----------------------------------------------------------------------------
(* Launching *)

\* Every request of the batch and what it runs.
Launch(s, batch, ran) ==
  [s EXCEPT !.result_queue =
              Append(@, [r \in batch.reqs |-> [ran |-> ran[r], stale |-> FALSE]]),
            !.last_batch = batch]

Extend(q, n) == [q EXCEPT !.st = "live", !.is_retracted = FALSE, !.kv = @ + n]

\* prepare_for_extend: KV slots for the tokens of each chosen request.
PrepareForExtend(s, run) ==
  LET s1 == [s EXCEPT !.req = [r \in Reqs |->
               IF r \in DOMAIN run THEN Extend(s.req[r], run[r]) ELSE s.req[r]]]
  IN  Fail(s1, Available(s1) < 0, "prefill out of memory")

\* What is left of a queue without the requests of R, in its order.
Drop(queue, R) ==
  FoldLeft(LAMBDA kept, r : IF r \in R THEN kept ELSE Append(kept, r), <<>>, queue)

StartMiddleChunk(q) == [q EXCEPT !.inflight_middle_chunks = @ + 1]

\* The batch of an adder that chose something; the request that is cut short
\* has one more middle chunk under way.
LaunchPrefill(s, a) ==
  LET R     == DOMAIN a.run
      mid   == a.new_chunked
      batch == [mode |-> "extend", reqs |-> R, chunked_req |-> mid,
                is_prefill_only |-> \A r \in R : s.req[r].max_new = 0]
      s1    == [s EXCEPT
        !.waiting_queue = Drop(@, R),
        !.chunked_req = mid,
        !.running_batch.batch_is_full = a.full,
        !.req = [r \in Reqs |->
                   IF r = mid THEN StartMiddleChunk(s.req[r]) ELSE s.req[r]]]
  IN  IF mid = -1 THEN Fail(s, TRUE, "two chunked requests")
      ELSE Launch(PrepareForExtend(s1, a.run), batch,
                  [r \in R |-> IF r = mid THEN "middle" ELSE "extend"])

\* check_decode_mem
NeedsPage(s, B) == {r \in B : s.req[r].kv % PageSize = 0}

DecodeFits(s, B) == Cardinality(NeedsPage(s, B)) * PageSize =< Available(s)

DecodeOne(q) == [q EXCEPT !.kv = @ + 1]

LaunchDecode(s) ==
  LET B  == s.running_batch.reqs
      s1 == [s EXCEPT !.req = [r \in Reqs |->
               IF r \in B THEN DecodeOne(s.req[r]) ELSE s.req[r]]]
  IN  Launch(Fail(s1, Available(s1) < 0, "decode out of memory"),
             [mode |-> "decode", reqs |-> B, chunked_req |-> NoReq,
              is_prefill_only |-> FALSE],
             [r \in B |-> "decode"])

\* release_req and reset_for_retract
ReleaseReq(q) == [q EXCEPT !.kv = 0, !.st = "waiting", !.is_retracted = TRUE,
                           !.inflight_middle_chunks = 0]

\* Results launched for a request that is retracted are void.
Void(batch, R) == [r \in DOMAIN batch |->
  IF r \in R THEN [batch[r] EXCEPT !.stale = TRUE] ELSE batch[r]]

Retract(s, R) ==
  [s EXCEPT !.running_batch.reqs = @ \ R,
            !.req = [r \in Reqs |-> IF r \in R THEN ReleaseReq(s.req[r]) ELSE s.req[r]],
            !.result_queue = [i \in DOMAIN @ |-> Void(@[i], R)]]

\* _get_decode_retraction_order, the request to keep first: most output,
\* then the shortest prompt (ties by slot).
KeepBefore(s, x, y) ==
  LET a == s.req[x]
      b == s.req[y]
  IN  \/ a.out > b.out
      \/ a.out = b.out /\ a.len < b.len
      \/ a.out = b.out /\ a.len = b.len /\ x < y

\* The k requests that are retracted before any other of B.
Worst(s, B, k) == {r \in B : Cardinality({x \in B : KeepBefore(s, r, x)}) < k}

RetractionOrder(s, R) ==
  [i \in 1..Cardinality(R) |->
     CHOOSE r \in R : Cardinality({x \in R : KeepBefore(s, r, x)}) = i - 1]

\* retract_decode: one request goes at least, until the rest fits or is one;
\* the last one is aborted when even it does not fit.
RetractDecode(s) ==
  LET B    == s.running_batch.reqs
      m    == Cardinality(B)
      ok(k) == k = m - 1 \/ (k > 0 /\ DecodeFits(Retract(s, Worst(s, B, k)), B \ Worst(s, B, k)))
      k    == Min({j \in 0..(m - 1) : ok(j)})
      R    == Worst(s, B, k)
      s1   == [Retract(s, R) EXCEPT
                 !.waiting_queue = @ \o RetractionOrder(s, R),
                 !.running_batch.batch_is_full = FALSE]
      last == CHOOSE r \in B \ R : TRUE
  IN  IF DecodeFits(s1, B \ R) THEN LaunchDecode(s1)
      ELSE LET s2 == Retract(s1, {last})
           IN  [Fail(s2, TRUE, "last request aborted") EXCEPT
                  !.req[last] = Finish(s2.req[last]), !.last_batch = NoBatch]

UpdateRunningBatch(s0) ==
  LET s == FilterBatch(s0)
      B == s.running_batch.reqs
  IN  IF B = {} THEN [ResetIfEmpty(s) EXCEPT !.last_batch = NoBatch]
      ELSE IF ~DecodeFits(s, B) THEN RetractDecode(s)
      ELSE LaunchDecode([s EXCEPT !.running_batch.batch_is_full =
                           @ /\ B = s0.running_batch.reqs])

\* _get_new_batch_prefill_raw, then decode if it gives nothing.
NextBatch(s, offset) ==
  LET skip == /\ s.chunked_req = NoReq
              /\ s.running_batch.batch_is_full \/ s.waiting_queue = <<>>
      full == s.chunked_req = NoReq /\ NumAllocatableReqs(s) =< 0
      a    == FoldLeft(LAMBDA x, r : AddOneReq(s, x, r),
                       AddChunkedReq(s, Adder(s, offset)), s.waiting_queue)
      nothing(f) ==
        LET s1 == [s EXCEPT !.running_batch.batch_is_full = f]
        IN  IF s.running_batch.reqs # {} /\ ~s.running_batch.is_prefill_only
              THEN UpdateRunningBatch(s1)
              ELSE [s1 EXCEPT !.last_batch = NoBatch]
  IN  IF skip THEN nothing(s.running_batch.batch_is_full)
      ELSE IF full THEN nothing(TRUE)
      ELSE IF DOMAIN a.run = {} THEN nothing(a.full)
      ELSE LaunchPrefill(s, a)

-----------------------------------------------------------------------------
(* process_batch_result *)

\* Append the sampled token; end on length, abort or any stop condition.
Commit(q, stops) ==
  LET q1 == [q EXCEPT !.out = @ + 1]
  IN  IF q1.to_finish \/ stops \/ q1.out >= q1.max_new THEN Finish(q1) ELSE q1

FinishMiddleChunk(q) == [q EXCEPT !.inflight_middle_chunks = @ - 1]

\* Bug variant: the result of a middle chunk does not count down.
ProcessOne_NoCountdown(q, e, stops) ==
  IF q.is_retracted \/ q.st = "done" \/ q.inflight_middle_chunks > 0
    THEN q ELSE Commit(q, stops)

\* Bug variant: the result of a request retracted since is not skipped.
ProcessOne_IgnoresRetraction(q, e, stops) ==
  IF q.st = "done" THEN q
  ELSE IF e.ran # "decode" /\ q.inflight_middle_chunks > 0 THEN FinishMiddleChunk(q)
  ELSE Commit(q, stops)

\* What result e of one request does to it.
ProcessOne(q, e, stops) ==
  LET middle == q.inflight_middle_chunks > 0
  IN  IF q.is_retracted \/ (q.st = "done" /\ (e.ran = "decode" \/ ~middle)) THEN q
      ELSE IF e.ran # "decode" /\ middle THEN FinishMiddleChunk(q)
      ELSE Commit(q, stops)

\* How result e, applied to q with the outcome q1, may be applied wrongly.
Misapplied(q, q1, e) ==
  {w \in {"last chunk dropped", "middle chunk committed", "stale result committed"} :
     \/ /\ w = "last chunk dropped" /\ e.ran = "extend"
        /\ q1.inflight_middle_chunks # q.inflight_middle_chunks
     \/ w = "middle chunk committed" /\ e.ran = "middle" /\ q1.out # q.out
     \/ w = "stale result committed" /\ e.stale /\ q1.out # q.out}

ProcessBatchResult(s, stops) ==
  LET batch   == Head(s.result_queue)
      then(r) == ProcessOne(s.req[r], batch[r], r \in stops)
  IN  [s EXCEPT
         !.req = [r \in Reqs |-> IF r \in DOMAIN batch THEN then(r) ELSE s.req[r]],
         !.fault = @ \cup UNION {Misapplied(s.req[r], then(r), batch[r]) :
                                   r \in DOMAIN batch},
         !.result_queue = Tail(@)]

\* Finished requests nobody refers to any more.
Collect(s) ==
  LET used == s.running_batch.reqs \cup s.last_batch.reqs \cup {s.chunked_req}
                \cup UNION {DOMAIN s.result_queue[i] : i \in DOMAIN s.result_queue}
  IN  [s EXCEPT !.req = [r \in Reqs |->
         IF Finished(s, r) /\ r \notin used THEN Idle ELSE s.req[r]]]

-----------------------------------------------------------------------------
\* One pass of the event loop.  With overlap the result of the batch before
\* is processed after the launch, without it the batch's own.
Iterate ==
  /\ fault = {}
  /\ LET s == FilterPrefillOnly(MergeLastBatch(ProcessPendingChunkedAbort(State)))
     IN  \E offset \in 0..RunningOffset(s) :
           LET s1  == NextBatch(s, offset)
               due == IF overlap THEN last_batch.mode # "none"
                      ELSE s1.last_batch.mode # "none"
           IN  IF ~due \/ s1.fault # {} THEN Becomes(Collect(s1))
               ELSE \E stops \in SUBSET DOMAIN Head(s1.result_queue) :
                      Becomes(Collect(ProcessBatchResult(s1, stops)))

Waiting(h) == [Idle EXCEPT !.st = "waiting", !.len = h.len, !.max_new = h.max_new,
                           !.to_finish = h.to_finish]

\* handle_generate_request
Arrive(r, input, want) ==
  /\ fault = {}
  /\ req[r].st = "idle"
  /\ req' = [req EXCEPT ![r] = Waiting(HandleGenerateRequest(input, want))]
  /\ waiting_queue' = Append(waiting_queue, r)
  /\ UNCHANGED <<overlap, chunked_req, pending_chunked_abort, running_batch, last_batch,
                 result_queue, fault>>

\* abort_request
Abort(r) ==
  /\ fault = {}
  /\ req[r].st \in {"waiting", "live"}
  /\ LET s == [State EXCEPT !.pending_chunked_abort =
                              IF r = chunked_req THEN r ELSE @]
     IN  IF r \in ToSet(waiting_queue)
           THEN Becomes(Collect([s EXCEPT !.waiting_queue = Drop(@, {r}),
                                          !.req[r].st = "done"]))
           ELSE Becomes(AbortInFlight(s, r))

Next ==
  \/ Iterate
  \/ \E r \in Reqs, input \in Lens, want \in Wants : Arrive(r, input, want)
  \/ \E r \in Reqs : Abort(r)

Spec == Init /\ [][Next]_vars

\* The event loop is a busy loop.  This is weak fairness of Iterate with its
\* ENABLED written out: what is in flight, or a queue that the flag does not
\* hide, makes an iteration change something, and only an iteration changes
\* a batch, the chunked request or the KV a request holds.
LoopHasWork ==
  /\ fault = {}
  /\ \/ running_batch.reqs # {} \/ last_batch # NoBatch \/ chunked_req # NoReq
     \/ waiting_queue # <<>> /\ ~running_batch.batch_is_full

LoopStep ==
  \/ <<running_batch, last_batch, result_queue, chunked_req>>'
       # <<running_batch, last_batch, result_queue, chunked_req>>
  \/ \E r \in Reqs : req'[r].kv # req[r].kv

FairSpec == Spec /\ ([]<>~LoopHasWork \/ []<><<LoopStep>>_vars)

-----------------------------------------------------------------------------
(* Properties *)

\* Requests and batches are as Scheduler keeps them between two passes.
TypeOK ==
  /\ ToSet(waiting_queue) \subseteq Reqs
  /\ chunked_req \in Reqs \cup {NoReq}
  /\ pending_chunked_abort \in {NoReq, chunked_req}
  /\ running_batch.reqs \subseteq Reqs
  /\ running_batch.batch_is_full \in BOOLEAN
  /\ \A r \in Reqs : req[r].st \in {"idle", "waiting", "live", "done"}
  /\ Len(result_queue) =< 1

\* A request is neither lost nor scheduled twice: a waiting one is queued
\* once and in no batch to come, a live one is being chunked, running, or in
\* the prefill batch that is about to be merged, and only one of these.
ScheduledOnce ==
  \A r \in Reqs :
    LET queued  == Cardinality({i \in DOMAIN waiting_queue : waiting_queue[i] = r})
        chunked == r = chunked_req
        merging == last_batch.mode = "extend" /\ r \in last_batch.reqs /\ ~chunked
        running == r \in running_batch.reqs
    IN  /\ queued = IF req[r].st = "waiting" THEN 1 ELSE 0
        /\ req[r].st = "waiting" => ~running /\ ~chunked
        /\ req[r].st = "live" => Cardinality({x \in {"chunked", "merging", "running"} :
              CASE x = "chunked" -> chunked [] x = "merging" -> merging
                [] x = "running" -> running}) = 1

\* inflight_middle_chunks is the number of middle chunks whose results are
\* outstanding, so the result of the last chunk is the one that is committed.
MiddleChunksCounted ==
  \A r \in Reqs :
    req[r].inflight_middle_chunks =
      Cardinality({i \in DOMAIN result_queue :
                     r \in DOMAIN result_queue[i] /\ result_queue[i][r].ran = "middle"})

\* No allocation that the budget approved runs out of memory, no assert
\* fails, and no result is applied to a request that was retracted since.
NoFault == fault = {}

\* Whatever enters the waiting queue can be admitted once the pool is empty;
\* max_new_tokens_for_memory promises to single out a prompt that cannot.
AcceptedFitsEmptyPool ==
  \A i \in DOMAIN waiting_queue :
    LET q == req[waiting_queue[i]]
    IN  FitsEmptyPool(FillLen(q), Greatest(q.max_new - q.out, 0))

\* batch_is_full only saves the prefill check: on an engine with nothing in
\* flight it never hides a request that the check would admit.
FullFlagHidesNothing ==
  (/\ running_batch.reqs = {} /\ running_batch.batch_is_full
   /\ last_batch = NoBatch /\ chunked_req = NoReq /\ waiting_queue # <<>>)
  => AddOneReq(State, [Adder(State, 0) EXCEPT !.full = FALSE],
               Head(waiting_queue)).run = <<>>

\* Once clients stop sending, every request comes to its end, whatever was
\* retracted, aborted or cut into chunks before.  (While they go on, prefill
\* comes before decode, and arrivals can hold a running request up for ever.)
EveryRequestEnds ==
  <>[][~\E r \in Reqs, input \in Lens, want \in Wants : Arrive(r, input, want)]_vars
    => <>[](\A r \in Reqs : req[r].st = "idle")
=============================================================================
