# TLA+ models of the sglang serving core

This directory models the part of the repository on which a correct answer
depends most: the scheduler process of one engine, and the KV memory it hands to
requests, together with three places where another party has to agree with it:
the worker whose compressed attention state follows the idle pin, the
prefill engine that writes KV into the pages of a decode engine, and the tokenizer
process that loads and unloads LoRA adapters under running requests. It holds TLA+
modules, the TLC configurations that check them on small instances, and TLAPS proofs
of what must hold for every pool and page size.
`PROJECT.json` maps every definition to the lines it models.

## 1. Inventory of the system

An engine is a tokenizer process, one scheduler process per rank and a
detokenizer process. The scheduler is a single thread running
`event_loop_overlap` (or `event_loop_normal`). In each pass it receives requests
and aborts, chooses a batch, launches it on the device, and processes a result;
with overlap that is the result of the batch *before* the one it has just
launched, so every decision is taken one result behind the device.

| Component | State | Operations | Talks to | What makes it correct |
|---|---|---|---|---|
| Paged KV allocator (`mem_cache/allocator`) | `free_pages`, `staged_pages`, `free_group`, `free_page_ids_group` | `alloc`, `alloc_extend`, `alloc_decode`, `free`, `free_segment`, free groups, `clear` | called by `allocation.py`, `common.py`, the prefix cache | a page has one owner, none is lost or freed twice, an allocation fails only for want of pages |
| Index kernels (`kernels/ops/memory/allocator.py`) | none | `alloc_extend_kernel`, `alloc_decode_kernel`, the torch reference, `get_num_new_pages` | read the head of `free_pages`, which the allocator then cuts | all of them compute the same assignment and the same page count |
| Radix prefix cache (`radix_cache.py`) | tree of token edges, `lock_ref`, two size counters, leaf set | match, split, insert, lock, evict, `cache_finished_req`, `cache_unfinished_req`, `reset` | scheduler, adder, allocator | locks are exactly the holders, counters are exact, KV under a prefix was computed from that prefix |
| Request KV life cycle (`allocation.py`, `common.py`) | `req_to_token` rows, `ReqKvInfo` | `alloc_for_extend`, `alloc_for_decode`, `release_kv_cache` | both of the above | pages of a row are exactly those of its tokens, released once |
| Admission of lengths (`utils.py`, `tp_worker.py`, `scheduler.py`) | none | clip `max_new_tokens`, validate or truncate | scheduler | what is queued can run |
| Scheduler loop (`scheduler.py`) | `waiting_queue`, `chunked_req`, `pending_chunked_abort`, `running_batch`, `last_batch`, `result_queue` | `get_next_batch_to_run`, `update_running_batch`, `process_batch_result`, `abort_request`, `flush_cache` | everything | a request is in one place, ends, and gets only its own results |
| Prefill admission (`schedule_policy.py`, `prefill_budget.py`) | the budget of one pass | `add_one_req`, `add_chunked_req`, `budget_state` | scheduler, prefix cache | an approved batch does not run out of memory |
| Batches (`schedule_batch.py`) | request lists, `batch_is_full`, `inflight_middle_chunks`, `is_retracted` | filter, merge, prepare, `check_decode_mem`, `retract_decode` | scheduler | retraction frees and re-queues exactly what does not fit |
| Result processing (`batch_result_processor.py`) | none | prefill and decode results | scheduler, prefix cache | late results of retracted, finished or half-prefilled requests are dropped |
| Sticky last-sequence cache (`sticky_last_sequence.py`) | the pinned row with its ids, key and cuts | match (exact, cut, saved session), finished, unfinished, aborted, flush | scheduler, CSA2 store through the handoff | every prefix it offers has KV and an image |
| CSA2 boundary store (`sm70_csa2_boundary.py`) | resident end, tip, snapshots by length | hooks before and after a forward, freeze, relabel, restore | DSpark worker | a forward starts on the image of its own tokens |
| CSA2 sessions (`sm70_csa2_session.py`) | a catalog and an image file per conversation | remember, save, load, evict | both of the above | an entry that has an image can be resumed |
| KV transfer (`disaggregation/`) | room status on either side, transfer queue, outstanding count, acknowledgement targets and trackers, held releases | bootstrap, chunk transfer, conclude, abort from either side, drain acknowledgement, deferred release | two engines, five threads, sockets | pages given back are written by no one; a served request has all its KV |
| LoRA registry (`lora_registry.py`, `tokenizer_control_mixin.py`, parts of `tokenizer_manager.py`) | names in LRU order, a usage counter per adapter id, `lora_update_lock` | load, unload, implicit load, eviction, acquire, release | clients, requests, the LoRA manager of every rank | an adapter in use stays loaded, one that is not can be unloaded |
| LoRA drainer (`lora_drainer.py`) | `is_draining_for` per adapter | `update_draining_state`, `can_schedule` | the prefill pass of the scheduler | adapters in a batch fit its slots, and none starves |

Not modelled: streaming sessions, HiCache and the other prefix caches, the rest of the
tokenizer/detokenizer managers, the data-parallel controller, the
gateway (section 6 and `PROJECT.json` give the reason for each). Model execution
enters only as the tokens it may sample and the KV or image it writes.

**What is hard here.** Nothing is preempted inside the scheduler, so the
difficulty there is not locks; it is state that is *stale by one result*. A request is
retracted, aborted or finished while a batch with it is on the device. Chunks of
one prompt are launched before the result of the chunk before. A tree node is
split while others hold it. A budget counts memory as evictable that the same
request is about to pin. Counters are kept by increments over thousands of steps,
and page arithmetic is done in several places that must agree on partial pages.
The sticky cache adds a second bookkeeper: scheduler and worker each keep a list of
stops, updated at different times and from different data. Disaggregation adds
threads and messages: a page is safe to reuse only if no thread of another machine
is between looking at a room and writing for it. The LoRA registry is asyncio: what one
task read before an `await` another may have changed after it, and a use is counted in
one place and given back in several.
The hazards in `PROJECT.json` name the line of each.

## 2. Modules

```
PagePool <---implements--- PagedAllocator <--- PagedAllocatorProofs
   ^
   | (pages are taken from it)    AllocExtend <--- AllocExtendProofs
   |
RadixTree <--- RadixKV            Admission <--- SchedulerLoop <--- SchedulerLoopProofs
   ^              ^
RadixTreeProofs <-+- RadixKVProofs

Csa2Boundary <--- Csa2Session <--- StickyLastSequence

DecodeDrain <--- DecodeDrainProofs
LoRARegistry <--- LoRARegistryProofs        LoRADrainer

SetSums <--- all the *Proofs modules but DecodeDrainProofs
```

`MC*` modules instantiate these for TLC. Operators whose comment starts with
"Bug variant" are not part of any specification: each is a plausible mistake in
the definition that follows, used to show that a property notices it.

**PagePool** is the promise of an allocator: pages are available, owned by one
row, or deferred to the end of a free group; a request for pages is refused only
if the available pages are too few.

**PagedAllocator** is `PagedTokenToKVPoolAllocator` with its staging list and free
groups. A page-id tensor is a set; the duplicates a set would hide set
`double_free`. Clients are rows; `kv_len` is `kv_allocated_len`. Which pages an
allocation gets is left open. One action per entry point; `Allocate` is the tail
common to the three allocations (estimate, merge, refuse or cut the list).
`Free` and `FreeSegment` include what the caller does with its row, since a row
that kept freed indices is the danger. The two are separate because one
deduplicates and the other does not, and inside a group they wait in different
lists.

**AllocExtend** has the index arithmetic as functions on batches: the Triton
kernel with its three parts and its per-program prefix sums, the torch reference
with its search for an owner, the decode kernel, and the page counts.

**RadixTree** is the tree as operators on a record. A node is named by the token
path to its end, which is what survives `_split_node`. Locks, counters and the
leaf set are updated incrementally as in the code, never recomputed, so
that `CountersExact` can compare them with a walk. The order of the
eviction heap is left open.

**RadixKV** is the life of a request over that tree: admission with the pin
around the budget check, eviction, chunked prefill with re-matching, decode,
retraction, abort, caching at the end, flush. `Depth` is the number of launched
batches whose result is outstanding (2 with overlap). `kv` is a ghost: page to
the tokens its KV was computed from. `fault` collects the `RuntimeError`s and
asserts of the code and double frees. Batches of new requests have one member;
decode takes all running requests.

**Admission** has `init_req_max_new_tokens`, `validate_input_length` and the first
gate of `add_one_req` on an empty pool.

**SchedulerLoop** is one pass of either event loop as one action, in the order of
the code: pending abort, merge of the last prefill batch, filter, prefill through
the adder, else decode or retraction, launch, then the due result. Arrivals and
aborts happen between passes (`process_input_requests` comes first in a pass).
There is no prefix cache here, which RadixKV has; a request holds the pages of its
length. The reservation for running requests, which the code scales by
`new_token_ratio`, is any value from 0 to all they may generate. A sampled token
may end any request (`stops`: EOS, stop string).

Which of the two loops runs is chosen in the initial state (`overlap`).

**Csa2Boundary** and **Csa2Session** are the worker's store and the session files as
operators on a state record, with the names of the code. A snapshot is the
sequence of tokens its ring had absorbed, so "the right snapshot" can be stated.

**StickyLastSequence** composes them with the pin and with `event_loop_overlap` for
one request at a time, as that configuration runs. One action is one iteration:
the pending abort, the stash of a chunk, the match and launch (with the hooks around
the forward), then the result of the forward before. Clients return to earlier
conversations with any part of what they saw and something new, which gives
continuations, edits, cuts inside a reply and returns to a spilled chat. A reply may
stop anywhere in a verify block, so that the image runs ahead of the pin. The server
may be restarted at any point; with `CrashInMatch` also between the two writes of a
spill. `ImageIsOf` is what a forward needs: rows and ring of exactly its tokens, the
ring up to `MaxSlack` bonus positions ahead, which the code accepts when it relabels.

**DecodeDrain** follows one room of one decode rank. On each prefill rank the
scheduler, the bootstrap thread and the transfer worker are separate actors; where
the code reads shared state and acts on it later, the two are separate actions
(`CheckRoom`/`EnqueueChunk`, `Dequeue`/`SkipChunk`/`StartWrite`,
`RecvAbort`/`MarkFailed`/`RegisterAckTarget`/`TryAck`, `AbortRequest`/`ArmTracker`).
Sockets are FIFO and any send may be lost, as every send is inside a `try`. A write is
an interval from `StartWrite` to `EndWrite` or `FailWrite`; a session that is already
known to be dead is a write that fails at once. The verdicts of the prefill
ranks are all-reduced and then acted on by each rank in its own time. `place` records
how the pages were given up (`served`, `failed`, `drained`, `timeout`).

**LoRARegistry** is the tokenizer's side of LoRA. A step is what an asyncio task does
between two suspensions; the header of the module says which `await`s suspend and why the
others do not. The first of `updates` holds `lora_update_lock`, and `stage` says where it
is: waiting for the ranks to load, in `wait_for_zero`, or waiting for them to
unload. A LoRARef is a position in `refs`, which gives each load an id of its own under
the same name. A request goes through `Resolve` (with the implicit loads), `CountUses` when
it named its adapters in a list, and `Dispatch`; its jobs are answered in one of four
ways, and `Releases` says how many releases the code makes for each. Up to `MaxFaults`
updates may fail on some of the ranks.

**LoRADrainer** is the prefill pass as far as adapters decide it. One round is one pass
with its forward, a prefill batch if anything is admitted and a decode step otherwise;
waiting time is counted in rounds. A request may stop at any token from `MinNew` on.
Finished requests stay in the batch until the next decode step filters them, which is
what the drainer sees. There is no overlap: a request that ends is seen one
round earlier than in the overlapped loop.

### Abstractions common to the models

* Tokens are small numbers, contents matter only for prefix matching.
* fcfs order; no priority preemption, no mixed chunks, LoRA only in its own modules, no sliding window,
  speculative decoding only in StickyLastSequence, `ignore_eos` off, no dLLM, no pipeline parallelism.
* `is_disable_overlap_for_batch` (process the result before the next launch for
  consecutive prefills, if configured) is not modelled; the two loops it mixes
  are modelled each on its own.
* A retraction in RadixKV drains the tree: `release_req` evicts
  `SGLANG_RETRACT_DECODE_STEPS` tokens per remaining request, more than the small
  pools hold.
* Loops end at the first fault, because the process does.

## 3. Runs

| Run | Bounds | Shows |
|---|---|---|
| `paged_allocator` | 2 rows, 4 pages of 2 tokens, rows to 5 tokens, sorting on, symmetric rows and pages | no sharing, leak or double free; row length and pages agree; the allocator implements PagePool |
| `alloc_extend` | page size 3, every batch of up to 3 rows of up to 6 tokens, an unsorted free list | kernel = reference = decode kernel = page counts |
| `radix_kv` | 2 requests, 6 pages of 2 tokens, chunks of 6; prompts of 3 (twice, with 2 and 4 new tokens) and 5 that part inside their second page, one of 7; fairness | ownership, conservation, locks, counters, unique siblings, KV computed from the right tokens, no approved prefill or decode without memory; after the last arrival everything drains |
| `scheduler` | 3 requests, 14 tokens in pages of 2, prompts 1, 7 and 9 (cut by truncation), chunks of 4 (the server wants a multiple of the page size), both loops; fairness | every request in one place, chunk countdown exact, no stale result, no out-of-memory, no hidden request; after the last arrival every request ends |
| `scheduler_stuck_flag` | 24 tokens in pages of 8, prompt 16 | disagreement 1 of section 5 |
| `sticky_sessions` | 3 requests of up to 5 tokens, replies of 1 or 3, chunks of 2, verify blocks of 2, 2 saved sessions | every prefix that the pin or a saved session offers can be resumed; no worker error |
| `sticky_rows` | the same with 2 keys, health probes, 2 snapshots, 1 saved session, crashes inside a spill; fairness | rows and KV have one holder; every request ends |
| `drain` | 2 prefill ranks (symmetric), 2 chunks, an abort, node failures | pages released on acknowledgements are quiet; a served request is complete |
| `drain_ends` | 1 prefill rank, 3 chunks, 2 aborts; weak fairness | every transfer ends; no acknowledgement target stays behind |
| `drain_failure` | 2 prefill ranks, 2 chunks, no abort | disagreement 4 |
| `lora_registry` | 3 adapters (one pinned), at most 2 loaded, 2 ranks, 5 requests of which one fails tokenization, one names too many adapters and one an adapter that is not loaded at the start, 1 update by a client, 1 failing update; jobs end with an output or with a status while queued; weak fairness | adapters in use are on every rank, so is everything registered or draining, and no name is registered twice; a request whose adapter was ever loaded is served |
| `lora_drainer` | 3 adapters, 2 slots, 4 running and 2 waiting requests of 4 tokens, starving after 1 round; weak fairness of the loop | a starving adapter gets to run |

Configurations beside these runs, for the disagreements of section 5 and for one more
instance (`tlc -config <file> <module>`):

| Configuration | Module | Bounds | TLC finds |
|---|---|---|---|
| `MCStickyKeep.cfg`, `MCStickyHealth.cfg` | `MCSticky` | 3 requests of up to 6 tokens, 2 snapshots or health probes | disagreements 2 and 3 |
| `MCLoRARegistryList.cfg`, `MCLoRARegistryTimeout.cfg`, `MCLoRARegistryAbort.cfg` | `MCLoRARegistry` | 2 requests, 1 update, one kind of request or answer each | disagreements 5 to 7 |
| `MCLoRADrainerTolerance.cfg`, `MCLoRADrainerBase.cfg` | `MCLoRADrainer` | 2 adapters, 1 slot; requests of up to 12 tokens, or base-model requests in between | disagreements 8 and 9 |
| `MCLoRADrainerStarvation.cfg` | `MCLoRADrainer` | 3 adapters, 1 slot, requests that stop after 2 or 3 tokens | no error |

Why the bounds suffice for the cases that matter: a page size of at least 2 gives
partial pages; two requests are enough for one to split, evict, duplicate or outrun
what the other holds, three for a queue that is cut in the middle of an admission
pass while something runs; pools are chosen below the sum of what
requests may grow to, so that refusal, eviction and retraction happen. Two prefill
ranks are the smallest case in which one acknowledges or fails while the other writes;
two chunks the smallest in which one is written while another waits; two saved
sessions the smallest in which one is spilled while another is adopted and a
third would be evicted. With three adapters and a limit of two every load evicts; two requests for
one adapter are the smallest case in which one is at work and one on its way when it is
unloaded. In `lora_drainer` four running requests of four tokens
are enough to renew both running adapters for ever: without the drain TLC finds the
starvation. The snapshot limit is 32 in the code: `sticky_sessions` keeps it
out of reach, `sticky_rows` and `MCStickyKeep.cfg` bring it down to 2 so that it bites. Each
property has a mutated definition in `PROJECT.json` under which TLC finds it
violated in the same configuration: the splitting of a locked node, the pin
missing around the budget check, a retraction with a result in flight, a partial
last page, a merge of the chunked request and so on all occur within the bounds.
Slots of finished requests are reused, so runs are not limited to a number of
requests. Deadlock is checked except in `alloc_extend`, where one call is a
whole behaviour, and in the sticky and LoRA registry runs, whose number of requests is bounded.

**Fairness.** `radix_kv`, `scheduler` and `sticky_rows` assume only that the event
loop, a busy loop in one thread, goes on: either it is again and again without work,
or it takes steps again and again. This is weak fairness of the loop with its enabling
condition written out (`LoopHasWork`), which keeps TLC from evaluating a large
`ENABLED`. No fairness is assumed of clients, of the choice of tokens or of
the scheduling policy. The first two are conditional on clients eventually
falling silent, because prefill has priority over decode: a steady stream of
arrivals can hold a running request up for ever. `drain_ends` uses `WF_vars` of the
transfer worker, the bootstrap thread and the decode scheduler: each is a loop in a thread of its
own, an RDMA write returns with success or an error, and the clock reaches the
waiting timeout and the release deadline. Nothing is assumed of the network, the
client, or the prefill scheduler. `lora_registry` uses `WF_vars` of
`Progress`: some task that is ready, or some rank or scheduler with work, goes on; clients need not ask
for anything. Numbers of requests and updates are bounded, so this is enough for all
of them to go on. `lora_drainer` uses `WF_vars(Round)`, the scheduler's busy loop; arrivals
never stop.

## 4. Proofs

`PagedAllocatorProofs` proves, for every set of rows and pages, page size, row
bound and either setting of `need_sort`, that `Spec => []Inv` with

    Inv == TypeOK /\ NoPageShared /\ RowFitsLength /\ NoPageLeaked
             /\ GroupsClosed /\ NoDoubleFree

and from it the five properties the run checks. The conjuncts need each other.
`NoDoubleFree` is preserved only because a page in a row is in no list
(`NoPageShared`). That trimming a row leaves the kept pages and frees the rest
needs `RowFitsLength`. `GroupsClosed` (nothing pends outside a group) is needed
because `free_group_begin` resets both pending lists: without it
`NoPageLeaked` is not inductive. The argument is laid out as one lemma for the
allocations (`AllocateInv`, on `NewPagesFacts` and `ConcatPages`), one for
each kind of free (`FreeInv`, `FreeSegmentInv`, on `TrimFacts` and `FreedInv`), one
for the group steps (`RegroupInv`) and one step per action in `NextInv`. The
assumptions are that the page size is a positive natural, `need_sort` a Boolean and
the row bound a natural.

The first part of `SchedulerLoopProofs` proves `QueuedRequestFits`: if `page_size <= 5`, or the context is
at least a page shorter than the pool, every request that is queued passes the
first gate of `add_one_req` on an empty pool. The hypothesis is not an
artefact: the prompt of `scheduler_stuck_flag` violates the conclusion without it. The 5 is the
reserve of `max_req_input_len = max_req_len - 5`. `QueuedRequestInContext` bounds
prompt plus generation by context and pool without that hypothesis.

`PagedAllocatorProofs` also proves that `PagedAllocator` implements `PagePool`
(`Spec => ImplementsPagePool`), from `AllocatorInv` and one simulation lemma per action.
What is not immediate is the refusal: the code compares a *sum over rows* of pages with
the length of its list, the abstract pool a set of distinct pages with what is
available. `GivenPages` and `LackFacts` connect the two; the sums come from
`SetSums`. The further assumption is `FiniteAssumption`, that rows and
pages are finite sets.

`SetSums` has what the proofs need of sums over finite sets, of prefix sums and of the
community modules' folds (`SumSubset`, `SumBound`, `SumScale`, `PrefixSum`, `PrefixSumOwner`,
`FoldExists`). Induction theorems that take a
predicate are out of the provers' reach, so `SmallestFlawed` and `LeastNatural` state
induction as the existence of a smallest counterexample in a set, and each lemma
defines the set of its own counterexamples.

`AllocExtendProofs` proves the three invariants of the `alloc_extend` run, and that the merge estimate
covers the demand (`MergeBoundCoversDemand`), for every page
size above 1, every batch of rows and every injective free list that is long
enough and does not hold the pages on which rows already end. The batch has a valid
shape (`BatchAlways`); then, bottom up: the three parts of a row in terms of its aligned ends
(`RowArithmetic`, `RowShape`), the offsets of a row in the output and in the free list
as prefix sums (`OffsetFacts`), the owner of an output slot and its place in the row
(`OwnerFacts`, `SlotOfRow`). The kernel's stores cover every slot once
(`StoreFacts`, `StoreCovers`) with the value of the torch reference (`KernelIsNaive`). For
`ExtendIsSound`, `TokenPlace` gives each slot the page and offset of its token, and
`PagesApart` says that two slots share a page only if they are tokens of one page of one row.

`DecodeDrainProofs` proves `DrainedReleaseIsQuiet`, `ServedIsComplete` and the types for any
number of prefill ranks, chunks and aborts, any loss of messages, and node failures. The
two properties speak of the decode side only at the moment pages are given up; the
invariant has to say what is true of a message before it is counted:

    Inv == Types /\ (\A p \in Prefills : RankInv(p)) /\ AckedIsQuiet /\ SuccessIsComplete

`AckedIsQuiet` says that whoever has, or may yet receive, an acknowledgement of a rank finds it
*quiet*: it is not writing, its room has failed, succeeded or been cleared, and the page
indices that would open it have been read. That quiet is stable needs `RankInv`: a worker
that has counted a chunk checks the status before it writes; a closed room is not
opened again because the page indices are sent once and first (`RoomOpensOnce`); and a rank
acknowledges only a room that failed or is gone (`StatusMeans`). `SuccessIsComplete` needs
`ChunksInOrder`: the last chunk is last in the queue, so that its success leaves none behind.

`RadixTreeProofs` has one theorem per tree operation (`SplitOK`, `IncOK`, `DecOK`, `InsertOK`,
`DeleteOK`), each saying that it keeps

    TreeOK(t, hold) == TreeShape(t) /\ LeavesExact(t) /\ Sized(t) /\ Locked(t, hold)

where `hold` gives the last node of every request. `TreeShape` is the part no property
states: every cached page path lies on the edge of exactly one node (`OwnedBy`). A split is
invisible to everyone else because of it: the edge of the child is divided between the
child and the new node, and the requests at or below the new node are those at or below the
child, so the inherited `lock_ref` is right. `Sized` compares the two incremental counters
with a sum over nodes; `SizeIsPages` turns such a sum into a number of pages, which adds up
under union. `DrainedIsLoose` is what `evictable_size()` promises: every node nobody holds can
be popped, because nobody holds what is below it. `MatchedFacts` and `BranchesAtNodes` are about the
longest match and about where keys part.

`RadixKVProofs` proves all eight safety invariants of the `radix_kv` run, for every page size, pool,
chunk size, finite set of request slots and set of prompts, with and without overlap
(`Depth` 1 or 2). Besides `PageSizeAssumption` it uses `PoolAssumption`: a chunk has at least a page,
and prompt, `max_new_tokens` and one more page are together smaller than the pool. That is the first
gate of `add_one_req` on an empty pool, which `QueuedRequestFits` proves of every queued request under
its own hypothesis; a request that fails it is never admitted. The inductive invariant is

    Good(s)     == s \in StateType /\ TreeOK(s.tree, Hold(s.req))
                     /\ (\A r \in Reqs : RowShape(s.req[r]))
                     /\ PagesOK(s.tree.value, s.free, s.req, s.kv)
    Sound(s, Q) == Good(s) /\ s.fault = {}
                     /\ (\A r \in Reqs : Settled(s.req[r]) /\ TokensOK(s.req[r], Q, r))
                     /\ Q \in Seq(Batches) /\ Len(Q) =< Depth /\ Reserve(s.req)
    KVInv       == Sound(State, queue)

`Good` is what every cache operation keeps, in the middle of a step too. `PagesOK` partitions the
pages into free ones, those of the tree and those a row has to itself, and says what KV each holds; ownership,
conservation and contents have to be one statement, since a page changes hands together with its
contents. `Settled` says that what a request protects in the tree it has prefilled, and that one
that does not run holds nothing; without it `cache_finished_req` could free pages it does not
have. `TokensOK` counts the tokens in flight: a running request has one token more than it knows for
each of its batches in the queue (`Due`, at most 2), and KV for all but the last. The token
a retracted or finished request never learns is the reason `ReleaseInsert` takes only known tokens, and
the invariant has to know how many these are.

`NoFault` is the deep one: the code checks a budget once and allocates later, chunk by
chunk, while the results of other requests come in, finish them and are cached. `Budget` is the tokens no request holds:
the pool less the pages on the way to the last nodes and those rows have to themselves. It equals available
plus evictable (`Accounting`), and the proof follows it through every operation
(`BudgetCache`, `BudgetRelease`, `BudgetGrow`). `Reserve` says that the rest of a chunked prefill fits into it; it is
kept because no decode runs while a request is chunked, and because caching and releasing only add to
the budget. That the last running request is never aborted for memory (`LastFits`) follows from
the bound on prompt and `max_new_tokens`, from `known < plen + max_new`, and from at most one token
being due when a decode is launched. `ProcessBatchResult` folds over the batch and needs an invariant of
its own for the loop (`Partway`): requests already judged are done, the others still have their
token due.

Two limits. The retraction of the model drains the tree (section 2), so the theorems speak of retractions
that do; and the batches of new requests have one member.

`SchedulerLoopProofs` proves the five invariants of the `scheduler` run, and `AcceptedFitsEmptyPool`, for any finite set of requests,
any capacities, page and chunk size, with and without overlap. The inductive invariant `LoopInv` is stated
between two passes of the event loop:

* `ReqOK`, `Holds`: what holds of every request by itself; one that runs has KV for all its
  known tokens but the last, and for one more if its last batch is outstanding;
* `ChunkedOK`: the chunked request has the pages of the rest of its prompt in reserve;
* `QueueOK`: the waiting queue lists the waiting requests, each once;
* `BatchOK`: the batch launched last is the one to be merged or the running batch itself, and
  every request under way is in one of them; `result_queue` is that batch's result with overlap, and
  `inflight_middle_chunks` is 1 for its chunked request;
* `FlagOK`: a full flag on an empty running batch goes when the last batch is merged.

A pass breaks this invariant in the middle, so the proof has a predicate for each stage of it.
`PendingAbortOK`, `MergeOK` and `FilterPrefillOnlyOK` lead to `Ready`, the state in which a batch is chosen;
`LaunchPrefillOK`, `LaunchDecodeOK`, `RetractDecodeOK` and `NothingOK` from there to `Posted`, a batch launched
and the previous result not processed (`NextBatchOK`); `DueOK` and `NotDueOK` back to `LoopInv`. In
`Posted` two results may be outstanding, the older of which ends requests that the newer has run
once more, and may be stale for a request that was retracted in between; both counts are part of it.
`WaitingRequestFits` and `FullFlagIsHarmless` assume `Roomy`, the hypothesis of
`QueuedRequestFits`; without it the run `scheduler_stuck_flag` shows `FullFlagHidesNothing` false.

`LoRARegistryProofs` proves `OfferedIsLoaded` and `NameRegisteredOnce` for any adapters, names, ranks, updates,
failures, requests and answers. The invariant, `OfferInv`, has two parts: `OffersOK`, what is registered or
drained is loaded on every rank and has a name of its own, and `HolderOK`, an id that the holder of
`lora_update_lock` has the ranks load or unload is neither registered nor counted meanwhile.
Nothing in it depends on how uses are counted. The assumption is that the names given at the start differ, which
`_register_adapter` enforces. That the second holds is why the module has no step for
the "already exists" error of `register` (`lora_registry.py:241`): a rank refuses the load first.

It proves `InUseIsLoaded` for any adapters, names, ranks, updates and failures, but only if every
request is *counted* (`Counted`): it names one adapter and asks for one sample; or its adapters are pinned
and no update touches them; or it is refused because it names more adapters than can be loaded. Also, no
answer carries a status of its own. The configuration of the `lora_registry` run satisfies this. The hypothesis is
what the code needs, since it counts a use per name and gives it back per answer: uses of a list
are counted after the await that looked them up, several samples release more than was counted, and an output
with a status is released twice. The first and the last break the property (disagreements 5 and 6 in
section 5). The invariant,
again only under `Counted`, is

    CountedInv == BooksOK /\ QueueOK /\ StageOK

`BooksOK` says that an id has a counter as long as it is registered or drained, that every rank has
such an adapter loaded, and that the counter of one that can be removed is at least the number of requests that
use it, counted as a set. `QueueOK` says that a request that loads implicitly has asked for one update and the
others for none, so that the end of an update wakes the right request in the right phase. `StageOK` says what the holder of
`lora_update_lock` is doing: an adapter being loaded or unloaded has no counter, so nobody resolves to it.
`wait_for_zero` lets go of the counter only at 0, where by `BooksOK` no user is left.

Only model-checked: the invariants of the sticky modules, and liveness (`DrainsWhenQuiet`, `EveryRequestEnds`,
`EveryTransferEnds`, `AckTargetsDrain`, `EverLoadedIsServed`, `StarvingIsServed`), which is outside what the prover handles.

## 5. Disagreements between code and its documentation

1. `batch_is_full` is described as an optimisation of the prefill check
   (`schedule_batch.py:2328`). A refusal on an idle engine sets it, and it is cleared only when
   a batch shrinks or is replaced, which an idle engine does not do: after the refused
   request is aborted, requests that would fit stay hidden. What exposes it is a
   second disagreement: `max_new_tokens_for_memory` (`allocator/base.py:88`) documents that
   `None` means the prompt cannot fit, but clamps to 0 and never returns `None`, so with
   a page size above 5 and a context no shorter than the pool a prompt within a page of
   the pool is queued although the budget can never admit it. Run
   `scheduler_stuck_flag`. Where every accepted request fits the empty pool
   (`AcceptedFitsEmptyPool`, proved in section 4), `FullFlagHidesNothing` holds.
2. "Scheduler and worker both call `evict_recent` so a match cannot ask for a length the
   worker has already dropped" (`sm70_csa2_boundary.py:30`). They call it on different
   lists: `_note_cut` first drops the cuts beyond the previous sequence and never
   records the prompt end of a reply that ends at the prefill result, the store
   freezes every extend. `MCStickyKeep.cfg`, with the limit at 2. With 32 it takes a long
   chat and then an edit of an early turn.
3. "The scheduler only returns a prefix the worker has snapshotted"
   (`sm70_csa2_boundary.py:11`). A health probe keeps the pin, but its own prefill from position
   0 clears the store, and the next turn raises. `MCStickyHealth.cfg`. A probe is run only
   on an idle server, and the repository's launch script keeps `/health` from
   generating, which hides this.
4. "A prefill-initiated failure has already stopped writing" (`decode.py:2488`) holds for
   one prefill rank (checked with three chunks) and fails for two: the failed write of
   one releases pages the other is writing. Run `drain_failure`. A node failure declared by
   the heartbeat takes the same path while a rank that is merely slow still writes.
5. "Initiate the actual unloading operation at the backend processes only after all
   ongoing requests using this LoRA adapter are finished" (`tokenizer_control_mixin.py:596`).
   An acquire by list counts its uses in tasks of a gather, after it has given the
   registry lock back (`lora_registry.py:156`); an unload in between finds the counter at zero.
   `MCLoRARegistryList.cfg`.
6. The same sentence: an output with status 503 or 500 (running timeout, retraction without
   memory) is released by `_handle_batch_output` and again by the waiter
   (`tokenizer_manager.py:1808`), so that an unload no longer waits for another request.
   `MCLoRARegistryTimeout.cfg`.
7. "We should handle all of the following cases correctly" (`tokenizer_manager.py:3845`, on
   aborts). An abort in the waiting queue without a status releases nothing; the next unload
   or eviction of that adapter waits for ever and holds `lora_update_lock`.
   `MCLoRARegistryAbort.cfg`.
8. "Draining adapters will not accept new requests, allowing them to complete and free up
   slots" (`lora_drainer.py:107`). They accept those within 1.2 times their remaining tokens, and a
   stream of such requests renews the remaining tokens. `MCLoRADrainerTolerance.cfg`.
9. "When any LoRA adapter request waits longer than this threshold [...] the scheduler will
   selectively drain one running adapter" (`docs/docs/advanced_features/lora.mdx:34`). A starving
   base-model request uses up the adapter that could be drained, and drains nothing, because
   `is_draining_for = None` is also how "not draining" is written. `MCLoRADrainerBase.cfg`.

Seen while modelling, without a run:

* "Waits until the usage counter for a LoRA adapter reaches zero, indicating that it is no
  longer in use" (`lora_registry.py:188`). A request with n samples acquires its adapter n
  times and sends n + 1 jobs, the first of which caches the prompt; each releases
  (`tokenizer_manager.py:2615`), so that the counter is zero while the last sample is at work.
* An unload that fails on one rank leaves the name loaded there and unregistered. The next implicit
  load is told "already loaded", which `_resolve_lora_path` accepts, and the acquire then
  fails; `EverLoadedIsServed` leaves this case out (`faults > 0`).
* A request that fails tokenization after its acquire (`TokenizeFails`), or whose handler is gone when
  an abort with a status arrives, does not release its adapter either.
* `starving_adapters` does not leave out adapters that are running, so that an adapter can be
  marked as draining for itself; `StarvingIsServed` fails through that when requests may
  stop at their first token (`MinNew = 1`).

* `save_resident` and `remember` write two files. If the server dies between them and the
  entry already had an image from an earlier spill, the entry offers cuts its image
  does not have: `SavedIsServable` fails with `CrashInMatch` once a
  behaviour has five requests (the run's three are too few to show it).
* The relabelled tip of a verify holds up to `MaxSlack` positions more than the length
  it is filed under. The ring is accepted as it is; whether its extra positions matter
  is a question about the kernels, which the model leaves open.
* An acknowledgement that arrives between the sending of the ABORT and
  `register_deferred_abort_room` is lost (`scheduler.py:5577` says early ones are captured),
  and a poll that times out sends an ABORT without arming the room. Both end at the
  release deadline, never early.
* The comment at `mooncake/conn.py:2421` that only the worker acknowledges is older than the
  code below it, which tries once itself; `AckTargetsDrain` needs that try.

## 6. Plan

Done: the allocator, index kernels, prefix tree and request KV with their proofs, scheduling, admission,
the sticky cache with its worker side, the drain handshake, the LoRA registry and
drainer. Left, in order:

1. Proofs: `RowsHaveHolders` for any lengths.
2. DecodeDrain with room reuse and several decode ranks, which share one
   acknowledgement target per room; the preallocation queue.
3. Streaming sessions, which also hold a row between requests.
4. SchedulerLoop with priority preemption and the per-batch switch of overlap.
5. LoRARegistry with disconnecting clients. The LoRA memory pool with the overlap loader, the weight cache daemon, the HiCache
   controller.

### Not modelled

* HiCache and the hybrid prefix caches: threads and tombstones on top of the tree
  discipline that RadixTree has; each needs a module of its own.
* In the sticky modules: retraction and pausing with a pin, a match whose request is
  not admitted, page sizes above 1, separate files and modification times per
  TP rank, lazy creation of the CSA2 state, failure paths of `_ensure_slot`.
* In DecodeDrain: several decode ranks, room reuse, the staging buffer, the nixl and mori
  backends, preallocation, dummy ranks, optimistic prefill, a failing `send_metadata`.
* In the LoRA modules: the slots of the memory pool and their eviction, the overlap loader,
  chunked requests in the drainer, pinned adapters in `validate_lora_batch`.
* Model code, kernels other than the allocator's, quantisation, loaders, the
  gateway and the front ends: numeric or I/O, or separate programs. They are most
  of the repository's lines.
