----------------------------- MODULE LoRARegistry -----------------------------
(***************************************************************************)
(* LoRA adapters that are loaded, evicted and unloaded while requests use  *)
(* them: the registry of the tokenizer manager with its usage counters,    *)
(* the updates serialised by lora_update_lock, the ranks that hold the     *)
(* weights, and the requests from their arrival to the release.            *)
(*                                                                         *)
(* The tokenizer manager is one asyncio event loop, so a step is what a    *)
(* task does between two suspensions.  No critical section of RWLock,      *)
(* Condition or ConcurrentCounter suspends inside, so taking one of them   *)
(* does not suspend either: register, unregister, acquire by name, release *)
(* and the check of wait_for_zero are parts of a step.  What suspends is   *)
(* lora_update_lock, a call to the ranks, wait_for_zero while the counter  *)
(* is not zero, tokenization, and the gather of an acquire by list.        *)
(* Messages to and from the scheduler are FIFO.                            *)
(***************************************************************************)
EXTENDS Integers, FiniteSets, Sequences, SequencesExt

CONSTANTS
  Names,         \* adapter names
  Pinned,        \* the names that are loaded as pinned
  Startup,       \* sequence of names given by --lora-paths
  Ranks,         \* scheduler ranks that answer an update
  MaxLoaded,     \* max_loaded_loras
  MaxPerBatch,   \* max_loras_per_batch
  Sent,          \* sequence of requests [paths, list, samples]
  Client,        \* who asks for an update that no request asks for
  Updatable,     \* the names that the client asks updates for
  MaxUpdates,    \* updates that the client asks for
  Answers,       \* the ways in which a job ends: a subset of AllAnswers
  Invalid,       \* the requests that may fail tokenization
  MaxFaults      \* updates that may fail on some of the ranks

Requests == DOMAIN Sent

\* How the scheduler ends a job: with an output, the normal end and the abort of a
\* running job; with an output whose reason has status 500 or 503 (running timeout,
\* retraction without memory); with an abort echo for a queued job, without (client
\* abort) and with a status (queue timeout, priority).
AllAnswers == {"output", "output_status", "echo", "echo_status"}

ASSUME LoRAAssumption ==
  /\ Pinned \subseteq Names /\ IsFiniteSet(Names) /\ IsFiniteSet(Ranks) /\ Ranks # {}
  /\ MaxPerBatch \in Nat \ {0} /\ MaxLoaded \in Nat /\ MaxLoaded >= MaxPerBatch
  /\ Startup \in Seq(Names) /\ Len(Startup) <= MaxLoaded
  /\ \A i, j \in DOMAIN Startup : Startup[i] = Startup[j] => i = j
  /\ Client \notin Requests /\ Answers \subseteq AllAnswers
  /\ Updatable \subseteq Names /\ Invalid \subseteq Requests /\ MaxFaults \in Nat
  /\ Sent \in Seq([paths : Seq(Names) \ {<<>>}, list : BOOLEAN, samples : Nat \ {0}])

VARIABLES
  refs,          \* sequence of the names of all LoRARefs; its indices are the lora_ids
  registry,      \* _registry: the ids registered, least recently used first
  counters,      \* _counters: id -> count, for the ids that have a counter
  cached,        \* lora_ref_cache: the names ever loaded
  loaded,        \* rank -> the ids it has loaded
  updates,       \* lora_update_lock: the updates, the first of them holds it
  stage,         \* where the holder is: [at, id, woken]
  req,           \* request -> [phase, todo, ids, jobs]
  asked,         \* updates asked for by the client
  faults         \* updates that failed on some rank

vars == <<refs, registry, counters, cached, loaded, updates, stage, req, asked, faults>>

Idle == [at |-> "idle", id |-> 0, woken |-> FALSE]

Init ==
  /\ refs = Startup /\ registry = [i \in DOMAIN Startup |-> i]
  /\ counters = [i \in DOMAIN Startup |-> 0] /\ cached = Range(Startup)
  /\ loaded = [k \in Ranks |-> DOMAIN Startup]
  /\ updates = <<>> /\ stage = Idle /\ asked = 0 /\ faults = 0
  /\ req = [r \in Requests |->
             [phase |-> "new", todo |-> <<>>, ids |-> <<>>, jobs |-> <<>>]]

---------------------------------------------------------------------------
(* The registry.                                                           *)

IsRegistered(reg, name) == \E i \in Range(reg) : refs[i] = name
IdOf(reg, name) == CHOOSE i \in Range(reg) : refs[i] = name

\* What S has of a sequence, in its order.
Only(s, S) == FoldLeft(LAMBDA kept, x : IF x \in S THEN Append(kept, x) ELSE kept, <<>>, s)

Unregister(reg, i) == Only(reg, Range(reg) \ {i})

\* A lookup moves the name to the end of the LRU order.
Touch(reg, name) ==
  IF IsRegistered(reg, name)
    THEN Append(Unregister(reg, IdOf(reg, name)), IdOf(reg, name)) ELSE reg
TouchAll(reg, names) == FoldLeft(Touch, reg, names)

Without(cnt, i) == [j \in DOMAIN cnt \ {i} |-> cnt[j]]
With(cnt, i) == [j \in DOMAIN cnt \cup {i} |-> IF j = i THEN 0 ELSE cnt[j]]

\* Increments of a counter that was deleted meanwhile reach nobody.
Increment(cnt, i, n) == IF i \in DOMAIN cnt THEN [cnt EXCEPT ![i] = @ + n] ELSE cnt

Fail(r) == req' = [req EXCEPT ![r].phase = "failed"]

\* acquire: all names are looked up in one step.  By name the counter is
\* incremented in the same step, by list in the tasks of a gather (CountUses).
Acquire(r, reg, cnt) ==
  LET paths == Sent[r].paths
      missing == {k \in DOMAIN paths : ~IsRegistered(reg, paths[k])}
      ids == [k \in DOMAIN paths |-> IdOf(reg, paths[k])]
  IN \/ /\ missing # {}
        /\ registry' = TouchAll(reg, SubSeq(paths, 1, Min(missing) - 1))
        /\ counters' = cnt /\ Fail(r)
     \/ /\ missing = {} /\ registry' = TouchAll(reg, paths)
        /\ \/ /\ ~Sent[r].list /\ counters' = Increment(cnt, ids[1], 1)
              /\ req' = [req EXCEPT ![r].phase = "acquired", ![r].ids = ids]
           \/ /\ Sent[r].list /\ counters' = cnt
              /\ req' = [req EXCEPT ![r].phase = "counting", ![r].ids = ids]

---------------------------------------------------------------------------
(* Updates: load_lora_adapter, unload_lora_adapter and the implicit load.  *)

LoadFor(r, name) == [op |-> "load", name |-> name, by |-> r]

\* The loop of _resolve_lora_path, from the names still to load on.
Resolving(r, todo, queue, reg, cnt) ==
  \/ todo = <<>> /\ updates' = queue /\ Acquire(r, reg, cnt)
  \/ /\ todo # <<>> /\ Head(todo) \notin cached
     /\ updates' = queue /\ registry' = reg /\ counters' = cnt /\ Fail(r)
  \/ /\ todo # <<>> /\ Head(todo) \in cached
     /\ updates' = Append(queue, LoadFor(r, Head(todo)))
     /\ registry' = reg /\ counters' = cnt
     /\ req' = [req EXCEPT ![r].phase = "loading", ![r].todo = Tail(todo)]

\* The results after which an implicit load goes on.
Tolerated(result) == result \in {"ok", "already"}

\* The holder returns and gives the lock back.
Finish(result, reg, cnt) ==
  LET by == Head(updates).by
  IN /\ stage' = Idle
     /\ \/ /\ by = Client
           /\ updates' = Tail(updates) /\ registry' = reg /\ counters' = cnt
           /\ UNCHANGED req
        \/ /\ by \in Requests /\ ~Tolerated(result)
           /\ updates' = Tail(updates) /\ registry' = reg /\ counters' = cnt /\ Fail(by)
        \/ /\ by \in Requests /\ Tolerated(result)
           /\ Resolving(by, req[by].todo, Tail(updates), reg, cnt)

\* Bug variant: the ranks are asked without waiting for the counter.
StartUnload_NoWait(i, reg, cnt) ==
  /\ registry' = Unregister(reg, i)
  /\ counters' = Without(cnt, i)
  /\ stage' = [at |-> "unloading", id |-> i, woken |-> FALSE]
  /\ UNCHANGED <<updates, req>>

\* _unload_lora_adapter_locked up to its first suspension: unregister, and with
\* nobody using the adapter also wait_for_unload and the call to the ranks.
StartUnload(i, reg, cnt) ==
  /\ registry' = Unregister(reg, i)
  /\ \/ /\ cnt[i] = 0 /\ counters' = Without(cnt, i)
        /\ stage' = [at |-> "unloading", id |-> i, woken |-> FALSE]
     \/ /\ cnt[i] # 0 /\ counters' = cnt
        /\ stage' = [at |-> "draining", id |-> i, woken |-> FALSE]
  /\ UNCHANGED <<updates, req>>

\* What lru_lora_name(exclude_pinned=True) chooses from, in LRU order.
Evictable(reg) == Only(reg, {i \in Range(reg) : refs[i] \notin Pinned})

OverLimit(reg) == Len(reg) > MaxLoaded

\* The eviction loop of load_lora_adapter.
Evict(result, reg, cnt) ==
  \/ OverLimit(reg) /\ Evictable(reg) # <<>> /\ StartUnload(Head(Evictable(reg)), reg, cnt)
  \/ /\ ~OverLimit(reg) \/ Evictable(reg) = <<>>
     /\ Finish(IF OverLimit(reg) THEN "failed" ELSE result, reg, cnt)

\* A client calls load_lora_adapter or unload_lora_adapter.
Ask(op, name) ==
  /\ asked < MaxUpdates /\ asked' = asked + 1
  /\ updates' = Append(updates, [op |-> op, name |-> name, by |-> Client])
  /\ UNCHANGED <<refs, registry, counters, cached, loaded, stage, req, faults>>

\* The first of the queue has the lock and runs until it suspends.
Start ==
  /\ updates # <<>> /\ stage.at = "idle"
  /\ LET u == Head(updates)
     IN \/ /\ u.op = "load" /\ refs' = Append(refs, u.name)
           /\ stage' = [at |-> "loading", id |-> Len(refs) + 1, woken |-> FALSE]
           /\ UNCHANGED <<registry, counters, updates, req>>
        \/ /\ u.op = "unload" /\ IsRegistered(registry, u.name) /\ UNCHANGED refs
           /\ StartUnload(IdOf(registry, u.name), registry, counters)
        \/ /\ u.op = "unload" /\ ~IsRegistered(registry, u.name)
           /\ updates' = Tail(updates)
           /\ UNCHANGED <<refs, registry, counters, stage, req>>
  /\ UNCHANGED <<cached, loaded, asked, faults>>

\* validate_new_adapter on rank k.
IsLoadedOn(k, name) == \E j \in loaded[k] : refs[j] = name

\* Bug variant: a name that is already loaded is loaded again, under its new id.
CanLoad_Again(k, name) ==
  name \in Pinned =>
    Cardinality({j \in loaded[k] : refs[j] \in Pinned}) < MaxPerBatch - 1

CanLoad(k, name) ==
  /\ ~IsLoadedOn(k, name)
  /\ name \in Pinned =>
       Cardinality({j \in loaded[k] : refs[j] \in Pinned}) < MaxPerBatch - 1

\* Bug variant: one rank that loaded it is enough.
Merged_Any(good, name) ==
  IF good # {} THEN "ok"
  ELSE IF \E k \in Ranks : IsLoadedOn(k, name) THEN "already" ELSE "failed"

\* _merge_lora_update_results for a load: good are the ranks that loaded it.
Merged(good, name) ==
  IF good = Ranks THEN "ok"
  ELSE IF \E k \in Ranks : IsLoadedOn(k, name) THEN "already" ELSE "failed"

\* The ranks that do an update out of those that can: a fault is of a few of them.
Outcome(able, done) ==
  /\ done \subseteq able
  /\ \/ done = able /\ UNCHANGED faults
     \/ done # able /\ faults < MaxFaults /\ faults' = faults + 1

\* The ranks have answered the load: register, then evict down to the limit.
LoadReply ==
  /\ stage.at = "loading"
  /\ LET i == stage.id  name == refs[stage.id]  able == {k \in Ranks : CanLoad(k, name)}
     IN \E good \in SUBSET able :
          /\ Outcome(able, good)
          /\ loaded' = [k \in Ranks |-> loaded[k] \union IF k \in good THEN {i} ELSE {}]
          /\ LET result == Merged(good, name)
             IN \/ /\ result = "ok" /\ cached' = cached \union {name}
                   /\ Evict(result, Append(registry, i), With(counters, i))
                \/ /\ result # "ok" /\ UNCHANGED cached
                   /\ Evict(result, registry, counters)
  /\ UNCHANGED <<refs, asked>>

\* wait_for_zero wakes up after a decrement, and checks again.
Wake ==
  /\ stage.at = "draining" /\ stage.woken
  /\ \/ /\ counters[stage.id] = 0 /\ counters' = Without(counters, stage.id)
        /\ stage' = [stage EXCEPT !.at = "unloading", !.woken = FALSE]
     \/ /\ counters[stage.id] # 0 /\ stage' = [stage EXCEPT !.woken = FALSE]
        /\ UNCHANGED counters
  /\ UNCHANGED <<refs, registry, cached, loaded, updates, req, asked, faults>>

\* The ranks have answered the unload; an eviction goes on with its load.
UnloadReply ==
  /\ stage.at = "unloading"
  /\ \E gone \in SUBSET Ranks :
       /\ Outcome(Ranks, gone)
       /\ loaded' = [k \in Ranks |-> loaded[k] \ IF k \in gone THEN {stage.id} ELSE {}]
       /\ \/ Head(updates).op = "load" /\ gone = Ranks /\ Evict("ok", registry, counters)
          \/ /\ Head(updates).op = "unload" \/ gone # Ranks
             /\ Finish(IF gone = Ranks THEN "ok" ELSE "failed", registry, counters)
  /\ UNCHANGED <<refs, cached, asked>>

---------------------------------------------------------------------------
(* Requests.                                                               *)

\* generate_request: get_unregistered_loras over the set of names, then the loads.
Resolve(r) ==
  /\ req[r].phase = "new"
  /\ LET names == Range(Sent[r].paths)
     IN \/ /\ Cardinality(names) > MaxLoaded
           /\ Fail(r) /\ UNCHANGED <<registry, counters, updates>>
        \/ /\ Cardinality(names) <= MaxLoaded
           /\ \E order \in SetToSeqs(names) :
                Resolving(r, Only(order, {n \in names : ~IsRegistered(registry, n)}),
                          updates, TouchAll(registry, order), counters)
  /\ UNCHANGED <<refs, cached, loaded, stage, asked, faults>>

\* The increments of an acquire by list: samples for each path.
CountUses(r) ==
  /\ req[r].phase = "counting" /\ req' = [req EXCEPT ![r].phase = "acquired"]
  /\ counters' = [i \in DOMAIN counters |->
       counters[i]
         + Sent[r].samples * Cardinality({k \in DOMAIN req[r].ids : req[r].ids[k] = i})]
  /\ UNCHANGED <<refs, registry, cached, loaded, updates, stage, asked, faults>>

\* Tokenization or validation raises: the ReqStates go, the counters stay.
TokenizeFails(r) ==
  /\ r \in Invalid /\ req[r].phase = "acquired" /\ Fail(r)
  /\ UNCHANGED <<refs, registry, counters, cached, loaded, updates, stage, asked, faults>>

\* Jobs of a request: one per path, or with parallel sampling one that caches the
\* prompt and then the samples.
NumJobs(r) ==
  LET n == Len(Sent[r].paths)
  IN IF Sent[r].samples = 1 THEN n ELSE n + n * Sent[r].samples
PathOf(r, k) == ((k - 1) % Len(Sent[r].paths)) + 1

\* The next job goes to the scheduler; those that cache prompts are waited for.
Dispatch(r) ==
  LET jobs == req[r].jobs
  IN /\ req[r].phase = "acquired"
     /\ (Sent[r].samples > 1 /\ Len(jobs) <= Len(Sent[r].paths)) =>
          \A k \in DOMAIN jobs : jobs[k].at = "over"
     /\ req' = [req EXCEPT ![r].jobs = Append(jobs, [at |-> "waiting", due |-> 0]),
                           ![r].phase = IF Len(jobs) + 1 = NumJobs(r) THEN "sent" ELSE @]
     /\ UNCHANGED <<refs, registry, counters, cached, loaded, updates, stage, asked, faults>>

\* The scheduler takes a job from its queue.
Admit(r, k) ==
  /\ req[r].jobs[k].at = "waiting"
  /\ req' = [req EXCEPT ![r].jobs[k].at = "running"]
  /\ UNCHANGED <<refs, registry, counters, cached, loaded, updates, stage, asked, faults>>

\* The scheduler ends a job.
Answer(r, k, answer) ==
  /\ req[r].jobs[k].at =
       IF answer \in {"output", "output_status"} THEN "running" ELSE "waiting"
  /\ req' = [req EXCEPT ![r].jobs[k].at = answer]
  /\ UNCHANGED <<refs, registry, counters, cached, loaded, updates, stage, asked, faults>>

\* The releases an answer causes: one task in _handle_batch_output, one in the waiter
\* for an abort with a status (_handle_abort_finish_reason), none in _handle_abort_req.
Releases(answer) ==
  (IF answer \in {"output", "output_status"} THEN 1 ELSE 0)
  + (IF answer \in {"output_status", "echo_status"} THEN 1 ELSE 0)

\* handle_loop receives the answer.
Handle(r, k) ==
  /\ req[r].jobs[k].at \in AllAnswers
  /\ req' = [req EXCEPT ![r].jobs[k] =
                [at |-> "over", due |-> Releases(req[r].jobs[k].at)]]
  /\ UNCHANGED <<refs, registry, counters, cached, loaded, updates, stage, asked, faults>>

\* Bug variant: the decrement does not notify.
WakeUp_NotNotified(i) == stage

\* The notify of a decrement.
WakeUp(i) ==
  IF stage.at = "draining" /\ stage.id = i THEN [stage EXCEPT !.woken = TRUE] ELSE stage

\* LoRARegistry.release; without a counter it raises.
Release(r, k) ==
  /\ req[r].jobs[k].due > 0
  /\ req' = [req EXCEPT ![r].jobs[k].due = @ - 1]
  /\ LET i == req[r].ids[PathOf(r, k)]
     IN counters' = Increment(counters, i, -1) /\ stage' = WakeUp(i)
  /\ UNCHANGED <<refs, registry, cached, loaded, updates, asked, faults>>

---------------------------------------------------------------------------

\* The steps of tasks that are ready and of the ranks: all but the clients' calls.
Progress ==
  \/ Start \/ LoadReply \/ Wake \/ UnloadReply
  \/ \E r \in Requests :
       \/ CountUses(r) \/ TokenizeFails(r) \/ Dispatch(r)
       \/ \E k \in DOMAIN req[r].jobs :
            \/ Admit(r, k) \/ Handle(r, k) \/ Release(r, k)
            \/ \E answer \in Answers : Answer(r, k, answer)

Next ==
  \/ \E op \in {"load", "unload"}, name \in Updatable : Ask(op, name)
  \/ \E r \in Requests : Resolve(r)
  \/ Progress

Spec == Init /\ [][Next]_vars

\* The event loop runs every ready task and the scheduler ends every job.
FairSpec == Spec /\ WF_vars(Progress)

---------------------------------------------------------------------------
(* Properties.                                                             *)

\* The ids that request r uses or is about to use in the scheduler.
InUse(r) ==
  CASE req[r].phase \in {"counting", "acquired"} -> Range(req[r].ids)
    [] req[r].phase = "sent" ->
         {req[r].ids[PathOf(r, k)] :
            k \in {j \in DOMAIN req[r].jobs : req[r].jobs[j].at \in {"waiting", "running"}}}
    [] OTHER -> {}

\* Every rank has the adapter of every request that is at work or on its way: the ranks
\* unload an adapter only after all ongoing requests that use it are finished
\* (_unload_lora_adapter_locked), and an adapter that some rank failed to load is
\* not offered (_merge_lora_update_results).
InUseIsLoaded ==
  \A r \in Requests : \A i \in InUse(r) : \A k \in Ranks : i \in loaded[k]

\* What a request can be given is there: every id that is registered, and the one that
\* wait_for_unload waits for, has a counter and is loaded on every rank, whatever
\* updates fail on some of them, race each other or evict (_merge_lora_update_results
\* before register; unregister and wait_for_unload before the ranks are asked).
OfferedIsLoaded ==
  \A i \in Range(registry) \cup (IF stage.at = "draining" THEN {stage.id} ELSE {}) :
    i \in DOMAIN counters /\ \A k \in Ranks : i \in loaded[k]

\* A name is registered under one id, also between two updates of one name that wait for
\* the lock: _register_adapter never raises "already exists" for a load that all ranks
\* have done, since a name that is registered is refused by a rank (validate_new_adapter).
NameRegisteredOnce ==
  /\ \A i, j \in Range(registry) : refs[i] = refs[j] => i = j
  /\ stage.at = "loading" /\ (\A k \in Ranks : CanLoad(k, refs[stage.id])) =>
       ~IsRegistered(registry, refs[stage.id])

Started(r) == req[r].phase \in {"counting", "acquired", "sent"}

\* A valid request whose adapter was loaded once is served, whatever loads, evictions
\* and unloads come between its arrival, its implicit load and its acquire, unless a rank
\* failed an update: it is not refused, and no update before it keeps the lock for ever.
EverLoadedIsServed ==
  \A r \in {q \in Requests \ Invalid : Range(Sent[q].paths) \subseteq Range(Startup)} :
    req[r].phase # "new" ~> (Started(r) \/ faults > 0)
=============================================================================
