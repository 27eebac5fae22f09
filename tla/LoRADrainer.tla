----------------------------- MODULE LoRADrainer -----------------------------
(***************************************************************************)
(* Scheduling of LoRA requests: a batch holds at most max_loras_per_batch  *)
(* adapters, the base model counted as one, and the drainer stops running  *)
(* adapters from taking new requests when another adapter starves.         *)
(*                                                                         *)
(* A round is one pass of get_next_batch_to_run with its forward: it runs  *)
(* the new prefill batch if there is one, otherwise one decode step.  Time *)
(* is counted in rounds.  The queue is served first come, first served;    *)
(* memory is not modelled, and no adapter is pinned.                       *)
(***************************************************************************)
EXTENDS Integers, FiniteSets, Sequences, SequencesExt

CONSTANTS
  Adapters,      \* lora_ids
  Base,          \* None: the lora_id of the base model, and no adapter to drain for
  Requested,     \* the lora_ids that requests keep asking for
  MaxLoras,      \* max_loras_per_batch
  MaxRunning,    \* requests in the running batch
  MaxWaiting,    \* requests in the waiting queue
  Threshold,     \* lora_drain_wait_threshold, in rounds
  MinNew,        \* the tokens before which no request stops
  MaxNew         \* max_new_tokens of every request

Loras == Adapters \union {Base}

ASSUME DrainerAssumption ==
  /\ Requested \subseteq Loras
  /\ Base \notin Adapters /\ IsFiniteSet(Adapters)
  /\ MaxLoras \in Nat \ {0} /\ MaxRunning \in Nat \ {0} /\ MaxWaiting \in Nat
  /\ Threshold \in Nat /\ MaxNew \in Nat \ {0} /\ MinNew \in 1..MaxNew

VARIABLES
  waiting,       \* waiting queue: [lora, age]
  running,       \* running batch: [lora, left, done], finished requests included
  draining,      \* is_draining_for of every adapter
  scheduled      \* the adapters of the last prefill batch

vars == <<waiting, running, draining, scheduled>>

Init ==
  /\ waiting = <<>> /\ running = <<>>
  /\ draining = [l \in Loras |-> Base] /\ scheduled = {}

---------------------------------------------------------------------------
(* The drainer.                                                            *)

\* running_adapter_ids: finished requests that no decode step has filtered count.
RunningIds == {q.lora : q \in Range(running)}

\* _update_adapter_stats, the tokens that running requests may still generate.
RemainingNow ==
  [l \in Loras |-> Max({0} \union {q.left : q \in {p \in Range(running) : p.lora = l}})]

\* The adapters with a request that waits too long, the longest wait first.
Starving ==
  LET late == SelectSeq(waiting, LAMBDA q : q.age > Threshold)
  IN FoldLeft(LAMBDA s, q : IF q.lora \in Range(s) THEN s ELSE Append(s, q.lora), <<>>, late)

DrainedFor == {draining[l] : l \in Loras} \ {Base}

\* The starving adapters that no adapter drains for.
NewStarving == SelectSeq(Starving, LAMBDA l : l \notin DrainedFor)

\* Running adapters that do not drain, in an order of their remaining tokens.
Eligible == {l \in RunningIds : draining[l] = Base}
DrainOrders ==
  {s \in SetToSeqs(Eligible) :
     \A i, j \in DOMAIN s : i < j => RemainingNow[s[i]] <= RemainingNow[s[j]]}

\* Bug variant: no adapter is marked.
MarkDraining_Never(order) == draining

\* _update_draining_loras: one eligible adapter for each new starving one.
MarkDraining(order) ==
  IF Cardinality(RunningIds) < MaxLoras THEN draining
  ELSE [l \in Loras |->
         IF \E k \in DOMAIN order \cap DOMAIN NewStarving : order[k] = l
         THEN NewStarving[CHOOSE k \in DOMAIN order : order[k] = l]
         ELSE draining[l]]

\* _update_fully_drained_loras.
ClearDrained(drains) == [l \in Loras |-> IF l \in RunningIds THEN drains[l] ELSE Base]

\* can_schedule: a draining adapter takes what ends within 1.2 of its remaining tokens.
DrainerAllows(lora, drains) ==
  drains[lora] = Base \/ MaxNew * 5 <= RemainingNow[lora] * 6

---------------------------------------------------------------------------
(* The scheduler.                                                          *)

\* validate_lora_batch without pinned adapters.
HasSlot(lora, loras) == Cardinality(loras \union {lora}) <= MaxLoras

\* get_num_allocatable_reqs, with taken in the prefill batch already.
HasRoom(taken) == Len(running) + Cardinality(taken) < MaxRunning

UnfinishedIds == {q.lora : q \in {p \in Range(running) : ~p.done}}

\* The loop over the waiting queue: the indices of the requests that are admitted.
Admitted(drains) ==
  LET Try(acc, k) ==
        LET lora == waiting[k].lora
        IN IF /\ HasRoom(acc.taken)
              /\ DrainerAllows(lora, drains)
              /\ lora \in acc.loras \/ HasSlot(lora, acc.loras)
           THEN [taken |-> acc.taken \union {k}, loras |-> acc.loras \union {lora}]
           ELSE acc
  IN FoldLeft(Try, [taken |-> {}, loras |-> UnfinishedIds],
              [k \in DOMAIN waiting |-> k]).taken

Older(q) == [q EXCEPT !.age = IF @ > Threshold THEN @ ELSE @ + 1]

\* A token more; the request may stop at any from MinNew on, and does at MaxNew.
Generate(q, stop) ==
  [q EXCEPT !.left = @ - 1,
            !.done = (stop /\ MaxNew - q.left + 1 >= MinNew) \/ q.left = 1]

\* The prefill of the requests at the indices taken joins the running batch.
Prefill(taken) ==
  LET fresh == [k \in 1..Cardinality(taken) |->
                  [lora |-> waiting[SetToSortSeq(taken, <)[k]].lora,
                   left |-> MaxNew, done |-> FALSE]]
  IN \E stops \in SUBSET DOMAIN fresh :
       /\ running' = running \o
            SelectSeq([k \in DOMAIN fresh |-> Generate(fresh[k], k \in stops)],
                      LAMBDA q : ~q.done)
       /\ waiting' = [k \in 1..(Len(waiting) - Cardinality(taken)) |->
                       Older(waiting[SetToSortSeq(DOMAIN waiting \ taken, <)[k]])]
       /\ scheduled' = {q.lora : q \in Range(fresh)}

\* A decode step: finished requests are filtered, the others generate a token.
Decode ==
  /\ LET alive == SelectSeq(running, LAMBDA q : ~q.done)
     IN \E stops \in SUBSET DOMAIN alive :
          running' = [k \in DOMAIN alive |-> Generate(alive[k], k \in stops)]
  /\ waiting' = [k \in DOMAIN waiting |-> Older(waiting[k])]
  /\ scheduled' = {}

\* _get_new_batch_prefill_raw returns before the drainer when the batch is full or
\* nothing waits.
Round ==
  \/ /\ waiting # <<>> /\ HasRoom({})
     /\ \E order \in DrainOrders :
          /\ draining' = ClearDrained(MarkDraining(order))
          /\ LET taken == Admitted(draining')
             IN \/ taken # {} /\ Prefill(taken)
                \/ taken = {} /\ Decode
  \/ /\ running # <<>> /\ (waiting = <<>> \/ ~HasRoom({}))
     /\ Decode /\ UNCHANGED draining

\* A request arrives.
Arrive(lora) ==
  /\ Len(waiting) < MaxWaiting
  /\ waiting' = Append(waiting, [lora |-> lora, age |-> 0])
  /\ UNCHANGED <<running, draining, scheduled>>

Next == Round \/ \E lora \in Requested : Arrive(lora)

Spec == Init /\ [][Next]_vars

\* The scheduler's loop runs on.
FairSpec == Spec /\ WF_vars(Round)

---------------------------------------------------------------------------
(* Properties.                                                             *)

WaitsTooLong(lora) == \E q \in Range(waiting) : q.lora = lora /\ q.age > Threshold

\* An adapter that starves gets to run, however many requests for the running adapters
\* keep arriving: draining adapters complete and free their slots.
StarvingIsServed ==
  \A lora \in Adapters : WaitsTooLong(lora) ~> lora \in scheduled
=============================================================================
