-------------------------- MODULE StickyLastSequence --------------------------
(***************************************************************************)
(* StickyLastSequenceCache with the two parties that have to agree with    *)
(* it: the scheduler, which asks for a cached prefix and processes results *)
(* one forward late (event_loop_overlap, one request at a time), and the   *)
(* DSpark worker, whose CSA2 image and snapshots (Csa2Boundary) advance    *)
(* when a forward is launched.                                             *)
(*                                                                         *)
(* Tokens are numbers and every sampled token is ReplyToken: what the      *)
(* model says does not matter here, only whether a later prompt repeats    *)
(* it.  An iteration of the loop is one step; clients act in between.      *)
(* The pool has page size 1 and holds the pin and one request of maximal   *)
(* length, so admission by tokens never refuses.                           *)
(***************************************************************************)
EXTENDS Csa2Session

CONSTANTS
  Tails,          \* what a client may put after the part of the chat it keeps
  Keys,           \* values of (extra_key, cache_salt)
  Wants,          \* max_new_tokens
  ChunkSize,      \* chunked_prefill_size
  MaxCommit,      \* tokens one verify may commit
  MaxLen,         \* longest prompt
  ChatsKept,      \* conversations that clients come back to
  MaxRequests,    \* bound on the requests of a behaviour
  PoolTokens,     \* size of the KV pool
  HealthProbes,   \* a client calls /health_generate
  CrashInMatch    \* the server may die between the two writes of a spill

ASSUME StickyAssumption ==
  /\ ChunkSize > 0 /\ MaxCommit > 0 /\ MaxLen > 1
  /\ PoolTokens >= 2 * (MaxLen + Max(Wants) + MaxCommit)

VARIABLES
  slot,          \* row of the pinned ReqKvInfo (_slot), NoRow without a pin
  last_ids, last_key, cuts,
  free_slots,    \* rows of req_to_token_pool that nobody holds
  kv,            \* row -> kv_allocated_len
  avail,         \* tokens of the KV pool that nobody holds
  waiting,       \* waiting_queue
  cur,           \* the one request that runs, chunked_req included
  result,        \* the result not processed yet
  store, rows, ring,
  disk,          \* saved sessions, oldest first
  chats,         \* the last conversations as their clients saw them, newest first
  turns,         \* requests sent
  fault

vars == <<slot, last_ids, last_key, cuts, free_slots, kv, avail, waiting, cur,
          result, store, rows, ring, disk, chats, turns, fault>>

Rows == {1, 2}            \* max_running_requests + 1
NoRow == 0
ReplyToken == 1
HealthIds == <<0>>

NoReq == [ids |-> <<>>]
NoResult == [mode |-> "none", n |-> 0, drop |-> TRUE]

\* prefix: cached tokens; end: extend_range.end; seq: seq_lens of the next verify.
NewReq(ids, key, max_new, health) ==
  [ids |-> ids, key |-> key, max_new |-> max_new, health |-> health, out |-> 0,
   row |-> NoRow, prefix |-> 0, end |-> 0, seq |-> 0, to_finish |-> FALSE]

Reply(n) == [i \in 1..n |-> ReplyToken]
AllIds(q) == q.ids \o Reply(q.out)
Take(ids, n) == SubSeq(ids, 1, n)
Chunked(q) == q.end < Len(q.ids)

Init ==
  /\ slot = NoRow /\ last_ids = <<>> /\ last_key = CHOOSE k \in Keys : TRUE
  /\ cuts = <<>>
  /\ free_slots = Rows /\ kv = [r \in Rows |-> 0] /\ avail = PoolTokens
  /\ waiting = <<>> /\ cur = NoReq /\ result = NoResult
  /\ store = EmptyStore /\ rows = <<>> /\ ring = <<>> /\ disk = <<>>
  /\ chats = <<>> /\ turns = 0 /\ fault = {}

State ==
  [slot |-> slot, last_ids |-> last_ids, last_key |-> last_key, cuts |-> cuts,
   free_slots |-> free_slots, kv |-> kv, avail |-> avail, waiting |-> waiting,
   cur |-> cur, result |-> result, store |-> store, rows |-> rows, ring |-> ring,
   disk |-> disk, spill |-> NoSession, load |-> NoSession, chats |-> chats, fault |-> fault]

Becomes(s) ==
  /\ slot' = s.slot /\ last_ids' = s.last_ids /\ last_key' = s.last_key
  /\ cuts' = s.cuts /\ free_slots' = s.free_slots /\ kv' = s.kv
  /\ avail' = s.avail /\ waiting' = s.waiting /\ cur' = s.cur
  /\ result' = s.result /\ store' = s.store /\ rows' = s.rows
  /\ ring' = s.ring /\ disk' = s.disk /\ chats' = s.chats /\ fault' = s.fault

---------------------------------------------------------------------------
(* The pin.                                                                *)

\* Set kv_allocated_len of row r, taking from the pool or giving back.
SetAllocated(s, r, n) == [s EXCEPT !.kv[r] = n, !.avail = @ + s.kv[r] - n]

free_row(s, r) ==
  Fail([SetAllocated(s, r, 0) EXCEPT !.free_slots = @ \cup {r}],
       r \in s.free_slots, "row freed twice")

clear_pin(s) == [s EXCEPT !.slot = NoRow, !.last_ids = <<>>, !.cuts = <<>>]

\* Bug variant: the pin is forgotten but its row is kept.
drop_slot_Leaks(s) == clear_pin(s)

drop_slot(s) ==
  LET t == clear_pin(s) IN IF s.slot = NoRow THEN t ELSE free_row(t, s.slot)

free_tail(s, r, prefix_len) == SetAllocated(s, r, Min({s.kv[r], prefix_len}))

is_exact_continuation(new_ids, ids) == ids # <<>> /\ IsPrefix(ids, new_ids)

longest_cut(cs, new_ids, ids) ==
  Max({0} \cup {n \in Range(cs) : /\ 0 < n /\ n < Len(ids) /\ n <= Len(new_ids)
                                  /\ Take(new_ids, n) = Take(ids, n)})

note_cut(s, ids, stop) ==
  LET same(n) == n <= Len(ids) /\ IsPrefix(Take(ids, n), s.last_ids)
      kept == IF s.last_ids = <<>> THEN s.cuts ELSE SelectSeq(s.cuts, same)
  IN  [s EXCEPT !.cuts = IF stop <= 0 \/ stop > Len(ids) THEN kept
                         ELSE evict_recent(Append(Remove(kept, stop), stop))]

\* Bug variant: the whole prompt is pinned, computed or not.
aborted_prefix_len_WholePrompt(s, q) == Min({Len(AllIds(q)), s.kv[q.row]})

aborted_prefix_len(s, q) ==
  LET limit == Min({Len(AllIds(q)), s.kv[q.row]})
  IN  Max({0} \cup {n \in Range(s.cuts) \cup {q.end} : n <= limit})

\* Keep the last snapshotted stop of an aborted request as the pin.
pin_aborted_prefix(s, q, pin_len) ==
  LET ids == AllIds(q)
      s1 == IF s.slot \notin {NoRow, q.row} THEN free_row(s, s.slot) ELSE s
      same(n) == n <= pin_len /\ (s.last_ids = <<>> \/ IsPrefix(Take(ids, n), s.last_ids))
      kept == SelectSeq(s.cuts, same)
  IN  [free_tail(s1, q.row, pin_len) EXCEPT
         !.slot = q.row,
         !.last_ids = Take(ids, pin_len),
         !.last_key = q.key,
         !.cuts = evict_recent(IF pin_len \in Range(kept) THEN kept ELSE Append(kept, pin_len))]

pin_finished(s, q, finished_len) ==
  LET ids == q.ids \o Reply(finished_len)
      s1 == Fail(free_tail(s, q.row, Len(ids)),
                 s.slot \notin {NoRow, q.row}, "finished row is not the pinned row")
  IN  [note_cut(s1, ids, Len(ids)) EXCEPT
         !.slot = q.row, !.last_ids = ids, !.last_key = q.key]

\* Bug variant: the early return for a health probe leaves its row behind.
cache_finished_req_ProbeLeaks(s, q, aborted, finished_len) ==
  LET pin_len == aborted_prefix_len(s, q)
  IN  CASE q.health               -> s
        [] ~q.health /\ ~aborted  -> pin_finished(s, q, finished_len)
        [] OTHER                  -> pin_aborted_prefix(s, q, pin_len)

\* release_kv_cache on a request that ended.  ChunkCache frees what the sticky
\* cache did not take over.
cache_finished_req(s, q, aborted, finished_len) ==
  LET pin_len == aborted_prefix_len(s, q)
  IN  CASE q.health               -> free_row(s, q.row)
        [] ~q.health /\ ~aborted  -> pin_finished(s, q, finished_len)
        [] ~q.health /\ aborted /\ pin_len > 0 -> pin_aborted_prefix(s, q, pin_len)
        [] OTHER -> free_row(IF s.slot = q.row THEN clear_pin(s) ELSE drop_slot(s), q.row)

\* The request leaves; a forward of it that was launched is not applied.
EndRequest(s, q, aborted, finished_len) ==
  [cache_finished_req(s, q, aborted, finished_len) EXCEPT
     !.cur = NoReq,
     !.result.drop = TRUE,
     !.chats = LET seen == IF aborted THEN AllIds(q) ELSE q.ids \o Reply(finished_len)
               IN  IF q.health THEN @ ELSE Take(<<seen>> \o @, Min({ChatsKept, Len(@) + 1}))]

\* The prefix that the pin has of new_ids.
PinnedPrefix(s, q, new_ids) ==
  CASE q.key # s.last_key                            -> 0
    [] is_exact_continuation(new_ids, s.last_ids)    -> Len(s.last_ids)
    [] OTHER                                         -> longest_cut(s.cuts, new_ids, s.last_ids)

try_hit(s, q, n) ==
  [free_tail(s, s.slot, n) EXCEPT
     !.cur = [q EXCEPT !.row = s.slot, !.prefix = n],
     !.cuts = IF n < Len(s.last_ids) THEN SelectSeq(@, LAMBDA c : c <= n) ELSE @]

SavedPrefix(record, q, new_ids) ==
  CASE record.key # q.key                         -> 0
    [] is_exact_continuation(new_ids, record.ids) -> Len(record.ids)
    [] OTHER                                      -> longest_cut(record.cuts, new_ids, record.ids)

\* The row that takes the adopted prefix: the pinned one, grown or cut, or a new one.
ensure_slot(s, n) ==
  IF s.slot # NoRow THEN SetAllocated(s, s.slot, n)
  ELSE LET r == CHOOSE x \in s.free_slots : TRUE
       IN  [SetAllocated(s, r, n) EXCEPT !.slot = r, !.free_slots = @ \ {r}]

adopt_saved(s, q, record, n) ==
  LET s1 == ensure_slot(s, n)
  IN  [s1 EXCEPT !.load = KeyOf(record),
                 !.last_ids = record.ids, !.last_key = record.key,
                 !.cuts = SelectSeq(record.cuts, LAMBDA c : c <= n),
                 !.cur = [q EXCEPT !.row = s1.slot, !.prefix = n]]

\* The pinned conversation is catalogued and its spill asked for, pin or not;
\* then the session with the longest usable prefix is adopted, the oldest of them.
match_saved_session(s, q, new_ids) ==
  LET current == session_key(s.last_ids, s.last_key)
      s1 == IF s.last_ids = <<>> THEN s
            ELSE [s EXCEPT !.disk = remember(@, current, s.cuts), !.spill = current]
      len(i) == IF image_ready(s1.disk[i]) /\ KeyOf(s1.disk[i]) # current
                THEN SavedPrefix(s1.disk[i], q, new_ids) ELSE 0
      best == Max({0} \cup {len(i) : i \in DOMAIN s1.disk})
  IN  IF best = 0 THEN [drop_slot(s1) EXCEPT !.cur = q]
      ELSE adopt_saved(s1, q, s1.disk[Min({i \in DOMAIN s1.disk : len(i) = best})], best)

\* init_next_round_input: the last token of a prompt is never matched.
match_prefix(s, q) ==
  LET new_ids == Take(q.ids, Len(q.ids) - 1)
      s1 == IF s.slot \in s.free_slots THEN clear_pin(s) ELSE s
      n == IF s1.slot = NoRow THEN 0 ELSE PinnedPrefix(s1, q, new_ids)
  IN  CASE q.health                      -> [s EXCEPT !.cur = q]
        [] ~q.health /\ n > 0            -> try_hit(s1, q, n)
        [] ~q.health /\ n = 0 /\ SessionKeep > 0 -> match_saved_session(s1, q, new_ids)
        [] OTHER                         -> [drop_slot(s1) EXCEPT !.cur = q]

---------------------------------------------------------------------------
(* Forwards.                                                               *)

\* What the verify in flight when a reply ends, and the block it ends in, may
\* leave in the ring beyond the pin.
MaxSlack == 2 * MaxCommit - 2

\* The image that a forward at position n starts from is of these ids; one that
\* starts at 0 reads nothing of it.
ImageIsOf(s, ids, n) ==
  n > 0 => /\ Len(s.rows) >= n /\ Take(s.rows, n) = Take(ids, n)
           /\ Len(s.ring) \in n..(n + MaxSlack) /\ Take(s.ring, n) = Take(ids, n)

\* Run positions start+1 .. end of ids.  Nothing runs after a RuntimeError.
Forward(s, ids, start, end) ==
  CASE s.fault # {}             -> s
    [] ~ImageIsOf(s, ids, start) -> Fail(s, TRUE, "forward on another sequence's image")
    [] OTHER                     -> [s EXCEPT !.rows = Take(ids, end), !.ring = Take(ids, end)]

\* The row and the KV of an extend (alloc_for_extend).
alloc_for_extend(s, end) ==
  LET fresh == s.cur.row = NoRow
      r == IF fresh THEN CHOOSE x \in s.free_slots : TRUE ELSE s.cur.row
  IN  IF fresh /\ s.free_slots = {} THEN Fail(s, TRUE, "no request row")
      ELSE [SetAllocated(s, r, end) EXCEPT !.free_slots = @ \ {r}, !.cur.row = r]

\* One prefill forward of cur, from its cached prefix to the end of the chunk.
Extend(s) ==
  LET start == s.cur.prefix
      end == Min({Len(s.cur.ids), start + ChunkSize})
      s1 == alloc_for_extend(s, end)
      s2 == Forward(csa2_prepare_extend(s1, start), s.cur.ids, start, end)
  IN  [csa2_finish_forward(s2, end, TRUE) EXCEPT
         !.cur.end = end, !.cur.seq = end,
         !.result = [mode |-> IF end < Len(s.cur.ids) THEN "chunk" ELSE "extend",
                     n |-> 1, drop |-> FALSE]]

\* One verify forward that commits n tokens.
Verify(s, n) ==
  LET q == s.cur
      keep == cap_verify_commit(q.seq, n, Len(q.ids) + q.max_new)
      s1 == csa2_prepare_decode(SetAllocated(s, q.row, Max({s.kv[q.row], q.seq + MaxCommit})))
      s2 == IF keep = 0 THEN s1
            ELSE Forward(s1, q.ids \o Reply(q.seq + keep - Len(q.ids)), q.seq, q.seq + keep)
  IN  [csa2_finish_forward(s2, q.seq + keep, FALSE) EXCEPT
         !.cur.seq = q.seq + n,
         !.result = [mode |-> "verify", n |-> n, drop |-> FALSE]]

---------------------------------------------------------------------------
(* The scheduler loop.                                                     *)

\* get_next_batch_to_run, first part: an aborted chunked prefill is released,
\* a chunk that goes on is stashed.
process_pending_chunked_abort(s) ==
  IF s.cur # NoReq /\ Chunked(s.cur) /\ s.cur.to_finish
  THEN EndRequest(s, s.cur, TRUE, 0) ELSE s

stash_chunked_request(s) ==
  IF s.cur # NoReq /\ Chunked(s.cur)
  THEN [note_cut(s, s.cur.ids, s.cur.end) EXCEPT !.cur.prefix = s.cur.end] ELSE s

\* Rows for a new request; an idle pin counts as one.
get_num_allocatable_reqs(s) ==
  Cardinality(s.free_slots) + (IF s.slot # NoRow THEN 1 ELSE 0)

\* Second part: what is launched.  n is what a verify commits.
run_batch(s, n) ==
  CASE s.cur # NoReq /\ Chunked(s.cur)  -> Extend(s)
    [] s.cur # NoReq /\ ~Chunked(s.cur) -> Verify(s, n)
    [] s.cur = NoReq /\ s.waiting # <<>> /\ get_num_allocatable_reqs(s) > 0 ->
         Extend(match_prefix([s EXCEPT !.waiting = Tail(@)], Head(s.waiting)))
    [] OTHER -> [s EXCEPT !.result = NoResult]

\* The reply may stop at the eos-th of the new tokens (0: it does not).
process_batch_result(s, res, eos) ==
  LET q == [s.cur EXCEPT !.out = @ + res.n]
      stop == Min({q.max_new} \cup {s.cur.out + i : i \in {eos} \ {0}})
  IN  CASE res.drop \/ res.mode = "chunk" -> s
        [] ~res.drop /\ q.to_finish -> EndRequest(s, q, TRUE, 0)
        [] ~res.drop /\ ~q.to_finish /\ (eos > 0 \/ q.out >= q.max_new) ->
             EndRequest(s, q, FALSE, stop)
        [] res.mode = "extend" -> [note_cut(s, AllIds(q), q.end) EXCEPT !.cur = q]
        [] OTHER -> [s EXCEPT !.cur = q]

Idle == cur = NoReq /\ waiting = <<>> /\ result = NoResult

\* The batch is launched first, then the result of the one before is processed.
Iterations(s) ==
  {process_batch_result(run_batch(s, n), s.result, eos) :
     n \in 1..MaxCommit, eos \in 0..s.result.n}

\* One iteration of event_loop_overlap.
Iterate ==
  /\ ~Idle /\ fault = {}
  /\ \E t \in Iterations(stash_chunked_request(process_pending_chunked_abort(State))) : Becomes(t)
  /\ UNCHANGED turns

\* A turn of a chat: part of what its client saw, and something new.
HandleGenerate ==
  /\ turns < MaxRequests /\ waiting = <<>> /\ fault = {}
  /\ \E c \in Range(chats) \cup {<<>>}, t \in Tails, key \in Keys, want \in Wants :
       \E k \in 0..Min({Len(c), MaxLen - Len(t)}) :
         waiting' = <<NewReq(Take(c, k) \o t, key, want, FALSE)>>
  /\ turns' = turns + 1
  /\ UNCHANGED <<slot, last_ids, last_key, cuts, free_slots, kv, avail, cur,
                 result, store, rows, ring, disk, chats, fault>>

\* /health_generate; a busy scheduler answers it without running it.
HealthGenerate ==
  /\ HealthProbes /\ Idle /\ turns < MaxRequests /\ fault = {}
  /\ waiting' = <<NewReq(HealthIds, CHOOSE k \in Keys : TRUE, 1, TRUE)>>
  /\ turns' = turns + 1
  /\ UNCHANGED <<slot, last_ids, last_key, cuts, free_slots, kv, avail, cur,
                 result, store, rows, ring, disk, chats, fault>>

AbortRequest ==
  /\ fault = {}
  /\ \/ /\ waiting # <<>>
        /\ waiting' = <<>>
        /\ UNCHANGED cur
     \/ /\ cur # NoReq /\ ~cur.to_finish
        /\ cur' = [cur EXCEPT !.to_finish = TRUE]
        /\ UNCHANGED waiting
  /\ UNCHANGED <<slot, last_ids, last_key, cuts, free_slots, kv, avail,
                 result, store, rows, ring, disk, chats, turns, fault>>

\* flush_cache on an idle server: the pools start over, the image stays.
FlushCache ==
  /\ Idle /\ slot # NoRow /\ fault = {}
  /\ Becomes([drop_slot(State) EXCEPT !.free_slots = Rows, !.kv = [r \in Rows |-> 0],
                                      !.avail = PoolTokens])
  /\ UNCHANGED turns

\* The server dies and is started again: files survive.  With CrashInMatch it
\* may die after a match has written its catalog entry and before the worker
\* has written the image.
Restart ==
  /\ \/ disk' = disk
     \/ /\ CrashInMatch /\ fault = {} /\ cur = NoReq /\ waiting # <<>>
        /\ disk' = match_prefix(State, Head(waiting)).disk
  /\ slot' = NoRow /\ last_ids' = <<>> /\ cuts' = <<>>
  /\ free_slots' = Rows /\ kv' = [r \in Rows |-> 0] /\ avail' = PoolTokens
  /\ waiting' = <<>> /\ cur' = NoReq /\ result' = NoResult
  /\ store' = EmptyStore /\ rows' = <<>> /\ ring' = <<>>
  /\ fault' = {}
  /\ UNCHANGED <<last_key, chats, turns>>

Next == Restart \/ Iterate \/ HandleGenerate \/ HealthGenerate \/ AbortRequest \/ FlushCache

Spec == Init /\ [][Next]_vars

LoopHasWork ==
  /\ fault = {}
  /\ \/ cur # NoReq
     \/ result # NoResult
     \/ waiting # <<>> /\ get_num_allocatable_reqs(State) > 0

\* Weak fairness of Iterate, written out (LoopHasWork is when it changes the
\* state): the loop is a while True and never sleeps while it has work.
FairSpec == Spec /\ ([]<>~LoopHasWork \/ []<><<Iterate>>_vars)

---------------------------------------------------------------------------
(* Properties.                                                             *)

\* There is a pin exactly when there are pinned ids, and neither side keeps more
\* than BOUNDARY_KEEP stops (evict_recent); the store has one snapshot for each.
TypeOK ==
  /\ slot \in Rows \cup {NoRow} /\ (slot = NoRow <=> last_ids = <<>>)
  /\ free_slots \subseteq Rows /\ avail \in 0..PoolTokens
  /\ \A r \in Rows : kv[r] \in 0..PoolTokens
  /\ Len(cuts) <= BoundaryKeep /\ Len(store.order) <= BoundaryKeep
  /\ DOMAIN store.history = Range(store.order)

\* No RuntimeError of the worker, no failed assert, no forward on the image of
\* another conversation.
NoFault == fault = {}

\* A row is held by the pin or by the request that runs, and a row nobody holds has no
\* KV.  A request that runs beside a pin runs in its row and from its prefix (a hit, or a
\* restored session), unless it is a health probe, which has a row of its own.
RowsHaveHolders ==
  /\ {slot} \cup (IF cur = NoReq THEN {} ELSE {cur.row}) \subseteq (Rows \ free_slots) \cup {NoRow}
  /\ Rows \ free_slots \subseteq {slot} \cup (IF cur = NoReq THEN {} ELSE {cur.row})
  /\ cur # NoReq /\ slot # NoRow =>
       IF cur.health THEN cur.row # slot ELSE cur.row = slot /\ cur.prefix > 0
  /\ \A r \in free_slots : kv[r] = 0
  /\ avail = PoolTokens - MapThenSumSet(LAMBDA r : kv[r], Rows)

\* Every prefix that the pin of an idle server can return, the worker can
\* resume: it finds an image of just those tokens.
PinIsServable ==
  cur = NoReq /\ slot # NoRow =>
    \A n \in {Len(last_ids)} \cup {c \in Range(cuts) : c < Len(last_ids)} :
      LET s == PrepareResident(State, n)
      IN  /\ kv[slot] >= n
          /\ s.fault = fault
          /\ ImageIsOf(s, last_ids, n)

\* Every prefix that a saved session offers, the image beside it can resume.
SavedIsServable ==
  \A i \in DOMAIN disk :
    image_ready(disk[i]) =>
      \A n \in {Len(disk[i].ids)} \cup {c \in Range(disk[i].cuts) : c < Len(disk[i].ids)} :
        LET s == PrepareResident(load_resident([State EXCEPT !.load = KeyOf(disk[i])]), n)
        IN  s.fault = fault /\ ImageIsOf(s, disk[i].ids, n)

\* Every request is answered while the server lives: neither the pin nor a
\* health probe keeps the row that the next request waits for
\* (get_num_allocatable_reqs, the early return of cache_finished_req).
EveryRequestEnds == (waiting # <<>>) ~> (fault # {} \/ (waiting = <<>> /\ cur = NoReq))
=============================================================================
