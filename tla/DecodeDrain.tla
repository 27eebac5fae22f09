----------------------------- MODULE DecodeDrain -----------------------------
(***************************************************************************)
(* Prefill/decode disaggregation (mooncake): one request whose KV pages on *)
(* one decode rank are written by several prefill ranks, from the moment   *)
(* the decode rank has sent its page indices.  The decode scheduler may    *)
(* abort the request while a prefill rank writes; with the deferred        *)
(* release it holds the pages until every rank has acknowledged that its   *)
(* transfer drained, or until a deadline.                                  *)
(*                                                                         *)
(* Threads: on the decode rank the scheduler and the receiver thread, on a *)
(* prefill rank the scheduler (the sender), the bootstrap thread and one   *)
(* transfer worker.  A socket is a FIFO; a send that raises is a message   *)
(* lost.  The ranks of the prefill side agree on a poll (all-reduce) and   *)
(* act on it each in its own time.                                         *)
(***************************************************************************)
EXTENDS Naturals, Sequences, FiniteSets

CONSTANTS
  Prefills,      \* prefill ranks that send to this decode rank (bootstrap_infos)
  Chunks,        \* chunks a rank sends, the last one included
  MaxAborts,     \* AbortReqs that the client sends
  NodeFailures   \* the heartbeat may declare the prefill instance dead

ASSUME DrainAssumption ==
  /\ IsFiniteSet(Prefills) /\ Prefills # {}
  /\ Chunks \in Nat \ {0} /\ MaxAborts \in Nat

VARIABLES
  status,        \* prefill rank -> request_status of the room
  infos,         \* prefill rank -> transfer_infos has the room
  sender,        \* prefill rank -> the sender's thread
  sent,          \* prefill rank -> chunks handed to add_transfer_request
  queue,         \* prefill rank -> transfer queue; TRUE is the last chunk
  worker,        \* prefill rank -> the transfer worker: pc and chunk
  outstanding,   \* prefill rank -> _staging_outstanding of the room
  target,        \* prefill rank -> _deferred_ack_targets has the room
  boot,          \* prefill rank -> where the bootstrap thread is in an ABORT
  written,       \* prefill rank -> chunks written to the end
  verdict,       \* what the prefill ranks have agreed on
  toPrefill, toDecode,
  dstatus,       \* request_status of the room on the decode rank
  responses,     \* prefill_response_tracker
  notified,      \* abort_notified
  armed,         \* _deferred_abort_ack_tracker has the room
  acks,          \* its set: the ranks that have acknowledged
  arming,        \* the scheduler has sent its ABORT and not armed the room
  place,         \* where the request is, or how its pages were given up
  aborts

prefillVars == <<status, infos, sender, sent, queue, worker, outstanding, target,
                 boot, written, verdict>>
decodeVars == <<dstatus, responses, notified, armed, acks, arming, place, aborts>>
vars == <<prefillVars, decodeVars, toPrefill, toDecode>>

Idle == [pc |-> "idle", last |-> FALSE]

Init ==
  /\ status = [p \in Prefills |-> "none"] /\ infos = [p \in Prefills |-> FALSE]
  /\ sender = [p \in Prefills |-> "new"] /\ sent = [p \in Prefills |-> 0]
  /\ queue = [p \in Prefills |-> <<>>] /\ worker = [p \in Prefills |-> Idle]
  /\ outstanding = [p \in Prefills |-> 0] /\ target = [p \in Prefills |-> FALSE]
  /\ boot = [p \in Prefills |-> "recv"] /\ written = [p \in Prefills |-> 0]
  /\ verdict = "bootstrap"
  /\ toPrefill = [p \in Prefills |-> <<"info">>] /\ toDecode = [p \in Prefills |-> <<>>]
  /\ dstatus = "waiting" /\ responses = {} /\ notified = FALSE
  /\ armed = FALSE /\ acks = {} /\ arming = FALSE /\ place = "queue" /\ aborts = 0

Level(s) == CASE s = "bootstrapping" -> 1 [] s = "waiting" -> 2 [] s = "success" -> 4

\* Only an opening status creates a room; Failed is terminal.
update_status(old, new) ==
  CASE old = "none"                            -> IF new \in {"bootstrapping", "waiting"} THEN new ELSE old
    [] old # "none" /\ "failed" \in {old, new} -> "failed"
    [] OTHER                                   -> IF Level(old) < Level(new) THEN new ELSE old

UpdateStatus(p, new) == status' = [status EXCEPT ![p] = update_status(@, new)]

InTransfer == place \in {"queue", "held"}

\* Best effort: the send may raise.  The decode rank ignores what it receives
\* for a request that has left its transfer queue and is not held.
SendToDecode(p, m) ==
  \/ UNCHANGED toDecode
  \/ InTransfer /\ toDecode' = [toDecode EXCEPT ![p] = Append(@, m)]

---------------------------------------------------------------------------
(* A prefill rank: the scheduler.                                          *)

SenderInit(p) ==
  /\ sender[p] = "new"
  /\ sender' = [sender EXCEPT ![p] = "live"]
  /\ UpdateStatus(p, "bootstrapping")
  /\ UNCHANGED <<infos, sent, queue, worker, outstanding, target, boot, written,
                 verdict, decodeVars, toPrefill, toDecode>>

\* Success is held back while a chunk is outstanding.
Poll(p) == IF status[p] = "success" /\ outstanding[p] > 0 THEN "transferring" ELSE status[p]

PollIs(s) ==
  \/ s = "failed" /\ \E p \in Prefills : Poll(p) = s
  \/ s # "failed" /\ \A p \in Prefills : Poll(p) = s

\* pop_bootstrapped, and process_disagg_prefill_inflight_queue once the last
\* chunk is handed over.
PollPrefill ==
  /\ \A p \in Prefills : sender[p] = "live"
  /\ \/ /\ verdict = "bootstrap"
        /\ \E s \in {"failed", "waiting"} : PollIs(s) /\ verdict' = s
     \/ /\ verdict = "waiting" /\ \A p \in Prefills : sent[p] = Chunks
        /\ \E s \in {"failed", "success"} : PollIs(s) /\ verdict' = s
  /\ UNCHANGED <<status, infos, sender, sent, queue, worker, outstanding, target, boot,
                 written, decodeVars, toPrefill, toDecode>>

\* add_transfer_request looks at the room, then enqueues.
CheckRoom(p) ==
  /\ verdict = "waiting" /\ sender[p] = "live" /\ sent[p] < Chunks
  /\ IF status[p] \in {"none", "failed"} \/ ~infos[p]
     THEN sent' = [sent EXCEPT ![p] = @ + 1] /\ UNCHANGED sender
     ELSE sender' = [sender EXCEPT ![p] = "adding"] /\ UNCHANGED sent
  /\ UNCHANGED <<status, infos, queue, worker, outstanding, target, boot, written,
                 verdict, decodeVars, toPrefill, toDecode>>

EnqueueChunk(p) ==
  /\ sender[p] = "adding"
  /\ sender' = [sender EXCEPT ![p] = "live"]
  /\ sent' = [sent EXCEPT ![p] = @ + 1]
  /\ queue' = [queue EXCEPT ![p] = Append(@, sent[p] + 1 = Chunks)]
  /\ UNCHANGED <<status, infos, worker, outstanding, target, boot, written, verdict,
                 decodeVars, toPrefill, toDecode>>

\* AbortReq on the prefill side, or the bootstrap timeout.  Between two chunks
\* the request is dropped at once and its sender is never cleared.
SenderAbort(p) ==
  /\ sender[p] = "live" /\ verdict \in {"bootstrap", "waiting"} /\ status[p] # "failed"
  /\ UpdateStatus(p, "failed")
  /\ sender' = [sender EXCEPT ![p] =
                  IF verdict = "waiting" /\ sent[p] < Chunks THEN "gone" ELSE @]
  /\ UNCHANGED <<infos, sent, queue, worker, outstanding, target, boot, written,
                 verdict, decodeVars, toPrefill, toDecode>>

\* failure_exception or a finished transfer.
SenderClear(p) ==
  /\ sender[p] = "live" /\ verdict \in {"failed", "success"}
  /\ sender' = [sender EXCEPT ![p] = "gone"]
  /\ status' = [status EXCEPT ![p] = "none"]
  /\ infos' = [infos EXCEPT ![p] = FALSE]
  /\ target' = [target EXCEPT ![p] = FALSE]
  /\ UNCHANGED <<sent, queue, worker, outstanding, boot, written, verdict,
                 decodeVars, toPrefill, toDecode>>

---------------------------------------------------------------------------
(* A prefill rank: the transfer worker.                                    *)

\* _maybe_ack_drained_abort with n chunks outstanding.
MaybeAckDrainedAbort(p, n) ==
  IF n = 0 /\ target[p]
  THEN target' = [target EXCEPT ![p] = FALSE] /\ SendToDecode(p, "ack")
  ELSE UNCHANGED <<target, toDecode>>

\* A chunk is counted before its room is looked at.
Dequeue(p) ==
  /\ worker[p].pc = "idle" /\ queue[p] # <<>>
  /\ queue' = [queue EXCEPT ![p] = Tail(@)]
  /\ worker' = [worker EXCEPT ![p] = [pc |-> "counted", last |-> Head(queue[p])]]
  /\ outstanding' = [outstanding EXCEPT ![p] = @ + 1]
  /\ UNCHANGED <<status, infos, sender, sent, target, boot, written,
                 verdict, decodeVars, toPrefill, toDecode>>

\* Bug variant: a skipped chunk stays counted.
SkipChunk_KeepsCount(p) ==
  /\ worker[p].pc = "counted" /\ status[p] \in {"none", "failed"}
  /\ MaybeAckDrainedAbort(p, outstanding[p])
  /\ worker' = [worker EXCEPT ![p] = Idle]
  /\ UNCHANGED <<status, infos, sender, sent, queue, outstanding, boot, written, verdict,
                 decodeVars, toPrefill>>

\* A failed or cleared room is skipped, and its count dropped.
SkipChunk(p) ==
  /\ worker[p].pc = "counted" /\ status[p] \in {"none", "failed"}
  /\ outstanding' = [outstanding EXCEPT ![p] = 0]
  /\ MaybeAckDrainedAbort(p, 0)
  /\ worker' = [worker EXCEPT ![p] = Idle]
  /\ UNCHANGED <<status, infos, sender, sent, queue, boot, written, verdict,
                 decodeVars, toPrefill>>

StartWrite(p) ==
  /\ worker[p].pc = "counted" /\ status[p] \notin {"none", "failed"}
  /\ worker' = [worker EXCEPT ![p].pc = IF infos[p] THEN "writing" ELSE "written"]
  /\ UNCHANGED <<status, infos, sender, sent, queue, outstanding, target, boot,
                 written, verdict, decodeVars, toPrefill, toDecode>>

\* conclude_transfer: a room that failed meanwhile stays failed, a cleared one
\* is not concluded.
Conclude(p, result) ==
  IF status[p] = "none" THEN UNCHANGED <<status, toDecode>>
  ELSE UpdateStatus(p, result) /\ SendToDecode(p, update_status(status[p], result))

EndWrite(p) ==
  /\ worker[p].pc = "writing"
  /\ worker' = [worker EXCEPT ![p].pc = "written"]
  /\ written' = [written EXCEPT ![p] = @ + 1]
  /\ IF worker[p].last THEN Conclude(p, "success") ELSE UNCHANGED <<status, toDecode>>
  /\ UNCHANGED <<infos, sender, sent, queue, outstanding, target, boot, verdict,
                 decodeVars, toPrefill>>

\* A write returned an error; every write of the chunk has ended by then.
FailWrite(p) ==
  /\ worker[p].pc = "writing"
  /\ worker' = [worker EXCEPT ![p].pc = "written"]
  /\ Conclude(p, "failed")
  /\ UNCHANGED <<infos, sender, sent, queue, outstanding, target, boot, written,
                 verdict, decodeVars, toPrefill>>

\* The chunk is over: acknowledge a waiting abort, and take the room down when
\* it has concluded.
FinishChunk(p) ==
  LET n == outstanding[p] - 1
      over == n = 0 /\ \/ status[p] \in {"none", "success"}
                       \/ status[p] = "failed" /\ worker[p].last
  IN  /\ worker[p].pc = "written"
      /\ outstanding' = [outstanding EXCEPT ![p] = n]
      /\ MaybeAckDrainedAbort(p, n)
      /\ infos' = [infos EXCEPT ![p] = @ /\ ~over]
      /\ worker' = [worker EXCEPT ![p] = Idle]
      /\ UNCHANGED <<status, sender, sent, queue, boot, written, verdict,
                     decodeVars, toPrefill>>

---------------------------------------------------------------------------
(* A prefill rank: the bootstrap thread.                                   *)

Receives(p, m) ==
  /\ boot[p] = "recv" /\ toPrefill[p] # <<>> /\ Head(toPrefill[p]) = m
  /\ toPrefill' = [toPrefill EXCEPT ![p] = Tail(@)]

RecvInfo(p) ==
  /\ Receives(p, "info")
  /\ infos' = [infos EXCEPT ![p] = TRUE]
  /\ UpdateStatus(p, "waiting")
  /\ UNCHANGED <<sender, sent, queue, worker, outstanding, target, boot, written,
                 verdict, decodeVars, toDecode>>

\* Bug variant: a room that is gone is taken to be quiet.
RecvAbort_GoneIsQuiet(p) ==
  LET room_active == status[p] \notin {"none", "success"}
  IN  /\ Receives(p, "abort")
      /\ boot' = [boot EXCEPT ![p] = IF room_active THEN "mark" ELSE @]
      /\ IF ~room_active THEN SendToDecode(p, "ack") ELSE UNCHANGED toDecode
      /\ UNCHANGED <<status, infos, sender, sent, queue, worker, outstanding, target,
                     written, verdict, decodeVars>>

\* An active room is failed in steps; one that has concluded is acknowledged
\* now, unless a chunk of it is still outstanding.
RecvAbort(p) ==
  LET room_active == status[p] \notin {"none", "success"}
  IN  /\ Receives(p, "abort")
      /\ boot' = [boot EXCEPT ![p] = IF room_active THEN "mark" ELSE @]
      /\ IF ~room_active /\ outstanding[p] = 0 THEN SendToDecode(p, "ack")
         ELSE UNCHANGED toDecode
      /\ UNCHANGED <<status, infos, sender, sent, queue, worker, outstanding, target,
                     written, verdict, decodeVars>>

MarkFailed(p) ==
  /\ boot[p] = "mark"
  /\ UpdateStatus(p, "failed")
  /\ boot' = [boot EXCEPT ![p] = "register"]
  /\ UNCHANGED <<infos, sender, sent, queue, worker, outstanding, target, written,
                 verdict, decodeVars, toPrefill, toDecode>>

RegisterAckTarget(p) ==
  /\ boot[p] = "register"
  /\ target' = [target EXCEPT ![p] = TRUE]
  /\ boot' = [boot EXCEPT ![p] = "tryack"]
  /\ UNCHANGED <<status, infos, sender, sent, queue, worker, outstanding, written,
                 verdict, decodeVars, toPrefill, toDecode>>

\* Bug variant: the acknowledgement is left to the worker alone.
TryAck_WorkerOnly(p) ==
  /\ boot[p] = "tryack"
  /\ boot' = [boot EXCEPT ![p] = "recv"]
  /\ UNCHANGED <<status, infos, sender, sent, queue, worker, outstanding, target, written,
                 verdict, decodeVars, toPrefill, toDecode>>

TryAck(p) ==
  /\ boot[p] = "tryack"
  /\ MaybeAckDrainedAbort(p, outstanding[p])
  /\ boot' = [boot EXCEPT ![p] = "recv"]
  /\ UNCHANGED <<status, infos, sender, sent, queue, worker, outstanding, written,
                 verdict, decodeVars, toPrefill>>

---------------------------------------------------------------------------
(* The decode rank: the receiver thread.                                   *)

note_abort_ack(p) == IF armed THEN acks \cup {p} ELSE acks

\* Bug variant: the first success concludes the transfer.
apply_prefill_status_First(p, m) ==
  IF dstatus = "none" THEN UNCHANGED <<responses, dstatus>>
  ELSE dstatus' = update_status(dstatus, m) /\ UNCHANGED responses

\* Every prefill rank has to report success, one failure is enough.
apply_prefill_status(p, m) ==
  IF dstatus = "none" THEN UNCHANGED <<responses, dstatus>>
  ELSE /\ responses' = IF m = "success" THEN responses \cup {p} ELSE responses
       /\ dstatus' = IF m = "failed" \/ responses' = Prefills
                     THEN update_status(dstatus, m) ELSE dstatus

RecvFromPrefill(p) ==
  /\ toDecode[p] # <<>>
  /\ toDecode' = [toDecode EXCEPT ![p] = Tail(@)]
  /\ LET m == Head(toDecode[p])
     IN  IF m = "ack" THEN acks' = note_abort_ack(p) /\ UNCHANGED <<responses, dstatus>>
         ELSE apply_prefill_status(p, m) /\ UNCHANGED acks
  /\ UNCHANGED <<notified, armed, arming, place, aborts, prefillVars, toPrefill>>

---------------------------------------------------------------------------
(* The decode rank: the scheduler.                                         *)

\* An ABORT to every prefill rank, each best effort, and only once.
SendAbortNotification ==
  /\ notified' = TRUE
  /\ IF notified THEN UNCHANGED toPrefill
     ELSE \E R \in SUBSET Prefills :
            toPrefill' = [p \in Prefills |->
              IF p \in R THEN Append(toPrefill[p], "abort") ELSE toPrefill[p]]

\* abort_request of a request in the transfer queue, then the room is armed.
AbortRequest ==
  /\ place = "queue" /\ ~arming /\ aborts < MaxAborts
  /\ dstatus' = update_status(dstatus, "failed")
  /\ SendAbortNotification
  /\ arming' = TRUE /\ aborts' = aborts + 1
  /\ UNCHANGED <<responses, armed, acks, place, prefillVars, toDecode>>

ArmTracker ==
  /\ arming
  /\ armed' = TRUE /\ acks' = {} /\ arming' = FALSE
  /\ UNCHANGED <<dstatus, responses, notified, place, aborts, prefillVars,
                 toPrefill, toDecode>>

\* The heartbeat thread gives the prefill instance up.
HandleNodeFailure ==
  /\ NodeFailures /\ dstatus = "waiting"
  /\ dstatus' = "failed"
  /\ UNCHANGED <<responses, notified, armed, acks, arming, place, aborts, prefillVars,
                 toPrefill, toDecode>>

\* pop_transferred on a failed request: held if an ABORT went out, else released.
PopFailed ==
  /\ place = "queue" /\ ~arming /\ dstatus = "failed"
  /\ place' = IF notified THEN "held" ELSE "failed"
  /\ dstatus' = "none" /\ responses' = {}
  /\ UNCHANGED <<notified, armed, acks, arming, aborts, prefillVars, toPrefill, toDecode>>

\* The poll itself times out: an ABORT goes out, the room is not armed.
PopWaitingTimeout ==
  /\ place = "queue" /\ ~arming /\ dstatus = "waiting"
  /\ SendAbortNotification
  /\ place' = "held" /\ dstatus' = "none" /\ responses' = {}
  /\ UNCHANGED <<armed, acks, arming, aborts, prefillVars, toDecode>>

PopTransferred ==
  /\ place = "queue" /\ ~arming /\ dstatus = "success"
  /\ place' = "served" /\ dstatus' = "none" /\ responses' = {}
  /\ UNCHANGED <<notified, armed, acks, arming, aborts, prefillVars, toPrefill, toDecode>>

is_abort_release_safe == armed /\ Cardinality(acks) >= Cardinality(Prefills)

\* Bug variant: a hold has no deadline.
ResolveDeferredRelease_NoDeadline ==
  /\ place = "held" /\ is_abort_release_safe
  /\ place' = "drained" /\ armed' = FALSE /\ acks' = {}
  /\ UNCHANGED <<dstatus, responses, notified, arming, aborts, prefillVars,
                 toPrefill, toDecode>>

\* One held request of resolve_deferred_releases; the deadline may have passed.
ResolveDeferredRelease ==
  /\ place = "held"
  /\ place' = IF is_abort_release_safe THEN "drained" ELSE "timeout"
  /\ armed' = FALSE /\ acks' = {}
  /\ UNCHANGED <<dstatus, responses, notified, arming, aborts, prefillVars,
                 toPrefill, toDecode>>

---------------------------------------------------------------------------

Worker(p) ==
  Dequeue(p) \/ SkipChunk(p) \/ StartWrite(p) \/ EndWrite(p)
    \/ FailWrite(p) \/ FinishChunk(p)

Bootstrap(p) ==
  RecvInfo(p) \/ RecvAbort(p) \/ MarkFailed(p) \/ RegisterAckTarget(p) \/ TryAck(p)

DecodeScheduler == ArmTracker \/ PopFailed \/ PopWaitingTimeout \/ PopTransferred \/ ResolveDeferredRelease

\* The request is over everywhere.
Done ==
  /\ ~InTransfer
  /\ UNCHANGED vars

Next ==
  \/ \E p \in Prefills : \/ SenderInit(p) \/ CheckRoom(p) \/ EnqueueChunk(p)
                         \/ SenderAbort(p) \/ SenderClear(p)
                         \/ Worker(p) \/ Bootstrap(p) \/ RecvFromPrefill(p)
  \/ PollPrefill \/ AbortRequest \/ HandleNodeFailure \/ DecodeScheduler
  \/ Done

Spec == Init /\ [][Next]_vars

\* Threads run, an RDMA write returns, clocks reach their deadlines.  Nothing
\* is assumed of the client, the network or the prefill scheduler.
FairSpec ==
  /\ Spec
  /\ \A p \in Prefills : WF_vars(Worker(p)) /\ WF_vars(Bootstrap(p))
  /\ WF_vars(DecodeScheduler)

---------------------------------------------------------------------------
(* Properties.                                                             *)

\* Statuses are those of KVPoll; only chunks handed over are queued, and of the
\* chunks of a room one at a time is outstanding.
TypeOK ==
  /\ status \in [Prefills -> {"none", "bootstrapping", "waiting", "success", "failed"}]
  /\ dstatus \in {"none", "waiting", "success", "failed"}
  /\ acks \subseteq Prefills
  /\ \A p \in Prefills :
       /\ Len(queue[p]) + written[p] <= sent[p] /\ sent[p] <= Chunks
       /\ outstanding[p] = IF worker[p].pc = "idle" THEN 0 ELSE 1

\* Pages released because every rank acknowledged are written by no rank, then
\* or later: an acknowledgement means that nothing is in flight and nothing
\* will be (is_abort_release_safe, _maybe_ack_drained_abort, the order of the
\* count and the status check in the worker).
DrainedReleaseIsQuiet ==
  place = "drained" => \A p \in Prefills : worker[p].pc # "writing"

\* A request is served only with all its KV: every rank has written every chunk,
\* whatever was aborted, dropped or failed on the way (apply_prefill_status).
ServedIsComplete ==
  place = "served" => \A p \in Prefills : written[p] = Chunks

\* Pages of a request that failed without an ABORT are released at once, on the
\* grounds that a prefill-initiated failure has stopped writing (pop_transferred).
FailedReleaseIsQuiet ==
  place = "failed" => \A p \in Prefills : worker[p].pc # "writing"

\* A request in transfer is served or its pages come back, whatever is lost: the
\* polls have a timeout and a hold has a deadline.
EveryTransferEnds == <>~InTransfer

\* An acknowledgement that a prefill rank owes is sent or dropped in the end: no
\* entry of _deferred_ack_targets is left behind by a clear() that overtakes the
\* registration, or by a room that no chunk visits again.
AckTargetsDrain == \A p \in Prefills : target[p] ~> ~target[p]
=============================================================================
