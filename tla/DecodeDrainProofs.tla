--------------------------- MODULE DecodeDrainProofs ---------------------------
(***************************************************************************)
(* What DecodeDrain promises, for any number of prefill ranks and chunks,  *)
(* any number of aborts, and with or without node failures: pages released *)
(* because every rank acknowledged are written by no rank, and a served    *)
(* request has all of its KV.                                              *)
(*                                                                         *)
(* The argument is local to a rank.  RankInv says where its chunks are and *)
(* what each status means; Quiet says that it will not write again.  Both  *)
(* are stable, so an acknowledgement or a success stays true while it      *)
(* travels and after it is counted.                                        *)
(***************************************************************************)
EXTENDS DecodeDrain, FiniteSetTheorems, SequenceTheorems, TLAPS

Statuses == {"none", "bootstrapping", "waiting", "success", "failed"}

Types ==
  /\ status \in [Prefills -> Statuses]
  /\ infos \in [Prefills -> BOOLEAN]
  /\ sender \in [Prefills -> {"new", "live", "adding", "gone"}]
  /\ sent \in [Prefills -> Nat]
  /\ queue \in [Prefills -> Seq(BOOLEAN)]
  /\ worker \in [Prefills -> [pc : {"idle", "counted", "writing", "written"}, last : BOOLEAN]]
  /\ outstanding \in [Prefills -> Nat]
  /\ target \in [Prefills -> BOOLEAN]
  /\ boot \in [Prefills -> {"recv", "mark", "register", "tryack"}]
  /\ written \in [Prefills -> Nat]
  /\ verdict \in {"bootstrap", "waiting", "success", "failed"}
  /\ toPrefill \in [Prefills -> Seq({"info", "abort"})]
  /\ toDecode \in [Prefills -> Seq({"ack", "success", "failed"})]
  /\ dstatus \in {"none", "waiting", "success", "failed"}
  /\ responses \subseteq Prefills /\ acks \subseteq Prefills

\* The decode rank's page indices have not been read yet.
Opening(p) == toPrefill[p] # <<>> /\ toPrefill[p][1] = "info"

\* The chunk that the worker holds and has not written.
InWork(p) == IF worker[p].pc \in {"counted", "writing"} THEN 1 ELSE 0

Chunked(p) == Len(queue[p]) + written[p] + InWork(p)

\* Only the last chunk of all is marked as the last, and nothing is behind it.
LastIsLast(chunks, n) ==
  \A i \in 1 .. Len(chunks) : chunks[i] => i = Len(chunks) /\ n = Chunks

\* The chunks of a rank: none is counted twice, one is outstanding at a time,
\* and the last one leaves nothing behind it.
ChunksInOrder(p) ==
  /\ Chunked(p) <= sent[p] /\ sent[p] <= Chunks
  /\ sender[p] = "adding" => sent[p] < Chunks
  /\ outstanding[p] = IF worker[p].pc = "idle" THEN 0 ELSE 1
  /\ LastIsLast(queue[p], sent[p])
  /\ worker[p].pc # "idle" /\ worker[p].last => queue[p] = <<>> /\ sent[p] = Chunks

\* A room is opened once: before its page indices are read nothing is sent, and
\* afterwards a room that is gone is not opened again.
RoomOpensOnce(p) ==
  /\ \A i \in 2 .. Len(toPrefill[p]) : toPrefill[p][i] # "info"
  /\ Opening(p) =>
       /\ boot[p] = "recv" /\ verdict \in {"bootstrap", "failed"}
       /\ sent[p] = 0 /\ sender[p] # "adding"
       /\ status[p] \in {"none", "bootstrapping", "failed"}
  /\ ~Opening(p) =>
       /\ status[p] # "bootstrapping"
       /\ status[p] = "none" => sender[p] = "gone"
       /\ status[p] = "waiting" => infos[p]

\* A room that has not failed has dropped no chunk, one that has succeeded has
\* none left, and an abort is acknowledged for a room that failed or is gone.
StatusMeans(p) ==
  /\ status[p] \in {"waiting", "success"} => Chunked(p) = sent[p]
  /\ status[p] = "success" => queue[p] = <<>> /\ sent[p] = Chunks /\ InWork(p) = 0
  /\ target[p] \/ boot[p] \in {"register", "tryack"} =>
       status[p] \in {"none", "failed"} /\ ~Opening(p)

RankInv(p) == ChunksInOrder(p) /\ RoomOpensOnce(p) /\ StatusMeans(p)

\* The rank does not write and never will.
Quiet(p) ==
  /\ ~Opening(p) /\ worker[p].pc # "writing"
  /\ status[p] \in {"none", "success", "failed"}

Sent(p, m) == \E i \in 1 .. Len(toDecode[p]) : toDecode[p][i] = m

\* Whoever has, or may yet count, an acknowledgement of a rank finds it quiet.
AckedIsQuiet ==
  \A p \in Prefills : p \in acks \/ place = "drained" \/ Sent(p, "ack") => Quiet(p)

\* Whoever has, or may yet count, a success of a rank finds all of its chunks.
SuccessIsComplete ==
  \A p \in Prefills :
    p \in responses \/ dstatus = "success" \/ place = "served" \/ Sent(p, "success")
      => written[p] = Chunks

Inv ==
  /\ Types
  /\ \A p \in Prefills : RankInv(p)
  /\ AckedIsQuiet
  /\ SuccessIsComplete

---------------------------------------------------------------------------
(* Lemmas on the operators.                                                *)

\* What a room's status becomes: Failed is terminal, a closed room stays closed
\* unless it is opened, Success is final but for a failure.
LEMMA UpdateStatusFacts ==
  ASSUME NEW old \in Statuses
  PROVE  /\ update_status(old, "failed") = IF old = "none" THEN "none" ELSE "failed"
         /\ update_status(old, "success") =
              IF old \in {"none", "failed"} THEN old ELSE "success"
         /\ update_status(old, "bootstrapping") =
              IF old = "none" THEN "bootstrapping" ELSE old
         /\ update_status(old, "waiting") =
              IF old \in {"none", "bootstrapping"} THEN "waiting" ELSE old
<1>1. CASE old = "none"
  BY <1>1 DEF update_status
<1>2. CASE old = "bootstrapping"
  BY <1>2 DEF update_status, Level
<1>3. CASE old = "waiting"
  BY <1>3 DEF update_status, Level
<1>4. CASE old = "success"
  BY <1>4 DEF update_status, Level
<1>5. CASE old = "failed"
  BY <1>5 DEF update_status
<1> QED
  BY <1>1, <1>2, <1>3, <1>4, <1>5 DEF Statuses

\* A chunk enqueued behind the others is the last exactly if it is marked.
LEMMA EnqueueLast ==
  ASSUME NEW s \in Seq(BOOLEAN), NEW n \in Nat, NEW t,
         t = Append(s, n + 1 = Chunks), LastIsLast(s, n), n < Chunks
  PROVE  t \in Seq(BOOLEAN) /\ Len(t) = Len(s) + 1 /\ LastIsLast(t, n + 1)
<1>1. PICK b \in BOOLEAN : t = Append(s, b) /\ (b <=> n + 1 = Chunks)
  OBVIOUS
<1> QED
  BY <1>1, DrainAssumption DEF LastIsLast

\* A chunk taken from the front is the last exactly if it is marked.
LEMMA DequeueLast ==
  ASSUME NEW s \in Seq(BOOLEAN), NEW n \in Nat, s # <<>>, LastIsLast(s, n),
         NEW t, t = Tail(s), NEW h, h = Head(s)
  PROVE  /\ t \in Seq(BOOLEAN) /\ Len(t) = Len(s) - 1 /\ Len(s) > 0
         /\ LastIsLast(t, n)
         /\ h => t = <<>> /\ n = Chunks
<1>1. t \in Seq(BOOLEAN) /\ Len(t) = Len(s) - 1 /\ Len(s) > 0
  OBVIOUS
<1>2. LastIsLast(t, n) /\ (h => t = <<>> /\ n = Chunks)
  BY DrainAssumption DEF LastIsLast
<1> QED
  BY <1>1, <1>2

\* While chunks are missing none of those queued is the last.
LEMMA NoneIsLast ==
  ASSUME NEW s \in Seq(BOOLEAN), NEW n \in Nat, LastIsLast(s, n), n < Chunks
  PROVE  LastIsLast(s, n + 1)
  BY DrainAssumption DEF LastIsLast

\* The types of one rank's state.
LEMMA LocalTypes ==
  ASSUME Inv, NEW p \in Prefills
  PROVE  /\ status[p] \in Statuses /\ infos[p] \in BOOLEAN
         /\ sender[p] \in {"new", "live", "adding", "gone"}
         /\ sent[p] \in Nat /\ written[p] \in Nat /\ outstanding[p] \in Nat
         /\ queue[p] \in Seq(BOOLEAN) /\ Len(queue[p]) \in Nat
         /\ worker[p] \in [pc : {"idle", "counted", "writing", "written"}, last : BOOLEAN]
         /\ target[p] \in BOOLEAN
         /\ boot[p] \in {"recv", "mark", "register", "tryack"}
         /\ toPrefill[p] \in Seq({"info", "abort"}) /\ Len(toPrefill[p]) \in Nat
         /\ toDecode[p] \in Seq({"ack", "success", "failed"})
         /\ RankInv(p)
<1>1. Types /\ RankInv(p)
  BY DEF Inv
<1> QED
  BY <1>1 DEF Types

\* All that a rank's invariant reads of the rank.
Local(p) == <<status[p], infos[p], sender[p], sent[p], queue[p], worker[p],
              outstanding[p], target[p], boot[p], written[p], toPrefill[p]>>

\* A rank that a step leaves alone keeps its invariant and its silence.
LEMMA LocalFrame ==
  ASSUME NEW p \in Prefills, Local(p)' = Local(p), verdict' = verdict
  PROVE  /\ RankInv(p) => RankInv(p)'
         /\ Quiet(p) => Quiet(p)'
         /\ written'[p] = written[p]
  BY DEF Local, RankInv, ChunksInOrder, RoomOpensOnce, StatusMeans, Quiet, Opening,
         InWork, Chunked

\* What a message to the decode rank has to be true of.
Justified(p, m) ==
  /\ m = "ack" => Quiet(p)
  /\ m = "success" => written[p] = Chunks

\* A step of one rank keeps the invariant if it keeps the rank's own, does not
\* wake a quiet rank, and justifies what it sends.
LEMMA RankStep ==
  ASSUME Inv, NEW p \in Prefills, Types', RankInv(p)',
         Quiet(p) => Quiet(p)',
         written[p] = Chunks => written'[p] = Chunks,
         \A q \in Prefills \ {p} : Local(q)' = Local(q),
         verdict' = verdict,
         UNCHANGED decodeVars,
         toDecode' # toDecode =>
           \E m \in {"ack", "success", "failed"} :
             toDecode' = [toDecode EXCEPT ![p] = Append(@, m)] /\ Justified(p, m)'
  PROVE  Inv'
<1>1. ASSUME NEW q \in Prefills
      PROVE  /\ RankInv(q)'
             /\ Quiet(q) => Quiet(q)'
             /\ written[q] = Chunks => written'[q] = Chunks
  BY <1>1, LocalFrame DEF Inv
<1>2. ASSUME NEW q \in Prefills, NEW m \in {"ack", "success"}, Sent(q, m)'
      PROVE  Sent(q, m) \/ Justified(q, m)'
  <2>1. CASE toDecode' = toDecode
    BY <1>2, <2>1 DEF Sent
  <2>2. CASE toDecode' # toDecode
    <3>1. PICK n \in {"ack", "success", "failed"} :
            toDecode' = [toDecode EXCEPT ![p] = Append(@, n)] /\ Justified(p, n)'
      BY <2>2
    <3>2. CASE q # p
      BY <1>2, <3>1, <3>2 DEF Sent, Inv, Types
    <3>3. CASE q = p
      <4>1. PICK i \in 1 .. Len(toDecode'[p]) : toDecode'[p][i] = m
        BY <1>2, <3>3 DEF Sent
      <4>2. /\ toDecode[p] \in Seq({"ack", "success", "failed"})
            /\ toDecode'[p] = Append(toDecode[p], n)
        BY <3>1 DEF Inv, Types
      <4>3. (i \in 1 .. Len(toDecode[p]) /\ toDecode[p][i] = m) \/ n = m
        BY <4>1, <4>2
      <4> QED
        BY <3>1, <3>3, <4>3 DEF Sent
    <3> QED
      BY <3>2, <3>3
  <2> QED
    BY <2>1, <2>2
<1>3. AckedIsQuiet'
  <2> SUFFICES ASSUME NEW q \in Prefills,
                      (q \in acks \/ place = "drained" \/ Sent(q, "ack"))'
               PROVE  Quiet(q)'
    BY DEF AckedIsQuiet
  <2>1. CASE Sent(q, "ack")'
    BY <2>1, <1>1, <1>2 DEF Justified, Inv, AckedIsQuiet
  <2>2. CASE (q \in acks \/ place = "drained")'
    BY <2>2, <1>1 DEF Inv, AckedIsQuiet, decodeVars
  <2> QED
    BY <2>1, <2>2
<1>4. SuccessIsComplete'
  <2> SUFFICES ASSUME NEW q \in Prefills,
                      (q \in responses \/ dstatus = "success" \/ place = "served"
                        \/ Sent(q, "success"))'
               PROVE  written'[q] = Chunks
    BY DEF SuccessIsComplete
  <2>1. CASE Sent(q, "success")'
    BY <2>1, <1>1, <1>2 DEF Justified, Inv, SuccessIsComplete
  <2>2. CASE (q \in responses \/ dstatus = "success" \/ place = "served")'
    BY <2>2, <1>1 DEF Inv, SuccessIsComplete, decodeVars
  <2> QED
    BY <2>1, <2>2
<1> QED
  BY <1>1, <1>3, <1>4 DEF Inv

---------------------------------------------------------------------------
(* Every step of a rank keeps the invariant.  <1>1 says what it changes.   *)

\* Opening a room's sender neither reopens a room that is gone nor moves a chunk.
LEMMA SenderInitInv ==
  ASSUME Inv, NEW p \in Prefills, SenderInit(p)
  PROVE  Inv'
<1>1. /\ sender[p] = "new"
      /\ sender'[p] = "live"
      /\ status'[p] = (IF status[p] = "none" THEN "bootstrapping" ELSE status[p])
      /\ UNCHANGED <<infos[p], sent[p], queue[p], worker[p], outstanding[p],
                     target[p], boot[p], written[p], toPrefill[p]>>
      /\ UNCHANGED <<verdict, toDecode, decodeVars>>
  BY UpdateStatusFacts DEF SenderInit, UpdateStatus, Inv, Types, Statuses
<1>2. Types'
  <2>1. status' \in [Prefills -> Statuses]
    BY UpdateStatusFacts DEF SenderInit, UpdateStatus, Inv, Types, Statuses
  <2>2. sender' \in [Prefills -> {"new", "live", "adding", "gone"}]
    BY DEF SenderInit, Inv, Types
  <2> QED
    BY <2>1, <2>2 DEF SenderInit, Inv, Types, decodeVars
<1>3. ChunksInOrder(p)'
  BY <1>1, LocalTypes, DrainAssumption
      DEF Inv, RankInv, ChunksInOrder, RoomOpensOnce, StatusMeans, Opening, Chunked,
          InWork
<1>4. RoomOpensOnce(p)' /\ StatusMeans(p)'
  BY <1>1, LocalTypes, DrainAssumption
     DEF Inv, RankInv, ChunksInOrder, RoomOpensOnce, StatusMeans, Opening, Chunked, InWork
<1>5. Quiet(p) => Quiet(p)'
  BY <1>1, LocalTypes
      DEF Quiet, Inv, RankInv, ChunksInOrder, RoomOpensOnce, StatusMeans, Opening, InWork
<1>6. \A q \in Prefills \ {p} : Local(q)' = Local(q)
  BY DEF SenderInit, UpdateStatus, Local, Inv, Types
<1> QED
  BY <1>1, <1>2, <1>3, <1>4, <1>5, <1>6, RankStep DEF RankInv

\* The sender drops a chunk only in a room that failed or is gone.
LEMMA CheckRoomInv ==
  ASSUME Inv, NEW p \in Prefills, CheckRoom(p)
  PROVE  Inv'
<1>1. /\ verdict = "waiting" /\ sender[p] = "live" /\ sent[p] < Chunks
      /\ \/ /\ status[p] \in {"none", "failed"} \/ ~infos[p]
            /\ sent'[p] = sent[p] + 1 /\ sender'[p] = sender[p]
         \/ /\ ~(status[p] \in {"none", "failed"} \/ ~infos[p])
            /\ sender'[p] = "adding" /\ sent'[p] = sent[p]
      /\ UNCHANGED <<status[p], infos[p], queue[p], worker[p],
                     outstanding[p], target[p], boot[p], written[p],
                     toPrefill[p]>>
      /\ UNCHANGED <<verdict, toDecode, decodeVars>>
  BY DEF CheckRoom, Inv, Types, Statuses
<1>2. Types'
  <2>1. CASE status[p] \in {"none", "failed"} \/ ~infos[p]
    <3>1. sent' = [sent EXCEPT ![p] = @ + 1] /\ sender' = sender
      BY <2>1, Zenon DEF CheckRoom
    <3> QED
      BY <3>1 DEF CheckRoom, Inv, Types, decodeVars
  <2>2. CASE ~(status[p] \in {"none", "failed"} \/ ~infos[p])
    <3>1. sender' = [sender EXCEPT ![p] = "adding"] /\ sent' = sent
      BY <2>2, Zenon DEF CheckRoom
    <3> QED
      BY <3>1 DEF CheckRoom, Inv, Types, decodeVars
  <2> QED
    BY <2>1, <2>2
<1>3. ChunksInOrder(p)'
  <2>1. ChunksInOrder(p) /\ sent[p] \in Nat /\ queue[p] \in Seq(BOOLEAN) /\ Chunked(p) \in Nat
    BY LocalTypes DEF Inv, RankInv, Chunked, InWork
  <2>2. Chunks \in Nat
    BY DrainAssumption
  <2>3. LastIsLast(queue[p], sent[p] + 1)
    BY <1>1, <2>1, NoneIsLast DEF ChunksInOrder
  <2>4. worker[p].pc # "idle" => ~worker[p].last
    BY <1>1, <2>1, <2>2 DEF ChunksInOrder
  <2>5. Chunked(p)' = Chunked(p)
    BY <1>1 DEF Chunked, InWork
  <2>6. LastIsLast(queue[p], sent[p])' /\ (sent[p]' = sent[p] \/ sent[p]' = sent[p] + 1)
    BY <1>1, <2>1, <2>3 DEF ChunksInOrder, LastIsLast
  <2> QED
    BY <1>1, <2>1, <2>2, <2>4, <2>5, <2>6 DEF ChunksInOrder
<1>4. RoomOpensOnce(p)' /\ StatusMeans(p)'
  BY <1>1, LocalTypes, DrainAssumption
     DEF Inv, RankInv, ChunksInOrder, RoomOpensOnce, StatusMeans, Opening, Chunked, InWork
<1>5. Quiet(p) => Quiet(p)'
  BY <1>1, LocalTypes
      DEF Quiet, Inv, RankInv, ChunksInOrder, RoomOpensOnce, StatusMeans, Opening, InWork
<1>6. \A q \in Prefills \ {p} : Local(q)' = Local(q)
  BY DEF CheckRoom, Local, Inv, Types
<1> QED
  BY <1>1, <1>2, <1>3, <1>4, <1>5, <1>6, RankStep DEF RankInv

\* A chunk is enqueued behind the others, the last one last.
LEMMA EnqueueChunkInv ==
  ASSUME Inv, NEW p \in Prefills, EnqueueChunk(p)
  PROVE  Inv'
<1>1. /\ sender[p] = "adding"
      /\ sender'[p] = "live"
      /\ sent'[p] = sent[p] + 1
      /\ UNCHANGED <<status[p], infos[p], worker[p], outstanding[p],
                     target[p], boot[p], written[p], toPrefill[p]>>
      /\ UNCHANGED <<verdict, toDecode, decodeVars>>
  BY DEF EnqueueChunk, Inv, Types, Statuses
<1>2. Types'
  BY DEF EnqueueChunk, Inv, Types, Statuses, decodeVars
<1>a. /\ queue'[p] \in Seq(BOOLEAN) /\ Len(queue'[p]) = Len(queue[p]) + 1
      /\ LastIsLast(queue'[p], sent'[p])
  <2>1. /\ queue[p] \in Seq(BOOLEAN) /\ sent[p] \in Nat /\ sent[p] < Chunks
        /\ LastIsLast(queue[p], sent[p])
    BY <1>1, LocalTypes DEF RankInv, ChunksInOrder
  <2>2. queue'[p] = Append(queue[p], sent[p] + 1 = Chunks) /\ sent'[p] = sent[p] + 1
    BY DEF EnqueueChunk, Inv, Types
  <2> QED
    BY <2>1, <2>2, EnqueueLast
<1>b. /\ Len(queue[p]) \in Nat /\ written[p] \in Nat /\ InWork(p) \in Nat
      /\ InWork(p)' = InWork(p)
  BY <1>1, LocalTypes DEF InWork
<1>c. ~Opening(p) /\ sent[p] \in Nat /\ sent[p] < Chunks /\ status[p] # "success"
      /\ Opening(p)' = Opening(p)
  BY <1>1, LocalTypes, DrainAssumption
      DEF RankInv, RoomOpensOnce, ChunksInOrder, StatusMeans, Opening
<1>d. Chunked(p)' = Chunked(p) + 1 /\ Chunked(p) \in Nat
  <2>1. Len(queue'[p]) = Len(queue[p]) + 1
    BY <1>a
  <2>2. written'[p] = written[p]
    BY <1>1
  <2>3. Chunked(p)' = Len(queue'[p]) + written'[p] + InWork(p)'
    BY DEF Chunked
  <2>4. Chunked(p) = Len(queue[p]) + written[p] + InWork(p)
    BY DEF Chunked
  <2> QED
    BY <1>b, <2>1, <2>2, <2>3, <2>4
<1>3. ChunksInOrder(p)'
  BY <1>1, <1>a, <1>c, <1>d, LocalTypes, DrainAssumption DEF RankInv, ChunksInOrder
<1>4. RoomOpensOnce(p)' /\ StatusMeans(p)'
  BY <1>1, <1>c, <1>d, LocalTypes DEF RankInv, RoomOpensOnce, StatusMeans
<1>5. Quiet(p) => Quiet(p)'
  BY <1>1, LocalTypes
      DEF Quiet, Inv, RankInv, ChunksInOrder, RoomOpensOnce, StatusMeans, Opening, InWork
<1>6. \A q \in Prefills \ {p} : Local(q)' = Local(q)
  BY DEF EnqueueChunk, Local, Inv, Types
<1> QED
  BY <1>1, <1>2, <1>3, <1>4, <1>5, <1>6, RankStep DEF RankInv

\* An abort on the prefill side fails the room, whatever it was.
LEMMA SenderAbortInv ==
  ASSUME Inv, NEW p \in Prefills, SenderAbort(p)
  PROVE  Inv'
<1>1. /\ sender'[p] \in {sender[p], "gone"}
      /\ status'[p] = (IF status[p] = "none" THEN "none" ELSE "failed")
      /\ UNCHANGED <<infos[p], sent[p], queue[p], worker[p], outstanding[p],
                     target[p], boot[p], written[p], toPrefill[p]>>
      /\ UNCHANGED <<verdict, toDecode, decodeVars>>
  BY UpdateStatusFacts DEF SenderAbort, UpdateStatus, Inv, Types, Statuses
<1>2. Types'
  <2>1. status' \in [Prefills -> Statuses]
    BY UpdateStatusFacts DEF SenderAbort, UpdateStatus, Inv, Types, Statuses
  <2>2. sender' \in [Prefills -> {"new", "live", "adding", "gone"}]
    BY DEF SenderAbort, Inv, Types
  <2> QED
    BY <2>1, <2>2 DEF SenderAbort, Inv, Types, decodeVars
<1>3. ChunksInOrder(p)'
  BY <1>1, LocalTypes, DrainAssumption
      DEF Inv, RankInv, ChunksInOrder, RoomOpensOnce, StatusMeans, Opening, Chunked,
          InWork
<1>4. RoomOpensOnce(p)' /\ StatusMeans(p)'
  BY <1>1, LocalTypes, DrainAssumption
     DEF Inv, RankInv, ChunksInOrder, RoomOpensOnce, StatusMeans, Opening, Chunked, InWork
<1>5. Quiet(p) => Quiet(p)'
  BY <1>1, LocalTypes
      DEF Quiet, Inv, RankInv, ChunksInOrder, RoomOpensOnce, StatusMeans, Opening, InWork
<1>6. \A q \in Prefills \ {p} : Local(q)' = Local(q)
  BY DEF SenderAbort, UpdateStatus, Local, Inv, Types
<1> QED
  BY <1>1, <1>2, <1>3, <1>4, <1>5, <1>6, RankStep DEF RankInv

\* A room is cleared only when no chunk will be handed over any more.
LEMMA SenderClearInv ==
  ASSUME Inv, NEW p \in Prefills, SenderClear(p)
  PROVE  Inv'
<1>1. /\ sender[p] = "live" /\ verdict \in {"failed", "success"}
      /\ sender'[p] = "gone"
      /\ status'[p] = "none"
      /\ infos'[p] = FALSE
      /\ target'[p] = FALSE
      /\ UNCHANGED <<sent[p], queue[p], worker[p], outstanding[p], boot[p],
                     written[p], toPrefill[p]>>
      /\ UNCHANGED <<verdict, toDecode, decodeVars>>
  BY DEF SenderClear, Inv, Types, Statuses
<1>2. Types'
  BY DEF SenderClear, Inv, Types, Statuses, decodeVars
<1>3. ChunksInOrder(p)'
  BY <1>1, LocalTypes DEF RankInv, ChunksInOrder, Chunked, InWork
<1>4. RoomOpensOnce(p)' /\ StatusMeans(p)'
  BY <1>1, LocalTypes, DrainAssumption
     DEF Inv, RankInv, ChunksInOrder, RoomOpensOnce, StatusMeans, Opening, Chunked, InWork
<1>5. Quiet(p) => Quiet(p)'
  BY <1>1, LocalTypes
      DEF Quiet, Inv, RankInv, ChunksInOrder, RoomOpensOnce, StatusMeans, Opening, InWork
<1>6. \A q \in Prefills \ {p} : Local(q)' = Local(q)
  BY DEF SenderClear, Local, Inv, Types
<1> QED
  BY <1>1, <1>2, <1>3, <1>4, <1>5, <1>6, RankStep DEF RankInv

\* The worker takes the oldest chunk and counts it.
LEMMA DequeueInv ==
  ASSUME Inv, NEW p \in Prefills, Dequeue(p)
  PROVE  Inv'
<1>1. /\ worker[p].pc = "idle" /\ queue[p] # <<>>
      /\ worker'[p].pc = "counted"
      /\ outstanding'[p] = outstanding[p] + 1
      /\ UNCHANGED <<status[p], infos[p], sender[p], sent[p], target[p],
                     boot[p], written[p], toPrefill[p]>>
      /\ UNCHANGED <<verdict, toDecode, decodeVars>>
  BY DEF Dequeue, Inv, Types, Statuses
<1>2. Types'
  BY DEF Dequeue, Inv, Types, Statuses, decodeVars
<1>a. /\ Len(queue'[p]) = Len(queue[p]) - 1 /\ Len(queue[p]) > 0
      /\ LastIsLast(queue'[p], sent'[p])
      /\ worker'[p].last => queue'[p] = <<>> /\ sent'[p] = Chunks
  <2>1. /\ queue[p] \in Seq(BOOLEAN) /\ sent[p] \in Nat /\ queue[p] # <<>>
        /\ LastIsLast(queue[p], sent[p])
    BY <1>1, LocalTypes DEF RankInv, ChunksInOrder
  <2>2. queue'[p] = Tail(queue[p]) /\ worker'[p].last = Head(queue[p]) /\ sent'[p] = sent[p]
    BY DEF Dequeue, Inv, Types
  <2> QED
    BY <2>1, <2>2, DequeueLast
<1>b. Chunked(p)' = Chunked(p) /\ Chunked(p) \in Nat
  <2>1. Len(queue'[p]) = Len(queue[p]) - 1 /\ written'[p] = written[p]
    BY <1>1, <1>a
  <2>2. /\ Len(queue[p]) \in Nat /\ written[p] \in Nat
        /\ InWork(p) = 0 /\ InWork(p)' = 1
    BY <1>1, LocalTypes DEF InWork
  <2>3. Chunked(p)' = Len(queue'[p]) + written'[p] + InWork(p)'
    BY DEF Chunked
  <2>4. Chunked(p) = Len(queue[p]) + written[p] + InWork(p)
    BY DEF Chunked
  <2> QED
    BY <2>1, <2>2, <2>3, <2>4
<1>c. Opening(p)' = Opening(p) /\ status[p] # "success"
  BY <1>1, LocalTypes DEF RankInv, StatusMeans, Opening
<1>3. ChunksInOrder(p)'
  BY <1>1, <1>a, <1>b, LocalTypes DEF RankInv, ChunksInOrder
<1>4. RoomOpensOnce(p)' /\ StatusMeans(p)'
  BY <1>1, <1>b, <1>c, LocalTypes DEF RankInv, RoomOpensOnce, StatusMeans
<1>5. Quiet(p) => Quiet(p)'
  BY <1>1, LocalTypes
      DEF Quiet, Inv, RankInv, ChunksInOrder, RoomOpensOnce, StatusMeans, Opening, InWork
<1>6. \A q \in Prefills \ {p} : Local(q)' = Local(q)
  BY DEF Dequeue, Local, Inv, Types
<1> QED
  BY <1>1, <1>2, <1>3, <1>4, <1>5, <1>6, RankStep DEF RankInv

\* The worker writes only in a room that is open.
LEMMA StartWriteInv ==
  ASSUME Inv, NEW p \in Prefills, StartWrite(p)
  PROVE  Inv'
<1>1. /\ worker[p].pc = "counted" /\ status[p] \notin {"none", "failed"}
      /\ worker'[p] = [worker[p] EXCEPT !.pc = IF infos[p] THEN "writing" ELSE "written"]
      /\ UNCHANGED <<status[p], infos[p], sender[p], sent[p], queue[p],
                     outstanding[p], target[p], boot[p], written[p],
                     toPrefill[p]>>
      /\ UNCHANGED <<verdict, toDecode, decodeVars>>
  BY DEF StartWrite, Inv, Types, Statuses
<1>2. Types'
  <2>1. worker' \in [Prefills -> [pc : {"idle", "counted", "writing", "written"}, last : BOOLEAN]]
    <3> DEFINE Jobs == [pc : {"idle", "counted", "writing", "written"}, last : BOOLEAN]
               job == [worker[p] EXCEPT !.pc = IF infos[p] THEN "writing" ELSE "written"]
    <3>1. worker \in [Prefills -> Jobs]
      BY DEF Inv, Types
    <3>2. job \in Jobs
      BY <3>1
    <3>3. worker' = [worker EXCEPT ![p] = job]
      BY DEF StartWrite
    <3> HIDE DEF job, Jobs
    <3>4. worker' \in [Prefills -> Jobs]
      BY <3>1, <3>2, <3>3
    <3> QED
      BY <3>4 DEF Jobs
  <2> QED
    BY <2>1 DEF StartWrite, Inv, Types, decodeVars
<1>3. ChunksInOrder(p)'
  BY <1>1, LocalTypes, DrainAssumption
      DEF Inv, RankInv, ChunksInOrder, RoomOpensOnce, StatusMeans, Opening, Chunked,
          InWork
<1>4. RoomOpensOnce(p)' /\ StatusMeans(p)'
  BY <1>1, LocalTypes, DrainAssumption
     DEF Inv, RankInv, ChunksInOrder, RoomOpensOnce, StatusMeans, Opening, Chunked, InWork
<1>5. Quiet(p) => Quiet(p)'
  BY <1>1, LocalTypes
      DEF Quiet, Inv, RankInv, ChunksInOrder, RoomOpensOnce, StatusMeans, Opening, InWork
<1>6. \A q \in Prefills \ {p} : Local(q)' = Local(q)
  BY DEF StartWrite, Local, Inv, Types
<1> QED
  BY <1>1, <1>2, <1>3, <1>4, <1>5, <1>6, RankStep DEF RankInv

\* The page indices are read once, before anything is sent.
LEMMA RecvInfoInv ==
  ASSUME Inv, NEW p \in Prefills, RecvInfo(p)
  PROVE  Inv'
<1>1. /\ toPrefill[p] # <<>> /\ toPrefill[p][1] = "info"
      /\ infos'[p] = TRUE
      /\ status'[p] = (IF status[p] \in {"none", "bootstrapping"} THEN "waiting" ELSE status[p])
      /\ UNCHANGED <<sender[p], sent[p], queue[p], worker[p], outstanding[p],
                     target[p], boot[p], written[p]>>
      /\ UNCHANGED <<verdict, toDecode, decodeVars>>
  <2>1. toPrefill[p] \in Seq({"info", "abort"}) /\ status[p] \in Statuses
    BY LocalTypes
  <2>2. toPrefill[p] # <<>> /\ toPrefill[p][1] = "info"
    BY <2>1 DEF RecvInfo, Receives
  <2>3. status'[p] = update_status(status[p], "waiting")
    BY DEF RecvInfo, UpdateStatus, Inv, Types
  <2> QED
    BY <2>1, <2>2, <2>3, UpdateStatusFacts DEF RecvInfo, Receives, Inv, Types
<1>2. Types'
  <2>1. Tail(toPrefill[p]) \in Seq({"info", "abort"})
    BY <1>1, LocalTypes, HeadTailProperties
  <2>2. toPrefill' \in [Prefills -> Seq({"info", "abort"})]
    BY <2>1 DEF RecvInfo, Receives, Inv, Types
  <2>3. update_status(status[p], "waiting") \in Statuses
    BY LocalTypes, UpdateStatusFacts DEF Statuses
  <2> QED
    BY <2>2, <2>3 DEF RecvInfo, UpdateStatus, Inv, Types, decodeVars
<1>a. /\ \A i \in 2 .. Len(toPrefill'[p]) : toPrefill'[p][i] # "info"
      /\ ~Opening(p)'
  <2>1. /\ toPrefill[p] \in Seq({"info", "abort"}) /\ toPrefill[p] # <<>>
        /\ \A i \in 2 .. Len(toPrefill[p]) : toPrefill[p][i] # "info"
    BY <1>1, LocalTypes DEF RankInv, RoomOpensOnce
  <2>2. toPrefill'[p] = Tail(toPrefill[p])
    BY DEF RecvInfo, Receives, Inv, Types
  <2> QED
    BY <2>1, <2>2 DEF Opening
<1>3. ChunksInOrder(p)'
  BY <1>1, LocalTypes, DrainAssumption
      DEF Inv, RankInv, ChunksInOrder, RoomOpensOnce, StatusMeans, Opening, Chunked,
          InWork
<1>4. RoomOpensOnce(p)' /\ StatusMeans(p)'
  BY <1>1, <1>a, LocalTypes, DrainAssumption
     DEF Inv, RankInv, ChunksInOrder, RoomOpensOnce, StatusMeans, Opening, Chunked, InWork
<1>5. Quiet(p) => Quiet(p)'
  BY <1>1, LocalTypes
      DEF Quiet, Inv, RankInv, ChunksInOrder, RoomOpensOnce, StatusMeans, Opening, InWork
<1>6. \A q \in Prefills \ {p} : Local(q)' = Local(q)
  BY DEF RecvInfo, UpdateStatus, Receives, Local, Inv, Types
<1> QED
  BY <1>1, <1>2, <1>3, <1>4, <1>5, <1>6, RankStep DEF RankInv

\* An ABORT leaves its room failed or gone.
LEMMA MarkFailedInv ==
  ASSUME Inv, NEW p \in Prefills, MarkFailed(p)
  PROVE  Inv'
<1>1. /\ boot[p] = "mark"
      /\ boot'[p] = "register"
      /\ status'[p] = (IF status[p] = "none" THEN "none" ELSE "failed")
      /\ UNCHANGED <<infos[p], sender[p], sent[p], queue[p], worker[p],
                     outstanding[p], target[p], written[p], toPrefill[p]>>
      /\ UNCHANGED <<verdict, toDecode, decodeVars>>
  BY UpdateStatusFacts DEF MarkFailed, UpdateStatus, Inv, Types, Statuses
<1>2. Types'
  <2>1. status' \in [Prefills -> Statuses]
    BY UpdateStatusFacts DEF MarkFailed, UpdateStatus, Inv, Types, Statuses
  <2>2. boot' \in [Prefills -> {"recv", "mark", "register", "tryack"}]
    BY DEF MarkFailed, Inv, Types
  <2> QED
    BY <2>1, <2>2 DEF MarkFailed, Inv, Types, decodeVars
<1>3. ChunksInOrder(p)'
  BY <1>1, LocalTypes, DrainAssumption
      DEF Inv, RankInv, ChunksInOrder, RoomOpensOnce, StatusMeans, Opening, Chunked,
          InWork
<1>4. RoomOpensOnce(p)' /\ StatusMeans(p)'
  BY <1>1, LocalTypes, DrainAssumption
     DEF Inv, RankInv, ChunksInOrder, RoomOpensOnce, StatusMeans, Opening, Chunked, InWork
<1>5. Quiet(p) => Quiet(p)'
  BY <1>1, LocalTypes
      DEF Quiet, Inv, RankInv, ChunksInOrder, RoomOpensOnce, StatusMeans, Opening, InWork
<1>6. \A q \in Prefills \ {p} : Local(q)' = Local(q)
  BY DEF MarkFailed, UpdateStatus, Local, Inv, Types
<1> QED
  BY <1>1, <1>2, <1>3, <1>4, <1>5, <1>6, RankStep DEF RankInv

\* An acknowledgement is owed by a room that is failed or gone.
LEMMA RegisterAckTargetInv ==
  ASSUME Inv, NEW p \in Prefills, RegisterAckTarget(p)
  PROVE  Inv'
<1>1. /\ boot[p] = "register"
      /\ boot'[p] = "tryack"
      /\ target'[p] = TRUE
      /\ UNCHANGED <<status[p], infos[p], sender[p], sent[p], queue[p],
                     worker[p], outstanding[p], written[p], toPrefill[p]>>
      /\ UNCHANGED <<verdict, toDecode, decodeVars>>
  BY DEF RegisterAckTarget, Inv, Types, Statuses
<1>2. Types'
  BY DEF RegisterAckTarget, Inv, Types, Statuses, decodeVars
<1>3. ChunksInOrder(p)'
  BY <1>1, LocalTypes, DrainAssumption
      DEF Inv, RankInv, ChunksInOrder, RoomOpensOnce, StatusMeans, Opening, Chunked,
          InWork
<1>4. RoomOpensOnce(p)' /\ StatusMeans(p)'
  BY <1>1, LocalTypes, DrainAssumption
     DEF Inv, RankInv, ChunksInOrder, RoomOpensOnce, StatusMeans, Opening, Chunked, InWork
<1>5. Quiet(p) => Quiet(p)'
  BY <1>1, LocalTypes
      DEF Quiet, Inv, RankInv, ChunksInOrder, RoomOpensOnce, StatusMeans, Opening, InWork
<1>6. \A q \in Prefills \ {p} : Local(q)' = Local(q)
  BY DEF RegisterAckTarget, Local, Inv, Types
<1> QED
  BY <1>1, <1>2, <1>3, <1>4, <1>5, <1>6, RankStep DEF RankInv

\* An acknowledgement goes out only when it is owed and nothing is outstanding.
LEMMA MaybeAckFacts ==
  ASSUME Inv, NEW p \in Prefills, NEW n, MaybeAckDrainedAbort(p, n)
  PROVE  /\ target' \in [Prefills -> BOOLEAN]
         /\ toDecode' \in [Prefills -> Seq({"ack", "success", "failed"})]
         /\ target'[p] => target[p]
         /\ \A q \in Prefills \ {p} : target'[q] = target[q]
         /\ toDecode' # toDecode =>
              /\ n = 0 /\ target[p]
              /\ toDecode' = [toDecode EXCEPT ![p] = Append(@, "ack")]
<1>1. CASE n = 0 /\ target[p]
  <2>1. target' = [target EXCEPT ![p] = FALSE] /\ SendToDecode(p, "ack")
    BY <1>1, Zenon DEF MaybeAckDrainedAbort
  <2>2. Append(toDecode[p], "ack") \in Seq({"ack", "success", "failed"})
    BY LocalTypes
  <2> QED
    BY <1>1, <2>1, <2>2 DEF SendToDecode, Inv, Types
<1>2. CASE ~(n = 0 /\ target[p])
  <2>1. target' = target /\ toDecode' = toDecode
    BY <1>2, Zenon DEF MaybeAckDrainedAbort
  <2> QED
    BY <2>1 DEF Inv, Types
<1> QED
  BY <1>1, <1>2

\* A room that failed or is gone and writes nothing is quiet, so that it may
\* acknowledge.
LEMMA OwedIsQuiet ==
  ASSUME Inv, NEW p \in Prefills, target[p], worker[p].pc # "writing"
  PROVE  Quiet(p)
  BY LocalTypes DEF RankInv, StatusMeans, Quiet

\* A chunk of a room that failed or is gone is dropped, and an abort that waits
\* for it is acknowledged.
LEMMA SkipChunkInv ==
  ASSUME Inv, NEW p \in Prefills, SkipChunk(p)
  PROVE  Inv'
<1>0. MaybeAckDrainedAbort(p, 0)
  BY DEF SkipChunk
<1>1. /\ worker[p].pc = "counted" /\ status[p] \in {"none", "failed"}
      /\ outstanding'[p] = 0
      /\ worker'[p] = Idle
      /\ target'[p] => target[p]
      /\ UNCHANGED <<status[p], infos[p], sender[p], sent[p], queue[p], boot[p],
                     written[p], toPrefill[p]>>
      /\ UNCHANGED <<verdict, decodeVars>>
  BY <1>0, MaybeAckFacts DEF SkipChunk, Inv, Types
<1>2. Types'
  BY <1>0, MaybeAckFacts DEF SkipChunk, Idle, Inv, Types, decodeVars
<1>3. ChunksInOrder(p)'
  BY <1>1, LocalTypes DEF Idle, RankInv, ChunksInOrder, Chunked, InWork
<1>4. RoomOpensOnce(p)' /\ StatusMeans(p)'
  BY <1>1, LocalTypes DEF RankInv, RoomOpensOnce, StatusMeans, Opening
<1>5. Quiet(p) => Quiet(p)'
  BY <1>1, LocalTypes DEF Idle, Quiet, Opening
<1>6. \A q \in Prefills \ {p} : Local(q)' = Local(q)
  BY <1>0, MaybeAckFacts DEF SkipChunk, Local, Inv, Types
<1>7. toDecode' # toDecode =>
        toDecode' = [toDecode EXCEPT ![p] = Append(@, "ack")] /\ Justified(p, "ack")'
  BY <1>0, <1>1, <1>5, MaybeAckFacts, OwedIsQuiet DEF Justified
<1> QED
  BY <1>1, <1>2, <1>3, <1>4, <1>5, <1>6, <1>7, RankStep DEF RankInv

\* The chunk is over and no longer outstanding; the room is taken down only when
\* it has concluded.
LEMMA FinishChunkInv ==
  ASSUME Inv, NEW p \in Prefills, FinishChunk(p)
  PROVE  Inv'
<1> DEFINE n == outstanding[p] - 1
<1>0. MaybeAckDrainedAbort(p, n)
  BY DEF FinishChunk
<1>1. /\ worker[p].pc = "written" /\ n = 0
      /\ outstanding'[p] = 0
      /\ worker'[p] = Idle
      /\ target'[p] => target[p]
      /\ status[p] = "waiting" => infos'[p] = infos[p]
      /\ UNCHANGED <<status[p], sender[p], sent[p], queue[p], boot[p], written[p],
                     toPrefill[p]>>
      /\ UNCHANGED <<verdict, decodeVars>>
  BY <1>0, MaybeAckFacts, LocalTypes DEF FinishChunk, RankInv, ChunksInOrder, Inv, Types
<1>2. Types'
  <2>1. infos' \in [Prefills -> BOOLEAN]
    BY DEF FinishChunk, Inv, Types
  <2>2. outstanding' \in [Prefills -> Nat]
    BY <1>1 DEF FinishChunk, Inv, Types
  <2> QED
    BY <1>0, <2>1, <2>2, MaybeAckFacts DEF FinishChunk, Idle, Inv, Types, decodeVars
<1>3. ChunksInOrder(p)'
  BY <1>1, LocalTypes DEF Idle, RankInv, ChunksInOrder, Chunked, InWork
<1>4. RoomOpensOnce(p)' /\ StatusMeans(p)'
  BY <1>1, LocalTypes
      DEF Idle, RankInv, RoomOpensOnce, StatusMeans, Opening, Chunked, InWork
<1>5. Quiet(p) => Quiet(p)'
  BY <1>1, LocalTypes DEF Idle, Quiet, Opening
<1>6. \A q \in Prefills \ {p} : Local(q)' = Local(q)
  BY <1>0, MaybeAckFacts DEF FinishChunk, Local, Inv, Types
<1>7. toDecode' # toDecode =>
        toDecode' = [toDecode EXCEPT ![p] = Append(@, "ack")] /\ Justified(p, "ack")'
  BY <1>0, <1>1, <1>5, MaybeAckFacts, OwedIsQuiet DEF Justified
<1> QED
  BY <1>1, <1>2, <1>3, <1>4, <1>5, <1>6, <1>7, RankStep DEF RankInv

\* The bootstrap thread acknowledges what it registered when nothing is
\* outstanding.
LEMMA TryAckInv ==
  ASSUME Inv, NEW p \in Prefills, TryAck(p)
  PROVE  Inv'
<1>0. MaybeAckDrainedAbort(p, outstanding[p])
  BY DEF TryAck
<1>1. /\ boot[p] = "tryack" /\ boot'[p] = "recv"
      /\ target'[p] => target[p]
      /\ UNCHANGED <<status[p], infos[p], sender[p], sent[p], queue[p], worker[p],
                     outstanding[p], written[p], toPrefill[p]>>
      /\ UNCHANGED <<verdict, decodeVars>>
  BY <1>0, MaybeAckFacts DEF TryAck, Inv, Types
<1>2. Types'
  BY <1>0, MaybeAckFacts DEF TryAck, Inv, Types, decodeVars
<1>3. ChunksInOrder(p)'
  BY <1>1, LocalTypes DEF RankInv, ChunksInOrder, Chunked, InWork
<1>4. RoomOpensOnce(p)' /\ StatusMeans(p)'
  BY <1>1, LocalTypes DEF RankInv, RoomOpensOnce, StatusMeans, Opening, Chunked, InWork
<1>5. Quiet(p) => Quiet(p)'
  BY <1>1, LocalTypes DEF Quiet, Opening
<1>6. \A q \in Prefills \ {p} : Local(q)' = Local(q)
  BY <1>0, MaybeAckFacts DEF TryAck, Local, Inv, Types
<1>7. toDecode' # toDecode =>
        toDecode' = [toDecode EXCEPT ![p] = Append(@, "ack")] /\ Justified(p, "ack")'
  <2>1. outstanding[p] = 0 => worker[p].pc # "writing"
    BY LocalTypes DEF RankInv, ChunksInOrder
  <2> QED
    BY <1>0, <1>5, <2>1, MaybeAckFacts, OwedIsQuiet DEF Justified
<1> QED
  BY <1>1, <1>2, <1>3, <1>4, <1>5, <1>6, <1>7, RankStep DEF RankInv

\* A concluded transfer is Failed if it failed in the meantime, and a room that
\* is gone is not concluded.
LEMMA ConcludeFacts ==
  ASSUME Inv, NEW p \in Prefills, NEW r \in {"success", "failed"}, Conclude(p, r)
  PROVE  /\ status' \in [Prefills -> Statuses]
         /\ toDecode' \in [Prefills -> Seq({"ack", "success", "failed"})]
         /\ status'[p] = IF status[p] \in {"none", "failed"} THEN status[p] ELSE r
         /\ \A q \in Prefills \ {p} : status'[q] = status[q]
         /\ toDecode' # toDecode =>
              /\ status'[p] \in {"success", "failed"}
              /\ toDecode' = [toDecode EXCEPT ![p] = Append(@, status'[p])]
<1>1. CASE status[p] = "none"
  <2>1. status' = status /\ toDecode' = toDecode
    BY <1>1, Zenon DEF Conclude
  <2> QED
    BY <1>1, <2>1 DEF Inv, Types
<1>2. CASE status[p] # "none"
  <2> DEFINE m == update_status(status[p], r)
  <2>1. UpdateStatus(p, r) /\ SendToDecode(p, m)
    BY <1>2, Zenon DEF Conclude
  <2>2. m = (IF status[p] = "failed" THEN status[p] ELSE r)
    BY <1>2, LocalTypes, UpdateStatusFacts
  <2>3. m \in {"success", "failed"}
    BY <2>2
  <2> HIDE DEF m
  <2>4. status' = [status EXCEPT ![p] = m]
    BY <2>1 DEF UpdateStatus, m
  <2>5. status'[p] = m
    BY <2>4 DEF Inv, Types
  <2>6. Append(toDecode[p], m) \in Seq({"ack", "success", "failed"})
    BY <2>3, LocalTypes
  <2>7. toDecode' = toDecode \/ toDecode' = [toDecode EXCEPT ![p] = Append(@, m)]
    BY <2>1 DEF SendToDecode
  <2>8. toDecode' \in [Prefills -> Seq({"ack", "success", "failed"})]
    BY <2>6, <2>7 DEF Inv, Types
  <2>9. status' \in [Prefills -> Statuses]
    BY <2>3, <2>4 DEF Inv, Types, Statuses
  <2> QED
    BY <1>2, <2>2, <2>3, <2>4, <2>5, <2>7, <2>8, <2>9 DEF Inv, Types
<1> QED
  BY <1>1, <1>2

\* A chunk is written to the end; after the last one of a room that has not
\* failed all of them are.
LEMMA EndWriteInv ==
  ASSUME Inv, NEW p \in Prefills, EndWrite(p)
  PROVE  Inv'
<1>1. /\ worker[p].pc = "writing"
      /\ worker'[p].pc = "written" /\ worker'[p].last = worker[p].last
      /\ written'[p] = written[p] + 1
      /\ UNCHANGED <<infos[p], sender[p], sent[p], queue[p], outstanding[p], target[p],
                     boot[p], toPrefill[p]>>
      /\ UNCHANGED <<verdict, decodeVars>>
  BY DEF EndWrite, Inv, Types
<1>2. /\ status' \in [Prefills -> Statuses]
      /\ toDecode' \in [Prefills -> Seq({"ack", "success", "failed"})]
      /\ \A q \in Prefills \ {p} : status'[q] = status[q]
      /\ \/ status'[p] = status[p] /\ toDecode' = toDecode
         \/ /\ worker[p].last
            /\ status'[p] = IF status[p] \in {"none", "failed"} THEN status[p] ELSE "success"
            /\ toDecode' # toDecode =>
                 /\ status'[p] \in {"success", "failed"}
                 /\ toDecode' = [toDecode EXCEPT ![p] = Append(@, status'[p])]
  <2>1. CASE worker[p].last
    BY <2>1, ConcludeFacts DEF EndWrite
  <2>2. CASE ~worker[p].last
    <3>1. status' = status /\ toDecode' = toDecode
      BY <2>2, Zenon DEF EndWrite
    <3> QED
      BY <3>1 DEF Inv, Types
  <2> QED
    BY <2>1, <2>2
<1>3. Types'
  <2>1. /\ worker' = [worker EXCEPT ![p].pc = "written"]
        /\ written' = [written EXCEPT ![p] = @ + 1]
        /\ UNCHANGED <<infos, sender, sent, queue, outstanding, target, boot, toPrefill>>
    BY DEF EndWrite
  <2>2. /\ worker' \in [Prefills -> [pc : {"idle", "counted", "writing", "written"},
                                     last : BOOLEAN]]
        /\ written' \in [Prefills -> Nat]
    <3>1. worker \in [Prefills -> [pc : {"idle", "counted", "writing", "written"},
                                  last : BOOLEAN]]
      BY DEF Inv, Types
    <3>2. written \in [Prefills -> Nat]
      BY DEF Inv, Types
    <3> QED
      BY <2>1, <3>1, <3>2
  <2>3. UNCHANGED <<verdict, dstatus, responses, acks>>
    BY <1>1 DEF decodeVars
  <2>4. /\ infos' \in [Prefills -> BOOLEAN]
        /\ sender' \in [Prefills -> {"new", "live", "adding", "gone"}]
        /\ sent' \in [Prefills -> Nat]
        /\ queue' \in [Prefills -> Seq(BOOLEAN)]
        /\ outstanding' \in [Prefills -> Nat]
        /\ target' \in [Prefills -> BOOLEAN]
        /\ boot' \in [Prefills -> {"recv", "mark", "register", "tryack"}]
        /\ toPrefill' \in [Prefills -> Seq({"info", "abort"})]
    BY <2>1 DEF Inv, Types
  <2> QED
    BY <1>2, <2>2, <2>3, <2>4 DEF Inv, Types
<1>a. Chunked(p)' = Chunked(p) /\ Chunked(p) \in Nat /\ InWork(p)' = 0
  <2>1. /\ InWork(p) = 1 /\ InWork(p)' = 0 /\ written'[p] = written[p] + 1
        /\ Len(queue[p]) \in Nat /\ written[p] \in Nat /\ queue'[p] = queue[p]
    BY <1>1, LocalTypes DEF InWork
  <2>2. Chunked(p)' = Len(queue'[p]) + written'[p] + InWork(p)'
    BY DEF Chunked
  <2>3. Chunked(p) = Len(queue[p]) + written[p] + InWork(p)
    BY DEF Chunked
  <2> QED
    BY <2>1, <2>2, <2>3
<1>b. Opening(p)' = Opening(p) /\ ~Opening(p) /\ status[p] # "success"
  BY <1>1, <1>a, LocalTypes
     DEF RankInv, ChunksInOrder, RoomOpensOnce, StatusMeans, Opening, Chunked, InWork
<1>4. ChunksInOrder(p)'
  BY <1>1, <1>a, LocalTypes DEF RankInv, ChunksInOrder
<1>5. RoomOpensOnce(p)' /\ StatusMeans(p)'
  BY <1>1, <1>2, <1>a, <1>b, LocalTypes
     DEF Statuses, RankInv, ChunksInOrder, RoomOpensOnce, StatusMeans
<1>6. ~Quiet(p) /\ written[p] # Chunks
  BY <1>1, LocalTypes, DrainAssumption DEF Quiet, RankInv, ChunksInOrder, Chunked, InWork
<1>7. \A q \in Prefills \ {p} : Local(q)' = Local(q)
  BY <1>2 DEF EndWrite, Local, Inv, Types
<1>8. status'[p] = "success" => written'[p] = Chunks
  <2> SUFFICES ASSUME status'[p] = "success"
               PROVE  written'[p] = Chunks
    OBVIOUS
  <2>1. Chunked(p)' = sent'[p] /\ Len(queue'[p]) = 0 /\ sent'[p] = Chunks
    BY <1>5 DEF StatusMeans
  <2> QED
    BY <1>1, <1>a, <2>1, LocalTypes DEF Chunked
<1>9. toDecode' # toDecode =>
        \E m \in {"ack", "success", "failed"} :
          toDecode' = [toDecode EXCEPT ![p] = Append(@, m)] /\ Justified(p, m)'
  BY <1>2, <1>8 DEF Justified
<1> QED
  BY <1>1, <1>3, <1>4, <1>5, <1>6, <1>7, <1>9, RankStep DEF RankInv

\* A write that returned an error has ended, and its room fails.
LEMMA FailWriteInv ==
  ASSUME Inv, NEW p \in Prefills, FailWrite(p)
  PROVE  Inv'
<1>1. /\ worker[p].pc = "writing"
      /\ worker'[p].pc = "written" /\ worker'[p].last = worker[p].last
      /\ UNCHANGED <<infos[p], sender[p], sent[p], queue[p], outstanding[p], target[p],
                     boot[p], written[p], toPrefill[p]>>
      /\ UNCHANGED <<verdict, decodeVars>>
  BY DEF FailWrite, Inv, Types
<1>2. /\ status' \in [Prefills -> Statuses]
      /\ toDecode' \in [Prefills -> Seq({"ack", "success", "failed"})]
      /\ \A q \in Prefills \ {p} : status'[q] = status[q]
      /\ status'[p] = IF status[p] = "none" THEN "none" ELSE "failed"
      /\ toDecode' # toDecode => toDecode' = [toDecode EXCEPT ![p] = Append(@, "failed")]
  <2>1. Conclude(p, "failed")
    BY DEF FailWrite
  <2> QED
    BY <2>1, ConcludeFacts
<1>3. Types'
  <2>1. worker' \in [Prefills -> [pc : {"idle", "counted", "writing", "written"}, last : BOOLEAN]]
    BY DEF FailWrite, Inv, Types
  <2> QED
    BY <1>2, <2>1 DEF FailWrite, Inv, Types, decodeVars
<1>4. ChunksInOrder(p)'
  BY <1>1, LocalTypes DEF RankInv, ChunksInOrder, Chunked, InWork
<1>5. RoomOpensOnce(p)' /\ StatusMeans(p)'
  BY <1>1, <1>2, LocalTypes
     DEF Statuses, RankInv, ChunksInOrder, RoomOpensOnce, StatusMeans, Opening, Chunked, InWork
<1>6. \A q \in Prefills \ {p} : Local(q)' = Local(q)
  BY <1>2 DEF FailWrite, Local, Inv, Types
<1>7. toDecode' # toDecode =>
        toDecode' = [toDecode EXCEPT ![p] = Append(@, "failed")] /\ Justified(p, "failed")'
  BY <1>2 DEF Justified
<1> QED
  BY <1>1, <1>3, <1>4, <1>5, <1>6, <1>7, RankStep DEF RankInv, Quiet

\* An ABORT finds the page indices read; a room that has concluded and has
\* nothing outstanding is quiet and may acknowledge at once.
LEMMA RecvAbortInv ==
  ASSUME Inv, NEW p \in Prefills, RecvAbort(p)
  PROVE  Inv'
<1> DEFINE room_active == status[p] \notin {"none", "success"}
<1>1. /\ toPrefill[p] # <<>> /\ toPrefill[p][1] = "abort"
      /\ toPrefill' = [toPrefill EXCEPT ![p] = Tail(@)]
      /\ toPrefill[p] \in Seq({"info", "abort"})
  BY LocalTypes DEF RecvAbort, Receives
<1>2. /\ boot[p] = "recv" /\ boot'[p] \in {"recv", "mark"}
      /\ UNCHANGED <<status[p], infos[p], sender[p], sent[p], queue[p], worker[p],
                     outstanding[p], target[p], written[p]>>
      /\ UNCHANGED <<verdict, decodeVars>>
  BY DEF RecvAbort, Receives, Inv, Types
<1>3. /\ \A i \in 2 .. Len(toPrefill'[p]) : toPrefill'[p][i] # "info"
      /\ ~Opening(p) /\ ~Opening(p)'
  <2>1. \A i \in 2 .. Len(toPrefill[p]) : toPrefill[p][i] # "info"
    BY LocalTypes DEF RankInv, RoomOpensOnce
  <2>2. toPrefill'[p] = Tail(toPrefill[p])
    BY <1>1 DEF Inv, Types
  <2>3. ~Opening(p)
    BY <1>1 DEF Opening
  <2> QED
    BY <1>1, <2>1, <2>2, <2>3 DEF Opening
<1>4. /\ toDecode' \in [Prefills -> Seq({"ack", "success", "failed"})]
      /\ toDecode' # toDecode =>
           /\ ~room_active /\ outstanding[p] = 0
           /\ toDecode' = [toDecode EXCEPT ![p] = Append(@, "ack")]
  <2>1. CASE ~room_active /\ outstanding[p] = 0
    <3>1. SendToDecode(p, "ack")
      BY <2>1, Zenon DEF RecvAbort
    <3>2. Append(toDecode[p], "ack") \in Seq({"ack", "success", "failed"})
      BY LocalTypes
    <3> QED
      BY <2>1, <3>1, <3>2 DEF SendToDecode, Inv, Types
  <2>2. CASE ~(~room_active /\ outstanding[p] = 0)
    <3>1. toDecode' = toDecode
      BY <2>2, Zenon DEF RecvAbort
    <3> QED
      BY <3>1 DEF Inv, Types
  <2> QED
    BY <2>1, <2>2
<1>5. Types'
  <2>1. Tail(toPrefill[p]) \in Seq({"info", "abort"})
    BY <1>1
  <2>2. boot' \in [Prefills -> {"recv", "mark", "register", "tryack"}]
    BY DEF RecvAbort, Inv, Types
  <2> QED
    BY <1>1, <1>4, <2>1, <2>2 DEF RecvAbort, Inv, Types, decodeVars
<1>6. ChunksInOrder(p)'
  BY <1>2, LocalTypes DEF RankInv, ChunksInOrder, Chunked, InWork
<1>7. RoomOpensOnce(p)' /\ StatusMeans(p)'
  BY <1>2, <1>3, LocalTypes DEF RankInv, RoomOpensOnce, StatusMeans, Chunked, InWork
<1>8. Quiet(p) => Quiet(p)'
  BY <1>2, <1>3 DEF Quiet
<1>9. \A q \in Prefills \ {p} : Local(q)' = Local(q)
  BY <1>1 DEF RecvAbort, Local, Inv, Types
<1>10. toDecode' # toDecode =>
        toDecode' = [toDecode EXCEPT ![p] = Append(@, "ack")] /\ Justified(p, "ack")'
  <2>1. ~room_active /\ outstanding[p] = 0 => Quiet(p)
    BY <1>3, LocalTypes DEF RankInv, ChunksInOrder, Quiet
  <2> QED
    BY <1>4, <1>8, <2>1 DEF Justified
<1> QED
  BY <1>2, <1>5, <1>6, <1>7, <1>8, <1>9, <1>10, RankStep DEF RankInv

---------------------------------------------------------------------------
(* Steps of the decode rank, and the poll of the prefill ranks.            *)

\* All that the ranks' invariants and messages depend on.
rankVars == <<status, infos, sender, sent, queue, worker, outstanding, target, boot,
              written, verdict, toPrefill>>

\* A step that leaves the ranks alone keeps their invariants.
LEMMA RanksFrame ==
  ASSUME Inv, UNCHANGED rankVars
  PROVE  \A p \in Prefills :
           /\ RankInv(p)' /\ Local(p)' = Local(p)
           /\ Quiet(p) => Quiet(p)'
           /\ written'[p] = written[p]
<1> SUFFICES ASSUME NEW p \in Prefills
             PROVE  /\ RankInv(p)' /\ Local(p)' = Local(p)
                    /\ Quiet(p) => Quiet(p)'
                    /\ written'[p] = written[p]
  OBVIOUS
<1>1. Local(p)' = Local(p) /\ verdict' = verdict
  BY DEF rankVars, Local
<1> QED
  BY <1>1, LocalFrame DEF Inv

\* The ranks agree to send only when each has read its page indices.
LEMMA PollPrefillInv ==
  ASSUME Inv, PollPrefill
  PROVE  Inv'
<1>1. /\ UNCHANGED <<status, infos, sender, sent, queue, worker, outstanding, target, boot,
                     written, toPrefill, toDecode, decodeVars>>
      /\ verdict' \in {"waiting", "success", "failed"}
      /\ verdict' # "failed" => \A p \in Prefills : ~Opening(p)
  <2>1. CASE verdict = "bootstrap"
    <3>1. PICK s \in {"failed", "waiting"} : PollIs(s) /\ verdict' = s
      BY <2>1 DEF PollPrefill
    <3>2. s # "failed" => \A p \in Prefills : status[p] = "waiting"
      BY <3>1 DEF PollIs, Poll
    <3> QED
      BY <3>1, <3>2, LocalTypes DEF PollPrefill, RankInv, RoomOpensOnce
  <2>2. CASE verdict = "waiting"
    BY <2>2, LocalTypes DEF PollPrefill, RankInv, RoomOpensOnce
  <2> QED
    BY <2>1, <2>2 DEF PollPrefill
<1>2. \A p \in Prefills : RankInv(p)'
  BY <1>1, LocalTypes
      DEF RankInv, ChunksInOrder, RoomOpensOnce, StatusMeans, Opening, Chunked, InWork
<1>3. Types'
  BY <1>1 DEF Inv, Types, decodeVars
<1>4. AckedIsQuiet' /\ SuccessIsComplete'
  BY <1>1 DEF Inv, AckedIsQuiet, SuccessIsComplete, Sent, Quiet, Opening, decodeVars
<1> QED
  BY <1>2, <1>3, <1>4 DEF Inv

\* A step of the decode rank keeps the invariant if it counts only what it
\* received.
LEMMA DecodeStep ==
  ASSUME Inv, Types',
         \A p \in Prefills :
           /\ RankInv(p)'
           /\ Quiet(p) => Quiet(p)'
           /\ written'[p] = written[p]
           /\ Sent(p, "ack")' => Sent(p, "ack")
           /\ Sent(p, "success")' => Sent(p, "success")
           /\ p \in acks' \/ place' = "drained" => Quiet(p)
           /\ p \in responses' \/ dstatus' = "success" \/ place' = "served"
                => written[p] = Chunks
  PROVE  Inv'
<1>1. AckedIsQuiet'
  BY DEF Inv, AckedIsQuiet
<1>2. SuccessIsComplete'
  BY DEF Inv, SuccessIsComplete
<1> QED
  BY <1>1, <1>2 DEF Inv

\* What has been received is no longer on its way.
LEMMA ReceivedFacts ==
  ASSUME NEW s \in Seq({"ack", "success", "failed"}), s # <<>>,
         NEW m, NEW i \in 1 .. Len(Tail(s)), Tail(s)[i] = m
  PROVE  \E j \in 1 .. Len(s) : s[j] = m
  OBVIOUS

\* The receiver thread counts what it receives, once per rank.
LEMMA RecvFromPrefillInv ==
  ASSUME Inv, NEW p \in Prefills, RecvFromPrefill(p)
  PROVE  Inv'
<1> DEFINE m == Head(toDecode[p])
<1>1. /\ toDecode[p] # <<>> /\ toDecode[p] \in Seq({"ack", "success", "failed"})
      /\ toDecode' = [toDecode EXCEPT ![p] = Tail(@)]
      /\ UNCHANGED rankVars /\ place' = place
  BY LocalTypes DEF RecvFromPrefill, rankVars, prefillVars
<1>2. m \in {"ack", "success", "failed"} /\ Sent(p, m)
  <2>1. m = toDecode[p][1] /\ 1 \in 1 .. Len(toDecode[p])
    BY <1>1
  <2> QED
    BY <1>1, <2>1 DEF Sent
<1> HIDE DEF m
<1>3. /\ m = "ack" => Quiet(p)
      /\ m = "success" => written[p] = Chunks
  BY <1>2 DEF Inv, AckedIsQuiet, SuccessIsComplete
<1>4. /\ acks' \subseteq Prefills /\ \A q \in acks' : Quiet(q)
      /\ responses' \subseteq Prefills /\ \A q \in responses' : written[q] = Chunks
      /\ dstatus' \in {"none", "waiting", "success", "failed"}
      /\ dstatus' = "success" => \A q \in Prefills : written[q] = Chunks
  <2>0. /\ acks \subseteq Prefills /\ \A q \in acks : Quiet(q)
        /\ responses \subseteq Prefills /\ \A q \in responses : written[q] = Chunks
        /\ dstatus \in {"none", "waiting", "success", "failed"}
        /\ dstatus = "success" => \A q \in Prefills : written[q] = Chunks
    BY DEF Inv, Types, AckedIsQuiet, SuccessIsComplete
  <2>1. CASE m = "ack"
    <3>1. acks' = note_abort_ack(p) /\ responses' = responses /\ dstatus' = dstatus
      BY <2>1 DEF RecvFromPrefill, m
    <3> QED
      BY <1>3, <2>0, <2>1, <3>1 DEF note_abort_ack
  <2>2. CASE m # "ack" /\ dstatus = "none"
    <3>1. acks' = acks /\ responses' = responses /\ dstatus' = dstatus
      BY <2>2 DEF RecvFromPrefill, apply_prefill_status, m
    <3> QED
      BY <2>0, <3>1
  <2>3. CASE m # "ack" /\ dstatus # "none"
    <3>1. /\ acks' = acks
          /\ responses' = IF m = "success" THEN responses \cup {p} ELSE responses
          /\ dstatus' = IF m = "failed" \/ responses' = Prefills
                        THEN update_status(dstatus, m) ELSE dstatus
      BY <2>3 DEF RecvFromPrefill, apply_prefill_status, m
    <3>2. responses' \subseteq Prefills /\ \A q \in responses' : written[q] = Chunks
      BY <1>3, <2>0, <3>1
    <3>3. /\ update_status(dstatus, "failed") = "failed"
          /\ update_status(dstatus, "success") \in {"success", "failed"}
      BY <2>0, <2>3, UpdateStatusFacts DEF Statuses
    <3> QED
      BY <1>2, <2>0, <2>3, <3>1, <3>2, <3>3
  <2> QED
    BY <2>1, <2>2, <2>3
<1>5. Types'
  <2>1. Tail(toDecode[p]) \in Seq({"ack", "success", "failed"})
    BY <1>1
  <2> QED
    BY <1>1, <1>4, <2>1 DEF Inv, Types, rankVars
<1>6. ASSUME NEW q \in Prefills, NEW n, Sent(q, n)'
      PROVE  Sent(q, n)
  <2>1. PICK i \in 1 .. Len(toDecode'[q]) : toDecode'[q][i] = n
    BY <1>6 DEF Sent
  <2>2. CASE q = p
    <3>1. toDecode'[p] = Tail(toDecode[p])
      BY <1>1 DEF Inv, Types
    <3> QED
      BY <1>1, <2>1, <2>2, <3>1, ReceivedFacts DEF Sent
  <2>3. CASE q # p
    BY <1>1, <2>1, <2>3 DEF Sent, Inv, Types
  <2> QED
    BY <2>2, <2>3
<1>7. \A q \in Prefills :
        /\ q \in acks' \/ place' = "drained" => Quiet(q)
        /\ q \in responses' \/ dstatus' = "success" \/ place' = "served"
             => written[q] = Chunks
  BY <1>1, <1>4 DEF Inv, AckedIsQuiet, SuccessIsComplete
<1> QED
  BY <1>1, <1>5, <1>6, <1>7, RanksFrame, DecodeStep

\* A step of the decode rank that sends and receives nothing.
LEMMA QuietStep ==
  ASSUME Inv, UNCHANGED rankVars, toDecode' = toDecode,
         dstatus' \in {"none", "waiting", "success", "failed"},
         responses' \subseteq responses, acks' \subseteq acks,
         place' = "drained" => \A p \in Prefills : Quiet(p),
         dstatus' = "success" \/ place' = "served" => \A p \in Prefills : written[p] = Chunks
  PROVE  Inv'
<1>1. Types'
  BY DEF Inv, Types, rankVars
<1>2. \A p \in Prefills : \A m : Sent(p, m)' => Sent(p, m)
  BY DEF Sent
<1>3. \A p \in Prefills :
        /\ p \in acks' \/ place' = "drained" => Quiet(p)
        /\ p \in responses' \/ dstatus' = "success" \/ place' = "served"
             => written[p] = Chunks
  BY DEF Inv, AckedIsQuiet, SuccessIsComplete
<1> QED
  BY <1>1, <1>2, <1>3, RanksFrame, DecodeStep

\* An ABORT is sent behind the page indices.
LEMMA SendAbortFacts ==
  ASSUME Inv, SendAbortNotification, verdict' = verdict,
         UNCHANGED <<status, infos, sender, sent, queue, worker, outstanding, target, boot,
                     written>>
  PROVE  /\ toPrefill' \in [Prefills -> Seq({"info", "abort"})]
         /\ \A p \in Prefills :
              /\ RankInv(p)'
              /\ Quiet(p) => Quiet(p)'
              /\ written'[p] = written[p]
<1>1. ASSUME NEW p \in Prefills
      PROVE  toPrefill'[p] = toPrefill[p] \/ toPrefill'[p] = Append(toPrefill[p], "abort")
  BY DEF SendAbortNotification
<1>2. toPrefill' \in [Prefills -> Seq({"info", "abort"})]
  <2>1. \A p \in Prefills : Append(toPrefill[p], "abort") \in Seq({"info", "abort"})
    BY LocalTypes
  <2>2. CASE notified
    BY <2>2 DEF SendAbortNotification, Inv, Types
  <2>3. CASE ~notified
    <3>1. PICK R \in SUBSET Prefills :
            toPrefill' = [p \in Prefills |->
              IF p \in R THEN Append(toPrefill[p], "abort") ELSE toPrefill[p]]
      BY <2>3 DEF SendAbortNotification
    <3> QED
      BY <2>1, <3>1, LocalTypes
  <2> QED
    BY <2>2, <2>3
<1>3. ASSUME NEW p \in Prefills
      PROVE  /\ Opening(p)' = Opening(p)
             /\ \A i \in 2 .. Len(toPrefill'[p]) : toPrefill'[p][i] # "info"
  <2>1. /\ toPrefill[p] \in Seq({"info", "abort"})
        /\ \A i \in 2 .. Len(toPrefill[p]) : toPrefill[p][i] # "info"
    BY LocalTypes DEF RankInv, RoomOpensOnce
  <2>2. CASE toPrefill'[p] = toPrefill[p]
    BY <2>1, <2>2 DEF Opening
  <2>3. CASE toPrefill'[p] = Append(toPrefill[p], "abort")
    <3>1. toPrefill[p] = <<>> => toPrefill'[p][1] = "abort"
      BY <2>1, <2>3
    <3>2. toPrefill[p] # <<>> => toPrefill'[p][1] = toPrefill[p][1]
      BY <2>1, <2>3
    <3>3. toPrefill'[p] # <<>>
      BY <2>1, <2>3
    <3>4. \A i \in 2 .. Len(toPrefill'[p]) : toPrefill'[p][i] # "info"
      BY <2>1, <2>3
    <3> QED
      BY <3>1, <3>2, <3>3, <3>4 DEF Opening
  <2> QED
    BY <1>1, <2>2, <2>3
<1>4. ASSUME NEW p \in Prefills
      PROVE  RankInv(p)' /\ (Quiet(p) => Quiet(p)') /\ written'[p] = written[p]
  <2>1. Opening(p)' = Opening(p)
    BY <1>3
  <2>2. ChunksInOrder(p)' /\ StatusMeans(p)'
    BY <2>1, LocalTypes DEF RankInv, ChunksInOrder, StatusMeans, Chunked, InWork
  <2>3. RoomOpensOnce(p)'
    BY <1>3, <2>1, LocalTypes DEF RankInv, RoomOpensOnce
  <2> QED
    BY <2>1, <2>2, <2>3 DEF RankInv, Quiet
<1> QED
  BY <1>2, <1>4

\* An abort fails the transfer on the decode rank and tells the prefill ranks.
LEMMA AbortRequestInv ==
  ASSUME Inv, AbortRequest
  PROVE  Inv'
<1>1. /\ SendAbortNotification /\ verdict' = verdict
      /\ UNCHANGED <<status, infos, sender, sent, queue, worker, outstanding, target, boot,
                     written, toDecode, responses, acks, place>>
      /\ dstatus' \in {"none", "failed"}
  <2>1. dstatus' = update_status(dstatus, "failed") /\ dstatus \in Statuses
    BY DEF AbortRequest, Inv, Types, Statuses
  <2>2. dstatus' \in {"none", "failed"}
    BY <2>1, UpdateStatusFacts
  <2> QED
    BY <2>2 DEF AbortRequest, prefillVars
<1>2. Types'
  BY <1>1, SendAbortFacts DEF Inv, Types
<1>3. \A p \in Prefills : \A m : Sent(p, m)' => Sent(p, m)
  BY <1>1 DEF Sent
<1>4. \A p \in Prefills :
        /\ p \in acks' \/ place' = "drained" => Quiet(p)
        /\ p \in responses' \/ dstatus' = "success" \/ place' = "served"
             => written[p] = Chunks
  BY <1>1 DEF Inv, AckedIsQuiet, SuccessIsComplete
<1> QED
  BY <1>1, <1>2, <1>3, <1>4, SendAbortFacts, DecodeStep

\* A poll that timed out tells the prefill ranks and holds the pages.
LEMMA PopWaitingTimeoutInv ==
  ASSUME Inv, PopWaitingTimeout
  PROVE  Inv'
<1>1. /\ SendAbortNotification /\ verdict' = verdict
      /\ UNCHANGED <<status, infos, sender, sent, queue, worker, outstanding, target, boot,
                     written, toDecode, acks>>
      /\ dstatus' = "none" /\ responses' = {} /\ place' = "held"
  BY DEF PopWaitingTimeout, prefillVars
<1>2. Types'
  BY <1>1, SendAbortFacts DEF Inv, Types
<1>3. \A p \in Prefills : \A m : Sent(p, m)' => Sent(p, m)
  BY <1>1 DEF Sent
<1>4. \A p \in Prefills :
        /\ p \in acks' \/ place' = "drained" => Quiet(p)
        /\ p \in responses' \/ dstatus' = "success" \/ place' = "served"
             => written[p] = Chunks
  BY <1>1 DEF Inv, AckedIsQuiet
<1> QED
  BY <1>1, <1>2, <1>3, <1>4, SendAbortFacts, DecodeStep

\* Pages are released as drained when as many ranks have acknowledged as there
\* are, and then every one of them has.
LEMMA ResolveDeferredReleaseInv ==
  ASSUME Inv, ResolveDeferredRelease
  PROVE  Inv'
<1>1. place' = "drained" => acks = Prefills
  <2> SUFFICES ASSUME Cardinality(acks) >= Cardinality(Prefills)
               PROVE  acks = Prefills
    BY DEF ResolveDeferredRelease, is_abort_release_safe
  <2>1. acks \subseteq Prefills
    BY DEF Inv, Types
  <2>2. /\ Cardinality(acks) <= Cardinality(Prefills)
        /\ Cardinality(acks) = Cardinality(Prefills) => acks = Prefills
        /\ Cardinality(acks) \in Nat /\ Cardinality(Prefills) \in Nat
    BY <2>1, FS_Subset, FS_CardinalityType, DrainAssumption
  <2> QED
    BY <2>2
<1>2. place' = "drained" => \A p \in Prefills : Quiet(p)
  BY <1>1 DEF Inv, AckedIsQuiet
<1>3. /\ UNCHANGED rankVars /\ UNCHANGED <<toDecode, dstatus, responses>>
      /\ acks' = {} /\ place' \in {"drained", "timeout"}
  BY DEF ResolveDeferredRelease, rankVars, prefillVars
<1>4. dstatus' = "success" => \A p \in Prefills : written[p] = Chunks
  BY <1>3 DEF Inv, SuccessIsComplete
<1> QED
  BY <1>2, <1>3, <1>4, QuietStep DEF Inv, Types

\* The other steps of the decode scheduler and of the heartbeat thread.
LEMMA DecodeSchedulerInv ==
  ASSUME Inv, ArmTracker \/ HandleNodeFailure \/ PopFailed \/ PopTransferred \/ UNCHANGED vars
  PROVE  Inv'
<1>0. /\ dstatus \in {"none", "waiting", "success", "failed"}
      /\ place = "drained" => \A p \in Prefills : Quiet(p)
      /\ dstatus = "success" \/ place = "served" => \A p \in Prefills : written[p] = Chunks
  BY DEF Inv, Types, AckedIsQuiet, SuccessIsComplete
<1>1. CASE ArmTracker
  BY <1>0, <1>1, QuietStep DEF ArmTracker, rankVars, prefillVars
<1>2. CASE HandleNodeFailure
  BY <1>0, <1>2, QuietStep DEF HandleNodeFailure, rankVars, prefillVars
<1>3. CASE PopFailed
  BY <1>0, <1>3, QuietStep DEF PopFailed, rankVars, prefillVars
<1>4. CASE PopTransferred
  BY <1>0, <1>4, QuietStep DEF PopTransferred, rankVars, prefillVars
<1>5. CASE UNCHANGED vars
  BY <1>0, <1>5, QuietStep DEF vars, decodeVars, rankVars, prefillVars
<1> QED
  BY <1>1, <1>2, <1>3, <1>4, <1>5

---------------------------------------------------------------------------
(* The theorems.                                                           *)

\* The invariant holds when the decode rank has sent its page indices.
LEMMA InitInv == Init => Inv
<1> SUFFICES ASSUME Init
             PROVE  Inv
  OBVIOUS
<1>1. Types
  BY DEF Init, Types, Statuses, Idle
<1>2. ASSUME NEW p \in Prefills
      PROVE  RankInv(p)
  BY DrainAssumption
     DEF Init, Idle, RankInv, ChunksInOrder, LastIsLast, RoomOpensOnce, StatusMeans,
         Opening, Chunked, InWork
<1>3. \A p \in Prefills : \A m : ~Sent(p, m)
  BY DEF Init, Sent
<1>4. AckedIsQuiet /\ SuccessIsComplete
  BY <1>3 DEF Init, AckedIsQuiet, SuccessIsComplete
<1> QED
  BY <1>1, <1>2, <1>4 DEF Inv

\* Every step of every thread keeps the invariant.
LEMMA NextInv == Inv /\ [Next]_vars => Inv'
<1> SUFFICES ASSUME Inv, [Next]_vars
             PROVE  Inv'
  OBVIOUS
<1>1. ASSUME NEW p \in Prefills,
             SenderInit(p) \/ CheckRoom(p) \/ EnqueueChunk(p) \/ SenderAbort(p) \/ SenderClear(p)
      PROVE  Inv'
  BY <1>1, SenderInitInv, CheckRoomInv, EnqueueChunkInv, SenderAbortInv, SenderClearInv
<1>2. ASSUME NEW p \in Prefills, Worker(p)
      PROVE  Inv'
  BY <1>2, DequeueInv, SkipChunkInv, StartWriteInv, EndWriteInv, FailWriteInv, FinishChunkInv
     DEF Worker
<1>3. ASSUME NEW p \in Prefills, Bootstrap(p)
      PROVE  Inv'
  BY <1>3, RecvInfoInv, RecvAbortInv, MarkFailedInv, RegisterAckTargetInv, TryAckInv
     DEF Bootstrap
<1>4. ASSUME NEW p \in Prefills, RecvFromPrefill(p)
      PROVE  Inv'
  BY <1>4, RecvFromPrefillInv
<1>5. CASE DecodeScheduler
  BY <1>5, DecodeSchedulerInv, PopWaitingTimeoutInv, ResolveDeferredReleaseInv
     DEF DecodeScheduler
<1>6. CASE PollPrefill \/ AbortRequest \/ HandleNodeFailure \/ Done \/ UNCHANGED vars
  BY <1>6, PollPrefillInv, AbortRequestInv, DecodeSchedulerInv DEF Done
<1> QED
  BY <1>1, <1>2, <1>3, <1>4, <1>5, <1>6 DEF Next

\* Where an acknowledgement or a success is, its rank is quiet or complete: the
\* inductive invariant of the drain protocol.
THEOREM DrainInv == Spec => []Inv
  BY InitInv, NextInv, PTL DEF Spec

\* One chunk of a room is outstanding at a time, and only chunks handed over are
\* queued or written (transfer_worker, add_transfer_request).
THEOREM DrainTypeOK == Spec => []TypeOK
<1>1. Inv => TypeOK
  <2> SUFFICES ASSUME Inv
               PROVE  TypeOK
    OBVIOUS
  <2>1. ASSUME NEW p \in Prefills
        PROVE  /\ Len(queue[p]) + written[p] <= sent[p] /\ sent[p] <= Chunks
               /\ outstanding[p] = IF worker[p].pc = "idle" THEN 0 ELSE 1
    <3>1. InWork(p) \in {0, 1}
      BY DEF InWork
    <3>2. /\ Len(queue[p]) \in Nat /\ written[p] \in Nat /\ sent[p] \in Nat
          /\ Len(queue[p]) + written[p] + InWork(p) <= sent[p] /\ sent[p] <= Chunks
          /\ outstanding[p] = IF worker[p].pc = "idle" THEN 0 ELSE 1
      BY LocalTypes DEF RankInv, ChunksInOrder, Chunked
    <3> QED
      BY <3>1, <3>2
  <2> QED
    BY <2>1 DEF Inv, Types, Statuses, TypeOK
<1> QED
  BY <1>1, DrainInv, PTL

\* Pages released because every rank acknowledged are written by no rank, then or
\* later (is_abort_release_safe, _maybe_ack_drained_abort).
THEOREM DrainedIsQuiet == Spec => []DrainedReleaseIsQuiet
<1>1. Inv => DrainedReleaseIsQuiet
  BY DEF Inv, AckedIsQuiet, Quiet, DrainedReleaseIsQuiet
<1> QED
  BY <1>1, DrainInv, PTL

\* A request that is served has every chunk of every rank, whatever was aborted,
\* dropped or failed on the way (apply_prefill_status, conclude_transfer).
THEOREM ServedHasItsKV == Spec => []ServedIsComplete
<1>1. Inv => ServedIsComplete
  BY DEF Inv, SuccessIsComplete, ServedIsComplete
<1> QED
  BY <1>1, DrainInv, PTL
=============================================================================
