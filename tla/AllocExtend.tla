----------------------------- MODULE AllocExtend -----------------------------
(***************************************************************************)
(* The two implementations of "give every row of a batch the indices of    *)
(* its next tokens": the torch reference alloc_extend_naive, which places  *)
(* every output slot by itself, and alloc_extend_kernel, one program per   *)
(* request that writes up to three parts.  Both read the head of           *)
(* free_pages; the caller then drops get_num_new_pages entries from it, a  *)
(* third computation that has to agree with the two.  alloc_decode_kernel  *)
(* is the one-token case.                                                  *)
(*                                                                         *)
(* A batch is a record of three sequences, one entry per request:          *)
(* prefix_lens, seq_lens and last_loc, the index of the last token already *)
(* there.  Indices are token indices: page * page_size + offset.           *)
(***************************************************************************)
EXTENDS Integers, Sequences, FiniteSets, FiniteSetsExt, Functions

CONSTANTS PageSize,    \* page_size
          MaxSeqLen,   \* bound: tokens of one request
          MaxBatch,    \* bound: requests of one batch
          FreePages    \* the free list, a sequence of page ids, long enough

ASSUME AllocExtendAssumption ==
  /\ PageSize \in Nat \ {0, 1}   \* page_size 1 has an allocator of its own
  /\ MaxSeqLen \in Nat /\ MaxBatch \in Nat
  /\ FreePages \in Seq(Nat) /\ IsInjective(FreePages)
  /\ \A b \in 1..MaxBatch : 100 + b \notin Range(FreePages)   \* see LastLoc
  /\ Len(FreePages) >= MaxBatch * (MaxSeqLen \div PageSize + 1)

CeilAlign(n) == ((n + PageSize - 1) \div PageSize) * PageSize
FloorAlign(n) == (n \div PageSize) * PageSize

\* torch.cumsum at position b.
Cumsum(f, b) == SumFunctionOnSet(f, 1..b)

Rows(batch) == DOMAIN batch.seq_lens

Extends(batch) ==
  [b \in Rows(batch) |-> batch.seq_lens[b] - batch.prefix_lens[b]]

\* get_num_new_pages for an extend.
PagesOfRow(batch) ==
  [b \in Rows(batch) |->
     (CeilAlign(batch.seq_lens[b]) - CeilAlign(batch.prefix_lens[b])) \div PageSize]

GetNumNewPages(batch) == SumFunction(PagesOfRow(batch))

\* Bug variant: counts the rows that have just filled a page.
GetNumNewPagesDecode_Full(batch) ==
  Cardinality({b \in Rows(batch) : batch.seq_lens[b] % PageSize = 0})

\* get_num_new_pages(decode=True).
GetNumNewPagesDecode(batch) ==
  Cardinality({b \in Rows(batch) : batch.seq_lens[b] % PageSize = 1})

-----------------------------------------------------------------------------
(* alloc_extend_naive: slot j of the output, 0-based, finds its owner by   *)
(* searching the cumulative extend lengths, and then its phase.            *)

Num1(batch, b) ==
  Min({batch.seq_lens[b], CeilAlign(batch.prefix_lens[b])}) - batch.prefix_lens[b]

DoneAfter1(batch, b) ==
  batch.prefix_lens[b] + Num1(batch, b) = batch.seq_lens[b]

Num2(batch, b) ==
  IF DoneAfter1(batch, b) THEN 0
  ELSE FloorAlign(batch.seq_lens[b]) - CeilAlign(batch.prefix_lens[b])

\* Bug variant: the tail is counted for a row that ends in its old page.
Num3_NoEarlyReturn(batch, b) == batch.seq_lens[b] - FloorAlign(batch.seq_lens[b])

Num3(batch, b) ==
  IF DoneAfter1(batch, b) THEN 0
  ELSE batch.seq_lens[b] - FloorAlign(batch.seq_lens[b])

PagesPerReq(batch) ==
  [b \in Rows(batch) |->
     Num2(batch, b) \div PageSize + IF Num3(batch, b) > 0 THEN 1 ELSE 0]

Owner(batch, j) == Min({b \in Rows(batch) : Cumsum(Extends(batch), b) > j})

NaiveSlot(batch, j) ==
  LET b     == Owner(batch, j)
      local == j - (Cumsum(Extends(batch), b) - Extends(batch)[b])
      n1    == Num1(batch, b)
      n2    == Num2(batch, b)
      last  == Cumsum(PagesPerReq(batch), b)     \* end_new_pages
      first == last - PagesPerReq(batch)[b]      \* start_new_pages
  IN  CASE local < n1      -> batch.last_loc[b] + 1 + local
        [] local >= n1 /\ local < n1 + n2 ->
             FreePages[first + (local - n1) \div PageSize + 1] * PageSize
               + ((local - n1) % PageSize)
        [] local >= n1 + n2 -> FreePages[last] * PageSize + (local - n1 - n2)

AllocExtendNaive(batch) ==
  [j \in 0..(SumFunction(Extends(batch)) - 1) |-> NaiveSlot(batch, j)]

-----------------------------------------------------------------------------
(* alloc_extend_kernel: program pid writes parts 1, 2 and 3 at its own     *)
(* offset.  Part(pid) is the partial output function it stores.            *)

KernelStart(batch, pid) == Cumsum(Extends(batch), pid) - Extends(batch)[pid]

\* Bug variant: the inclusive sum is taken for the start.
KernelPageStart_Inclusive(batch, pid) == Cumsum(PagesOfRow(batch), pid)

KernelPageStart(batch, pid) ==
  Cumsum(PagesOfRow(batch), pid) - PagesOfRow(batch)[pid]

Part1(batch, pid) ==
  [o \in KernelStart(batch, pid)..(KernelStart(batch, pid) + Num1(batch, pid) - 1) |->
     batch.last_loc[pid] + 1 + (o - KernelStart(batch, pid))]

Part2(batch, pid) ==
  LET at == KernelStart(batch, pid) + Num1(batch, pid)
      n2 == FloorAlign(batch.seq_lens[pid]) - CeilAlign(batch.prefix_lens[pid])
  IN  [o \in at..(at + n2 - 1) |->
         FreePages[KernelPageStart(batch, pid) + (o - at) \div PageSize + 1] * PageSize
           + ((o - at) % PageSize)]

Part3(batch, pid) ==
  LET at == KernelStart(batch, pid) + Num1(batch, pid)
              + FloorAlign(batch.seq_lens[pid]) - CeilAlign(batch.prefix_lens[pid])
      n3 == batch.seq_lens[pid] - FloorAlign(batch.seq_lens[pid])
  IN  [o \in at..(at + n3 - 1) |->
         FreePages[KernelPageStart(batch, pid) + PagesOfRow(batch)[pid]] * PageSize
           + (o - at)]

\* The early return after part 1; without it parts 2 and 3 would store at
\* offsets that belong to another program.  (The return after part 2 only
\* skips an empty part 3.)
Stores(batch, pid) ==
  {Part1(batch, pid)}
    \cup IF DoneAfter1(batch, pid) THEN {}
         ELSE {Part2(batch, pid), Part3(batch, pid)}

AllStores(batch) == UNION {Stores(batch, pid) : pid \in Rows(batch)}

\* The indices slot j receives; more than one would be a race of programs.
KernelSlot(batch, j) == {p[j] : p \in {q \in AllStores(batch) : j \in DOMAIN q}}

\* alloc_decode_kernel: one token per row.
AllocDecode(batch) ==
  [b \in Rows(batch) |->
     IF PagesOfRow(batch)[b] = 0
       THEN batch.last_loc[b] + 1
       ELSE FreePages[KernelPageStart(batch, b) + 1] * PageSize]

-----------------------------------------------------------------------------
(* One call per behaviour: any batch whose rows already hold pages that    *)
(* are not in the free list.                                               *)

VARIABLES call,   \* the batch
          out     \* the indices it was given, <<>> before the call

vars == <<call, out>>

\* Row b keeps its partial page on page 100 + b, out of the free list.
LastLoc(b, prefix) ==
  IF prefix = 0 THEN -1 ELSE (100 + b) * PageSize + ((prefix - 1) % PageSize)

Init ==
  /\ \E n \in 1..MaxBatch : \E p, s \in [1..n -> 0..MaxSeqLen] :
       /\ \A b \in 1..n : p[b] =< s[b]
       /\ p # s
       /\ call = [prefix_lens |-> p, seq_lens |-> s,
                  last_loc |-> [b \in 1..n |-> LastLoc(b, p[b])]]
  /\ out = <<>>

Extend ==
  /\ out = <<>>
  /\ out' = AllocExtendNaive(call)
  /\ UNCHANGED call

Next == Extend

Spec == Init /\ [][Next]_vars

-----------------------------------------------------------------------------
(* Properties *)

Called == out # <<>>

Position(batch, j) ==
  LET b == Owner(batch, j)
  IN  batch.prefix_lens[b] + j - (Cumsum(Extends(batch), b) - Extends(batch)[b])

FreedHead(batch) == {FreePages[i] : i \in 1..GetNumNewPages(batch)}

\* What a batch must get: token i of a row sits at offset i % page_size of
\* its page; a row stays on one page until the page is full and then moves to
\* a page no other slot of the batch touches; and the pages used are exactly
\* the get_num_new_pages entries the caller drops from the free list, so no
\* page is handed out twice and none is lost.
ExtendIsSound ==
  Called =>
    /\ \A j \in DOMAIN out : out[j] % PageSize = Position(call, j) % PageSize
    /\ \A i, j \in DOMAIN out :
         out[i] \div PageSize = out[j] \div PageSize <=>
           /\ Owner(call, i) = Owner(call, j)
           /\ Position(call, i) \div PageSize = Position(call, j) \div PageSize
    /\ \A j \in DOMAIN out :
         Position(call, j) < CeilAlign(call.prefix_lens[Owner(call, j)]) =>
           out[j] \div PageSize = call.last_loc[Owner(call, j)] \div PageSize
    /\ FreedHead(call) =
         {out[j] \div PageSize : j \in
            {k \in DOMAIN out : Position(call, k) >=
                                  CeilAlign(call.prefix_lens[Owner(call, k)])}}

\* The kernel and its torch reference agree on every slot, every slot is
\* written, and no two programs of the grid write the same slot.
KernelAgreesWithNaive ==
  Called =>
    /\ \A j \in DOMAIN out : KernelSlot(call, j) = {out[j]}
    /\ UNION {DOMAIN p : p \in AllStores(call)} = DOMAIN out

\* On a batch that grows every row by one token, alloc_decode_kernel and the
\* seq_len % page_size = 1 count agree with the extend path.
DecodeAgreesWithExtend ==
  (Called /\ \A b \in Rows(call) : Extends(call)[b] = 1 /\ call.prefix_lens[b] > 0) =>
    /\ \A b \in Rows(call) : AllocDecode(call)[b] = out[b - 1]
    /\ GetNumNewPagesDecode(call) = GetNumNewPages(call)

\* alloc_extend merges the staged pages only when extend_num_tokens //
\* page_size + bs + 1 exceeds the free list, so that must bound the demand.
MergeBoundCoversDemand ==
  GetNumNewPages(call) =<
    SumFunction(Extends(call)) \div PageSize + Len(call.seq_lens)
=============================================================================
