---------------------------- MODULE Csa2Boundary ----------------------------
(***************************************************************************)
(* The worker's side of the sticky cache: Csa2BoundaryStore and the four   *)
(* csa2_* hooks that the DSpark worker calls around its forwards.          *)
(*                                                                         *)
(* The operators map a state s to the next one.  Of s they use             *)
(*   s.store  the Csa2BoundaryStore,                                       *)
(*   s.rows   the tokens whose compressed rows the image holds,            *)
(*   s.ring   the tokens that the SWA ring and the pending pair have       *)
(*            absorbed (rows are prefix-stable, the ring is not),          *)
(*   s.fault  RuntimeErrors raised so far.                                 *)
(* A snapshot (_StateSnap) is the ring it copied; the empty dict is <<>>.  *)
(* Target and draft backend are one: both are paired or neither is.        *)
(***************************************************************************)
EXTENDS Naturals, Sequences, SequencesExt, FiniteSetsExt, Functions, TLC

CONSTANT BoundaryKeep     \* BOUNDARY_KEEP

Fail(s, cond, what) == IF cond THEN [s EXCEPT !.fault = @ \cup {what}] ELSE s

NoSnaps == [n \in {} |-> <<>>]

EmptyStore ==
  [resident_end |-> 0, tip_len |-> 0, tip_from_extend |-> FALSE, tip |-> <<>>,
   history |-> NoSnaps, order |-> <<>>]

\* Bug variant: nothing is evicted.
evict_recent_KeepsAll(lengths) == lengths

evict_recent(lengths) ==
  IF Len(lengths) <= BoundaryKeep THEN lengths
  ELSE SubSeq(lengths, Len(lengths) - BoundaryKeep + 1, Len(lengths))

cap_verify_commit(prefix, commit, pin_cap) ==
  IF pin_cap <= prefix THEN 0 ELSE Min({commit, pin_cap - prefix})

---------------------------------------------------------------------------
(* Csa2BoundaryStore, on a store t.                                        *)

backup_tip(t, ring, seq_len, from_extend) ==
  [t EXCEPT !.tip = ring, !.tip_len = seq_len, !.resident_end = seq_len,
            !.tip_from_extend = from_extend]

relabel_tip(t, length) == [t EXCEPT !.tip_len = length, !.resident_end = length]

verify_tip_is_pin_slack(t, start) ==
  /\ t.tip # <<>>
  /\ ~t.tip_from_extend
  /\ t.tip_len > start
  /\ {start, t.tip_len} \cap DOMAIN t.history = {}
  /\ \A n \in DOMAIN t.history : ~(start < n /\ n < t.tip_len)

freeze_tip(t) ==
  IF t.tip_len = 0 \/ t.tip = <<>> \/ t.tip_len \in DOMAIN t.history
  THEN [t EXCEPT !.tip_from_extend = FALSE]
  ELSE LET order == evict_recent(Append(Remove(t.order, t.tip_len), t.tip_len))
       IN  [t EXCEPT !.history = Restrict((t.tip_len :> t.tip) @@ @, Range(order)),
                     !.order = order,
                     !.tip_from_extend = FALSE]

\* The snapshot that restore(length) copies back; <<>> when there is none.
RestoredSnap(t, length) ==
  CASE length \in DOMAIN t.history -> t.history[length]
    [] length = t.tip_len          -> t.tip
    [] OTHER                       -> <<>>

restore(t, length) ==
  [t EXCEPT !.resident_end = length,
            !.history = Restrict(@, {n \in DOMAIN @ : n <= length}),
            !.order = SelectSeq(@, LAMBDA n : n <= length),
            !.tip = IF t.tip_len > length THEN <<>> ELSE @,
            !.tip_len = IF @ > length THEN length ELSE @]

---------------------------------------------------------------------------
(* The hooks around the forwards.                                          *)

\* Bug variant: the live ring is taken for the shorter prefix too.
PrepareResident_NoRestore(s, start) ==
  LET slack == verify_tip_is_pin_slack(s.store, start)
      t == freeze_tip(IF slack THEN relabel_tip(s.store, start) ELSE s.store)
  IN  [s EXCEPT !.store = IF start < t.resident_end THEN restore(t, start) ELSE t]

\* csa2_prepare_extend with a cached prefix, after any load.
PrepareResident(s, start) ==
  LET slack == verify_tip_is_pin_slack(s.store, start)
      t == freeze_tip(IF slack THEN relabel_tip(s.store, start) ELSE s.store)
  IN  CASE start = t.resident_end -> [s EXCEPT !.store = t]
        [] start > t.resident_end -> Fail([s EXCEPT !.store = t], TRUE, "starts past the resident image")
        [] OTHER ->
             Fail([s EXCEPT !.store = restore(t, start), !.ring = RestoredSnap(t, start)],
                  RestoredSnap(t, start) = <<>>, "restore missed length")

csa2_prepare_decode(s) ==
  IF s.store.tip_from_extend THEN [s EXCEPT !.store = freeze_tip(@)] ELSE s

csa2_finish_forward(s, seq_len, from_extend) ==
  [s EXCEPT !.store = backup_tip(@, s.ring, seq_len, from_extend)]

=============================================================================
