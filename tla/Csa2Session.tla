----------------------------- MODULE Csa2Session -----------------------------
(***************************************************************************)
(* Conversations on disk (sm70_csa2_session): a catalog of token ids and   *)
(* stops, written by the scheduler's side, and beside each entry the image *)
(* that the worker writes later.  s.disk is the catalog in mtime order;    *)
(* s.spill and s.load are the handoff from the match to the next extend,   *)
(* NoSession when nothing is asked for.  A file is replaced atomically.    *)
(* One TP rank: every rank has its own files.                              *)
(***************************************************************************)
EXTENDS Csa2Boundary

CONSTANT SessionKeep    \* SGLANG_DSV41_CSA2_SESSION_KEEP, 0: no session directory

NoSession == [ids |-> <<>>]
NoImage == [resident_end |-> 0]

session_key(ids, key) == [ids |-> ids, key |-> key]

KeyOf(record) == session_key(record.ids, record.key)

\* The records of a session key: one or none.
RecordsOf(disk, k) == SelectSeq(disk, LAMBDA r : KeyOf(r) = k)

image_ready(record) == record.image # NoImage

Touch(disk, record) ==
  Append(SelectSeq(disk, LAMBDA r : KeyOf(r) # KeyOf(record)), record)

\* The entry just written is the newest, so it is never the one dropped.
evict_lru(disk) ==
  IF Len(disk) <= SessionKeep THEN disk
  ELSE SubSeq(disk, Len(disk) - SessionKeep + 1, Len(disk))

\* An image of an earlier spill under the same key stays until it is replaced.
remember(disk, k, cs) ==
  LET stops == IF Len(k.ids) \in Range(cs) THEN cs ELSE Append(cs, Len(k.ids))
      old == RecordsOf(disk, k)
  IN  evict_lru(Touch(disk, [ids |-> k.ids, key |-> k.key, cuts |-> stops,
                             image |-> IF old = <<>> THEN NoImage ELSE old[1].image]))

\* Bug variant: the image is written under the worker's own length.
file_spill_under_pin_AsIs(t, pin) == freeze_tip(t)

\* _file_spill_under_pin: the image goes to disk under the scheduler's length.
file_spill_under_pin(t, pin) ==
  LET t1 == freeze_tip(IF verify_tip_is_pin_slack(t, pin) THEN relabel_tip(t, pin) ELSE t)
      longer == SelectSeq(t1.order, LAMBDA n : n > pin)
      n == longer[1]
      moved(x) == IF x = n THEN pin ELSE x
  IN  IF pin \in DOMAIN t1.history \/ pin = t1.resident_end \/ Len(longer) # 1 THEN t1
      ELSE [t1 EXCEPT
              !.order = [i \in DOMAIN @ |-> moved(@[i])],
              !.history = [m \in (DOMAIN @ \ {n}) \cup {pin} |-> IF m = pin THEN @[n] ELSE @[m]],
              !.resident_end = moved(@),
              !.tip_len = moved(@)]

save_resident(s) ==
  LET t == s.store
      image == [resident_end |-> t.resident_end, order |-> t.order, history |-> t.history,
                rows |-> s.rows, ring |-> s.ring]
      put(r) == IF KeyOf(r) = s.spill THEN [r EXCEPT !.image = image] ELSE r
  IN  IF t.resident_end = 0 /\ t.order = <<>> /\ t.tip_len = 0 THEN s
      ELSE [s EXCEPT !.disk = [i \in DOMAIN @ |-> put(@[i])]]

load_resident(s) ==
  LET found == RecordsOf(s.disk, s.load)
      image == found[1].image
  IN  IF found = <<>> \/ found[1].image = NoImage THEN Fail(s, TRUE, "session load missed key")
      ELSE [s EXCEPT !.store = [EmptyStore EXCEPT !.resident_end = image.resident_end,
                                                  !.order = image.order,
                                                  !.history = image.history],
                     !.rows = image.rows, !.ring = image.ring,
                     !.disk = Touch(@, found[1])]

\* Before an extend forward: spill, then clear or load, then find the prefix.
csa2_prepare_extend(s, start) ==
  LET pin == Len(s.spill.ids)
      s1 == IF s.spill = NoSession THEN s
            ELSE save_resident([s EXCEPT !.store = file_spill_under_pin(@, pin)])
      s2 == IF start > 0 /\ s.load # NoSession THEN load_resident(s1) ELSE s1
      s3 == [s2 EXCEPT !.spill = NoSession, !.load = NoSession]
  IN  IF start = 0 THEN [s3 EXCEPT !.store = EmptyStore] ELSE PrepareResident(s3, start)

=============================================================================
