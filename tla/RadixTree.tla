------------------------------ MODULE RadixTree ------------------------------
(***************************************************************************)
(* The prefix tree of radix_cache.py as operators on a record.             *)
(*                                                                         *)
(* A TreeNode is named by the tokens from the root to its end.  That name  *)
(* is what survives a split: _split_node puts a new node above the child   *)
(* and the child, which requests may hold as last_node, keeps its object   *)
(* and its path.  The record has                                           *)
(*   nodes              the paths of the nodes below the root              *)
(*   lock_ref           node -> lock_ref                                   *)
(*   value              page-aligned path -> the KV page of its last page  *)
(*   evictable_size_, protected_size_   the two counters, in tokens        *)
(*   evictable_leaves   the set the eviction heap starts from              *)
(* Timestamps, hit counts and priorities only order the eviction heap;     *)
(* EvictChoices leaves that order open.                                    *)
(***************************************************************************)
EXTENDS Integers, FiniteSets, Sequences, SequencesExt

CONSTANT PageSize   \* tokens per page

ASSUME PageSizeAssumption == PageSize \in Nat \ {0}

FloorAlign(n) == (n \div PageSize) * PageSize
CeilAlign(n) == ((n + PageSize - 1) \div PageSize) * PageSize

\* RadixKey.page_aligned
PageAligned(key) == SubSeq(key, 1, FloorAlign(Len(key)))

\* The first n pages of a key.
PagePrefix(key, n) == SubSeq(key, 1, n * PageSize)

Root == <<>>

EmptyTree ==
  [nodes |-> {}, lock_ref |-> <<>>, value |-> <<>>,
   evictable_size_ |-> 0, protected_size_ |-> 0, evictable_leaves |-> {}]

\* The function f with n mapped to v.
With(f, n, v) == [x \in DOMAIN f \cup {n} |-> IF x = n THEN v ELSE f[x]]

Ancestors(t, n) == {m \in t.nodes : IsStrictPrefix(m, n)}
Descendants(t, n) == {m \in t.nodes : IsStrictPrefix(n, m)}
PathTo(t, n) == {m \in t.nodes : IsPrefix(m, n)}

\* len(node.key)
KeyLen(t, n) == Len(n) - Max({0} \cup {Len(m) : m \in Ancestors(t, n)})

Parent(t, n) == SubSeq(n, 1, Len(n) - KeyLen(t, n))

SizeOf(t, S) == SumFunctionOnSet([n \in t.nodes |-> KeyLen(t, n)], S)

\* _match_prefix_helper: the walk compares page by page, so it ends at the
\* longest page prefix of the key that the tree has a page for.
Matched(t, key) ==
  PagePrefix(key, Max({n \in 0..(Len(key) \div PageSize) :
                         n = 0 \/ PagePrefix(key, n) \in DOMAIN t.value}))

\* Bug variant: the node above the cut starts unlocked.
SplitNode_Unlocked(t, p) ==
  IF p = Root \/ p \in t.nodes THEN t
  ELSE [t EXCEPT !.nodes = @ \cup {p}, !.lock_ref = With(@, p, 0)]

\* _split_node: the new node inherits the lock count of the node it cuts.
SplitNode(t, p) ==
  IF p = Root \/ p \in t.nodes THEN t
  ELSE LET child == CHOOSE n \in Descendants(t, p) :
                      \A m \in Descendants(t, p) : Len(n) =< Len(m)
       IN  [t EXCEPT !.nodes = @ \cup {p},
                     !.lock_ref = With(@, p, t.lock_ref[child])]

\* Bug variant: a node that got a child stays in the leaf set.
UpdateLeafStatus_NeverDiscards(t, n) ==
  IF n = Root \/ t.lock_ref[n] > 0 \/ Descendants(t, n) # {} THEN t
  ELSE [t EXCEPT !.evictable_leaves = @ \cup {n}]

\* _update_leaf_status; the root keeps lock_ref 1 and is never a leaf.
UpdateLeafStatus(t, n) ==
  IF n = Root THEN t
  ELSE [t EXCEPT !.evictable_leaves =
          IF t.lock_ref[n] = 0 /\ Descendants(t, n) = {} THEN @ \cup {n} ELSE @ \ {n}]

\* The page prefixes of a key that are longer than m.
NewPaths(m, key) ==
  {PagePrefix(key, n) : n \in (Len(m) \div PageSize + 1)..(Len(key) \div PageSize)}

\* Bug variant: a child that matches in part is not split; the rest of the
\* key hangs below its parent.
Insert_NoSplit(t, key, row) ==
  LET m  == Matched(t, key)
      t1 == [t EXCEPT
               !.nodes = @ \cup {key},
               !.lock_ref = With(@, key, 0),
               !.value = [p \in DOMAIN @ \cup NewPaths(m, key) |->
                            IF p \in DOMAIN @ THEN @[p] ELSE row[Len(p) \div PageSize]],
               !.evictable_size_ = @ + Len(key) - Len(m)]
  IN  IF m = key THEN t ELSE UpdateLeafStatus(t1, key)

\* _insert_helper: split where the key leaves the tree, hang the rest below.
\* row[i] is the page of the i-th page of the key.
Insert(t, key, row) ==
  LET m  == Matched(t, key)
      t1 == SplitNode(t, m)
      t2 == [t1 EXCEPT
               !.nodes = @ \cup {key},
               !.lock_ref = With(@, key, 0),
               !.value = [p \in DOMAIN @ \cup NewPaths(m, key) |->
                            IF p \in DOMAIN @ THEN @[p] ELSE row[Len(p) \div PageSize]],
               !.evictable_size_ = @ + Len(key) - Len(m)]
  IN  IF m = key THEN t1 ELSE UpdateLeafStatus(UpdateLeafStatus(t2, m), key)

\* inc_lock_ref: every node from n up; the newly locked ones change sides.
IncLockRef(t, n) ==
  LET path  == PathTo(t, n)
      delta == SizeOf(t, {m \in path : t.lock_ref[m] = 0})
  IN  [t EXCEPT !.lock_ref = [m \in DOMAIN @ |-> @[m] + IF m \in path THEN 1 ELSE 0],
                !.evictable_size_ = @ - delta,
                !.protected_size_ = @ + delta,
                !.evictable_leaves = @ \ path]

\* dec_lock_ref
DecLockRef(t, n) ==
  LET path  == PathTo(t, n)
      loose == {m \in path : t.lock_ref[m] = 1}
      delta == SizeOf(t, loose)
  IN  [t EXCEPT !.lock_ref = [m \in DOMAIN @ |-> @[m] - IF m \in path THEN 1 ELSE 0],
                !.evictable_size_ = @ + delta,
                !.protected_size_ = @ - delta,
                !.evictable_leaves =
                  (@ \ path) \cup {m \in loose : Descendants(t, m) = {}}]

-----------------------------------------------------------------------------
(* evict *)

\* The sets of nodes the heap can have popped: it starts from the tracked
\* leaves, and a node enters it when its last child went and it is unlocked.
Poppable(t, E) ==
  \A n \in E : \/ n \in t.evictable_leaves
               \/ /\ t.lock_ref[n] = 0
                  /\ Descendants(t, n) # {}
                  /\ Descendants(t, n) \subseteq E

\* The largest of them.
Drained(t) ==
  {n \in t.nodes : \A m \in {n} \cup Descendants(t, n) :
     t.lock_ref[m] = 0 /\ (Descendants(t, m) = {} => m \in t.evictable_leaves)}

\* Eviction of `want` tokens stops with the node that reaches the goal, or
\* when the heap is empty.
EvictChoices(t, want) ==
  IF want =< 0 THEN {{}}
  ELSE IF SizeOf(t, Drained(t)) < want THEN {Drained(t)}
  ELSE {E \in SUBSET Drained(t) :
          /\ SizeOf(t, E) >= want
          /\ Poppable(t, E)
          /\ \E x \in E : /\ Ancestors(t, x) \cap E = {}
                          /\ SizeOf(t, E \ {x}) < want}

\* The page-aligned paths whose page sits in one of the nodes of E.
ValuesOf(t, E) ==
  {p \in DOMAIN t.value :
     \E n \in E : IsPrefix(p, n) /\ Len(p) > Len(n) - KeyLen(t, n)}

\* _delete_leaf for every node of E.
DeleteLeaves(t, E) ==
  LET left == t.nodes \ E
  IN  [t EXCEPT
         !.nodes = left,
         !.lock_ref = Restrict(@, left),
         !.value = Restrict(@, DOMAIN @ \ ValuesOf(t, E)),
         !.evictable_size_ = @ - SizeOf(t, E),
         !.evictable_leaves =
            (@ \ E) \cup {n \in {Parent(t, x) : x \in E} \cap left :
                            t.lock_ref[n] = 0 /\ Descendants(t, n) \subseteq E}]
=============================================================================
