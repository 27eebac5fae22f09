--------------------------- MODULE PagedAllocator ---------------------------
(***************************************************************************)
(* PagedTokenToKVPoolAllocator: the free list of KV pages, the staging     *)
(* list that delays sorting, and the free group that defers frees to the   *)
(* end of a result-processing pass.  The clients are rows of req_to_token. *)
(*                                                                         *)
(* A tensor of page ids is a set: the order in which pages are handed out  *)
(* is any order, and the one thing a set would hide, a page put into the   *)
(* free list twice, is remembered in double_free.                          *)
(***************************************************************************)
EXTENDS Integers, FiniteSets, Sequences, FiniteSetsExt

CONSTANTS Reqs,       \* rows of req_to_token
          Pages,      \* page ids
          PageSize,   \* tokens per page
          NeedSort,   \* need_sort: released pages are staged
          MaxLen      \* bound: tokens in one row

ASSUME FiniteAssumption == IsFiniteSet(Reqs) /\ IsFiniteSet(Pages)
ASSUME PageSizeAssumption == PageSize \in Nat \ {0}
ASSUME NeedSortAssumption == NeedSort \in BOOLEAN
ASSUME MaxLenAssumption == MaxLen \in Nat

VARIABLES
  free_pages,           \* self.free_pages
  staged_pages,         \* self.staged_pages
  grouping,             \* self.free_group is not None
  free_group,           \* pages of the indices waiting in self.free_group
  free_page_ids_group,  \* self.free_page_ids_group
  row,                  \* row[r]: the pages behind r's kv indices, in order
  kv_len,               \* kv_len[r]: r's kv_allocated_len
  double_free,          \* _debug_check_no_duplicate_pages would fail
  result                \* the last alloc's outcome

lists == <<free_pages, staged_pages>>
groups == <<grouping, free_group, free_page_ids_group>>
rows == <<row, kv_len>>
vars == <<lists, groups, rows, double_free, result>>

CeilPages(n) == (n + PageSize - 1) \div PageSize

PagesOf(s) == {s[i] : i \in DOMAIN s}

\* clear(): every page is free and nothing is staged or pending.
Init ==
  /\ free_pages = Pages
  /\ staged_pages = {}
  /\ grouping = FALSE
  /\ free_group = {}
  /\ free_page_ids_group = {}
  /\ row = [r \in Reqs |-> <<>>]
  /\ kv_len = [r \in Reqs |-> 0]
  /\ double_free = FALSE
  /\ result = [ok |-> TRUE, need |-> 0]

-----------------------------------------------------------------------------
(* Allocation *)

\* get_num_new_pages: what taking every row to newlen costs.
NumNewPages(newlen) ==
  SumFunction([r \in Reqs |-> CeilPages(newlen[r]) - CeilPages(kv_len[r])])

\* free_pages once the operation has merged, or not merged, the staged pages.
MergeAndSortFree(merge) ==
  IF merge THEN free_pages \cup staged_pages ELSE free_pages

\* What the alloc kernels hand out of fp: each row gets as many pages as it
\* lacks, all of them distinct.
NewPages(fp, newlen) ==
  {new \in [Reqs -> UNION {[1..n -> fp] : n \in 0..CeilPages(MaxLen)}] :
     /\ \A r \in Reqs : Len(new[r]) = CeilPages(newlen[r]) - CeilPages(kv_len[r])
     /\ \A r \in Reqs : \A i, j \in DOMAIN new[r] :
           new[r][i] = new[r][j] => i = j
     /\ \A r, s \in Reqs : r # s => PagesOf(new[r]) \cap PagesOf(new[s]) = {}}

\* The common tail of alloc, alloc_extend and alloc_decode: merge if the
\* free list looks short, return None if it is, else cut the list.
Allocate(merge, newlen) ==
  LET fp   == MergeAndSortFree(merge)
      need == NumNewPages(newlen)
  IN  /\ staged_pages' = IF merge THEN {} ELSE staged_pages
      /\ \/ /\ need > Cardinality(fp)
            /\ result' = [ok |-> FALSE, need |-> need]
            /\ free_pages' = fp
            /\ UNCHANGED rows
         \/ /\ need =< Cardinality(fp)
            /\ result' = [ok |-> TRUE, need |-> need]
            /\ \E new \in NewPages(fp, newlen) :
                 /\ free_pages' = fp \ UNION {PagesOf(new[r]) : r \in Reqs}
                 /\ row' = [r \in Reqs |-> row[r] \o new[r]]
                 /\ kv_len' = newlen
      /\ UNCHANGED <<groups, double_free>>

\* alloc(need_size): whole pages, appended to one page-aligned row.
Alloc(r, n) ==
  /\ kv_len[r] % PageSize = 0
  /\ kv_len[r] + n * PageSize =< MaxLen
  /\ Allocate(n > Cardinality(free_pages),
              [kv_len EXCEPT ![r] = @ + n * PageSize])

\* Bug variant: staged pages are never merged back into the free list.
ExtendMerge_Never(B, total) == FALSE

\* alloc_extend: a batch of rows grows by ext.
ExtendMerge(B, total) ==
  total \div PageSize + Cardinality(B) + 1 > Cardinality(free_pages)

AllocExtend(B, ext) ==
  /\ \A r \in B : kv_len[r] + ext[r] =< MaxLen
  /\ Allocate(ExtendMerge(B, SumFunction(ext)),
              [r \in Reqs |-> IF r \in B THEN kv_len[r] + ext[r] ELSE kv_len[r]])

\* alloc_decode: every row of a batch grows by one token.
DecodeMerge(B) == Cardinality(B) > Cardinality(free_pages)

AllocDecode(B) ==
  /\ \A r \in B : kv_len[r] > 0 /\ kv_len[r] < MaxLen
  /\ Allocate(DecodeMerge(B),
              [r \in Reqs |-> IF r \in B THEN kv_len[r] + 1 ELSE kv_len[r]])

-----------------------------------------------------------------------------
(* Freeing *)

\* _release_page_ids: to the staging list, or straight to the free list;
\* `again` are pages the operation releases twice.
ReleasePageIds(S, again) ==
  /\ IF NeedSort
       THEN staged_pages' = staged_pages \cup S /\ free_pages' = free_pages
       ELSE free_pages' = free_pages \cup S /\ staged_pages' = staged_pages
  /\ double_free' = (double_free \/ again \cup (S \cap (free_pages \cup staged_pages)) # {})

\* Bug variant: the start of the freed range is aligned down.
FirstFreed_AlignedDown(keep) == keep \div PageSize + 1

\* The first page of a row that a caller keeping `keep` tokens may free: the
\* start is aligned up, so the page the kept tail sits in stays.
FirstFreed(keep) == CeilPages(keep) + 1

\* Bug variant: positions are released in place of the page ids found there.
FreedPages_Positions(r, keep) == FirstFreed(keep)..Len(row[r])

FreedPages(r, keep) == {row[r][i] : i \in FirstFreed(keep)..Len(row[r])}

\* Bug variant: the row keeps the indices it has freed.
TrimRow_Dangling(r, keep) ==
  /\ row' = row
  /\ kv_len' = [kv_len EXCEPT ![r] = keep]

TrimRow(r, keep) ==
  /\ row' = [row EXCEPT ![r] = SubSeq(@, 1, FirstFreed(keep) - 1)]
  /\ kv_len' = [kv_len EXCEPT ![r] = keep]

\* free(): the pages of an index tensor, deduplicated; inside a group the
\* indices only wait.
Free(r, keep) ==
  /\ keep < kv_len[r]
  /\ TrimRow(r, keep)
  /\ IF grouping
       THEN /\ free_group' = free_group \cup FreedPages(r, keep)
            /\ UNCHANGED <<lists, double_free>>
       ELSE ReleasePageIds(FreedPages(r, keep), {}) /\ UNCHANGED free_group
  /\ UNCHANGED <<grouping, free_page_ids_group, result>>

\* free_segment() and free_page_ids(): one index per page, no dedup, the
\* segment starts on a page.
FreeSegment(r, keep) ==
  /\ keep < kv_len[r]
  /\ keep % PageSize = 0
  /\ TrimRow(r, keep)
  /\ IF grouping
       THEN /\ free_page_ids_group' = free_page_ids_group \cup FreedPages(r, keep)
            /\ double_free' = (double_free \/
                 FreedPages(r, keep) \cap free_page_ids_group # {})
            /\ UNCHANGED lists
       ELSE /\ ReleasePageIds(FreedPages(r, keep), {})
            /\ UNCHANGED free_page_ids_group
  /\ UNCHANGED <<grouping, free_group, result>>

FreeGroupBegin ==
  /\ ~grouping
  /\ grouping' = TRUE
  /\ free_group' = {}
  /\ free_page_ids_group' = {}
  /\ UNCHANGED <<lists, rows, double_free, result>>

\* Bug variant: the pending page ids are forgotten at the end of the group.
FreeGroupEnd_DropsPageIds ==
  /\ grouping
  /\ grouping' = FALSE
  /\ free_group' = {}
  /\ free_page_ids_group' = {}
  /\ ReleasePageIds(free_group, {})
  /\ UNCHANGED <<rows, result>>

\* free_group_end: the pending indices through free(), then the page ids.
FreeGroupEnd ==
  /\ grouping
  /\ grouping' = FALSE
  /\ free_group' = {}
  /\ free_page_ids_group' = {}
  /\ ReleasePageIds(free_group \cup free_page_ids_group,
                    free_group \cap free_page_ids_group)
  /\ UNCHANGED <<rows, result>>

\* clear(): flush_cache, when no request holds a row.
Clear ==
  /\ ~grouping
  /\ \A r \in Reqs : kv_len[r] = 0
  /\ free_pages' = Pages
  /\ staged_pages' = {}
  /\ UNCHANGED <<groups, rows, double_free, result>>

-----------------------------------------------------------------------------
Next ==
  \/ \E r \in Reqs, n \in 1..CeilPages(MaxLen) : Alloc(r, n)
  \/ \E B \in SUBSET Reqs \ {{}} : \E ext \in [B -> 1..MaxLen] : AllocExtend(B, ext)
  \/ \E B \in SUBSET Reqs \ {{}} : AllocDecode(B)
  \/ \E r \in Reqs, keep \in 0..MaxLen : Free(r, keep)
  \/ \E r \in Reqs, keep \in 0..MaxLen : FreeSegment(r, keep)
  \/ FreeGroupBegin
  \/ FreeGroupEnd
  \/ Clear

Spec == Init /\ [][Next]_vars

-----------------------------------------------------------------------------
(* Properties *)

\* The lists hold pages, pending ids exist only as the free groups of the
\* allocator define them, and a row is a sequence of pages.
TypeOK ==
  /\ free_pages \subseteq Pages
  /\ staged_pages \subseteq Pages
  /\ grouping \in BOOLEAN
  /\ free_group \subseteq Pages
  /\ free_page_ids_group \subseteq Pages
  /\ row \in [Reqs -> Seq(Pages)]
  /\ kv_len \in [Reqs -> Nat]
  /\ double_free \in BOOLEAN

Pending == free_group \cup free_page_ids_group

\* No page is in two places: not twice in the lists of the allocator, not in
\* a list and in a live row, not in two rows and not twice in one (the page
\* census of invariant_checker._check_kv_page_invariants).
NoPageShared ==
  /\ free_pages \cap staged_pages = {}
  /\ free_group \cap free_page_ids_group = {}
  /\ (free_pages \cup staged_pages) \cap Pending = {}
  /\ \A r \in Reqs :
       PagesOf(row[r]) \cap (free_pages \cup staged_pages \cup Pending) = {}
  /\ \A r, s \in Reqs : r # s => PagesOf(row[r]) \cap PagesOf(row[s]) = {}
  /\ \A r \in Reqs : \A i, j \in DOMAIN row[r] : row[r][i] = row[r][j] => i = j

\* Every row has exactly the pages its length needs, so a freed tail never
\* strands a page nor takes the page of a kept token.
RowFitsLength == \A r \in Reqs : Len(row[r]) = CeilPages(kv_len[r])

\* No page is lost: what no list and no pending group holds is in a row.
NoPageLeaked ==
  \A p \in Pages : \/ p \in free_pages \cup staged_pages \cup Pending
                   \/ \E r \in Reqs : p \in PagesOf(row[r])

\* Nothing waits outside a free group: free_group_begin starts both lists
\* anew, so a free left behind by the last group would be forgotten.
GroupsClosed == ~grouping => Pending = {}

\* _debug_check_no_duplicate_pages never fails, whatever mix of grouped and
\* immediate, deduplicated and raw frees preceded it.
NoDoubleFree == ~double_free

\* The staging list, the merge heuristics and the free groups are invisible
\* to clients: the allocator behaves as one set of pages that refuses an
\* allocation only when available_size() is too small for it.
Pool == INSTANCE PagePool WITH
          avail    <- free_pages \cup staged_pages,
          owned    <- [r \in Reqs |-> PagesOf(row[r])],
          deferred <- Pending,
          answer   <- result

ImplementsPagePool == Pool!Spec
=============================================================================
