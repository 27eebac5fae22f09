------------------------ MODULE PagedAllocatorProofs ------------------------
(***************************************************************************)
(* PagedAllocator keeps its pages apart and complete for every pool, page  *)
(* size, set of rows and choice of need_sort, and implements the pool of   *)
(* module PagePool.                                                        *)
(***************************************************************************)
EXTENDS PagedAllocator, SetSums

\* The inductive invariant.  NoPageShared alone is not inductive: that a
\* trimmed row keeps the pages of the kept tokens needs RowFitsLength.
Inv ==
  /\ TypeOK
  /\ NoPageShared
  /\ RowFitsLength
  /\ NoPageLeaked
  /\ GroupsClosed
  /\ NoDoubleFree

\* Aligning up to pages is monotone.
LEMMA CeilPagesMonotone ==
  ASSUME NEW m \in Nat, NEW n \in Nat, m =< n
  PROVE  /\ CeilPages(m) \in Nat
         /\ CeilPages(n) \in Nat
         /\ CeilPages(m) =< CeilPages(n)
  BY PageSizeAssumption DEF CeilPages

\* clear() leaves every page in the free list, once.
LEMMA InitInv == Init => Inv
<1> SUFFICES ASSUME Init PROVE Inv
  OBVIOUS
<1>1. CeilPages(0) = 0
  BY PageSizeAssumption DEF CeilPages
<1>2. TypeOK
  <2>1. row \in [Reqs -> Seq(Pages)] /\ kv_len \in [Reqs -> Nat]
    BY DEF Init
  <2> QED BY <2>1 DEF Init, TypeOK
<1>3. \A r \in Reqs : PagesOf(row[r]) = {} /\ DOMAIN row[r] = {}
  BY DEF Init, PagesOf
<1>4. NoPageShared
  BY <1>3 DEF Init, NoPageShared, Pending
<1>5. RowFitsLength
  BY <1>1 DEF Init, RowFitsLength
<1>6. NoPageLeaked
  BY <1>3 DEF Init, NoPageLeaked, Pending
<1> QED
  BY <1>2, <1>4, <1>5, <1>6 DEF Init, Inv, NoDoubleFree, GroupsClosed, Pending

-----------------------------------------------------------------------------
(* Allocation *)

\* Pages of a concatenation, and what an extended row looks like.
LEMMA ConcatPages ==
  ASSUME NEW S, NEW s \in Seq(S), NEW t \in Seq(S)
  PROVE  /\ s \o t \in Seq(S)
         /\ Len(s \o t) = Len(s) + Len(t)
         /\ PagesOf(s \o t) = PagesOf(s) \cup PagesOf(t)
         /\ \A i \in DOMAIN (s \o t) :
              \/ i \in DOMAIN s /\ (s \o t)[i] = s[i]
              \/ i - Len(s) \in DOMAIN t /\ (s \o t)[i] = t[i - Len(s)]
<1>1. /\ s \o t \in Seq(S)
      /\ Len(s \o t) = Len(s) + Len(t)
  OBVIOUS
<1>2. \A i \in DOMAIN (s \o t) :
        \/ i \in DOMAIN s /\ (s \o t)[i] = s[i]
        \/ i - Len(s) \in DOMAIN t /\ (s \o t)[i] = t[i - Len(s)]
  OBVIOUS
<1>3. PagesOf(s) \subseteq PagesOf(s \o t)
  <2>1. \A i \in DOMAIN s : i \in DOMAIN (s \o t) /\ (s \o t)[i] = s[i]
    OBVIOUS
  <2> QED BY <2>1 DEF PagesOf
<1>4. PagesOf(t) \subseteq PagesOf(s \o t)
  <2>1. \A i \in DOMAIN t :
          i + Len(s) \in DOMAIN (s \o t) /\ (s \o t)[i + Len(s)] = t[i]
    OBVIOUS
  <2> QED BY <2>1 DEF PagesOf
<1>5. PagesOf(s \o t) \subseteq PagesOf(s) \cup PagesOf(t)
  BY <1>2 DEF PagesOf
<1> QED
  BY <1>1, <1>2, <1>3, <1>4, <1>5

\* What NewPages promises, as facts about sequences.
LEMMA NewPagesFacts ==
  ASSUME NEW fp, NEW newlen, NEW new \in NewPages(fp, newlen), NEW r \in Reqs
  PROVE  /\ new[r] \in Seq(fp)
         /\ PagesOf(new[r]) \subseteq fp
         /\ Len(new[r]) = CeilPages(newlen[r]) - CeilPages(kv_len[r])
         /\ \A i, j \in DOMAIN new[r] : new[r][i] = new[r][j] => i = j
<1>1. new[r] \in UNION {[1..n -> fp] : n \in 0..CeilPages(MaxLen)}
  BY DEF NewPages
<1>2. PICK n \in 0..CeilPages(MaxLen) : new[r] \in [1..n -> fp]
  BY <1>1
<1>3. n \in Nat
  BY <1>2, MaxLenAssumption, CeilPagesMonotone
<1>4. new[r] \in Seq(fp)
  BY <1>2, <1>3
<1>5. PagesOf(new[r]) \subseteq fp
  BY <1>2 DEF PagesOf
<1> QED
  BY <1>4, <1>5 DEF NewPages

\* Allocation, served or refused, merged or not, preserves the invariant.
LEMMA AllocateInv ==
  ASSUME Inv, NEW merge \in BOOLEAN, NEW newlen \in [Reqs -> Nat],
         Allocate(merge, newlen)
  PROVE  Inv'
<1> DEFINE fp == MergeAndSortFree(merge)
<1>1. /\ fp \subseteq Pages
      /\ staged_pages' \subseteq Pages
      /\ fp \cup staged_pages' = free_pages \cup staged_pages
      /\ fp \cap staged_pages' = {}
  BY DEF Inv, TypeOK, NoPageShared, Allocate, MergeAndSortFree
<1>2. UNCHANGED <<grouping, free_group, free_page_ids_group, double_free>>
  BY DEF Allocate, groups
<1>3. CASE row' = row /\ kv_len' = kv_len /\ free_pages' = fp
  <2> SUFFICES ASSUME TRUE PROVE Inv'
    OBVIOUS
  <2>1. TypeOK'
    BY <1>1, <1>2, <1>3 DEF Inv, TypeOK
  <2>2. Pending' = Pending
    BY <1>2 DEF Pending
  <2>3. \A r \in Reqs : PagesOf(row[r])' = PagesOf(row[r])
    BY <1>3 DEF PagesOf
  <2>4. NoPageShared'
    BY <1>1, <1>2, <1>3, <2>2, <2>3 DEF Inv, NoPageShared
  <2>5. NoPageLeaked'
    <3>1. free_pages' \cup staged_pages' \cup Pending'
            = free_pages \cup staged_pages \cup Pending
      BY <1>1, <1>3, <2>2
    <3> QED BY <3>1, <1>3 DEF Inv, NoPageLeaked, PagesOf
  <2>6. RowFitsLength'
    BY <1>3 DEF Inv, RowFitsLength
  <2> QED
    BY <2>1, <2>2, <2>4, <2>5, <2>6, <1>2 DEF Inv, NoDoubleFree, GroupsClosed
<1>4. ASSUME NEW new \in NewPages(fp, newlen),
             free_pages' = fp \ UNION {PagesOf(new[r]) : r \in Reqs},
             row' = [r \in Reqs |-> row[r] \o new[r]],
             kv_len' = newlen
      PROVE  Inv'
  <2>1. \A r \in Reqs : /\ new[r] \in Seq(fp)
                         /\ PagesOf(new[r]) \subseteq fp
                         /\ Len(new[r]) = CeilPages(newlen[r]) - CeilPages(kv_len[r])
                         /\ \A i, j \in DOMAIN new[r] : new[r][i] = new[r][j] => i = j
    BY <1>4, NewPagesFacts
  <2>2. \A r \in Reqs : row[r] \in Seq(Pages) /\ new[r] \in Seq(Pages)
    BY <2>1, <1>1 DEF Inv, TypeOK
  <2>3. \A r \in Reqs :
          /\ row'[r] = row[r] \o new[r]
          /\ row'[r] \in Seq(Pages)
          /\ Len(row'[r]) = Len(row[r]) + Len(new[r])
          /\ PagesOf(row'[r]) = PagesOf(row[r]) \cup PagesOf(new[r])
    <3> TAKE r \in Reqs
    <3>1. row'[r] = row[r] \o new[r]
      BY <1>4
    <3>2. row[r] \in Seq(Pages) /\ new[r] \in Seq(Pages)
      BY <2>2
    <3> HIDE <1>4
    <3> QED BY <3>1, <3>2, ConcatPages
  <2>4. TypeOK'
    <3>1. row' \in [Reqs -> Seq(Pages)]
      BY <2>3, <1>4
    <3> QED BY <3>1, <1>1, <1>2, <1>4 DEF Inv, TypeOK
  <2>5. RowFitsLength'
    <3> SUFFICES ASSUME NEW r \in Reqs PROVE Len(row'[r]) = CeilPages(kv_len'[r])
      BY DEF RowFitsLength
    <3>1. Len(row[r]) = CeilPages(kv_len[r])
      BY DEF Inv, RowFitsLength
    <3>2. CeilPages(kv_len[r]) \in Nat /\ CeilPages(newlen[r]) \in Nat
      BY CeilPagesMonotone DEF Inv, TypeOK
    <3>3. Len(row'[r]) = Len(row[r]) + Len(new[r])
      BY <2>3
    <3>4. Len(new[r]) = CeilPages(newlen[r]) - CeilPages(kv_len[r])
      BY <2>1
    <3>5. kv_len'[r] = newlen[r]
      BY <1>4
    <3> QED BY <3>1, <3>2, <3>3, <3>4, <3>5
  <2>6. Pending' = Pending
    BY <1>2 DEF Pending
  <2>7. \A r \in Reqs : PagesOf(row[r]) \cap fp = {}
    BY <1>1 DEF Inv, NoPageShared
  <2>8. \A r, s \in Reqs : r # s => PagesOf(new[r]) \cap PagesOf(new[s]) = {}
    BY <1>4 DEF NewPages
  <2>9. \A r, s \in Reqs : r # s => PagesOf(row'[r]) \cap PagesOf(row'[s]) = {}
    <3> SUFFICES ASSUME NEW r \in Reqs, NEW s \in Reqs, r # s
                 PROVE  PagesOf(row'[r]) \cap PagesOf(row'[s]) = {}
      OBVIOUS
    <3>1. PagesOf(row[r]) \cap PagesOf(row[s]) = {}
      BY DEF Inv, NoPageShared
    <3> QED BY <3>1, <2>1, <2>3, <2>7, <2>8
  <2>10. \A r \in Reqs : \A i, j \in DOMAIN row'[r] : row'[r][i] = row'[r][j] => i = j
    <3> SUFFICES ASSUME NEW r \in Reqs, NEW i \in DOMAIN row'[r], NEW j \in DOMAIN row'[r],
                        row'[r][i] = row'[r][j]
                 PROVE  i = j
      OBVIOUS
    <3>1. \A k \in DOMAIN row'[r] :
            \/ k \in DOMAIN row[r] /\ row'[r][k] = row[r][k]
            \/ k - Len(row[r]) \in DOMAIN new[r] /\ row'[r][k] = new[r][k - Len(row[r])]
      <4>1. row[r] \in Seq(Pages) /\ new[r] \in Seq(Pages)
        BY <2>2
      <4>2. row'[r] = row[r] \o new[r]
        BY <2>3
      <4>3. \A k \in DOMAIN (row[r] \o new[r]) :
              \/ k \in DOMAIN row[r] /\ (row[r] \o new[r])[k] = row[r][k]
              \/ /\ k - Len(row[r]) \in DOMAIN new[r]
                 /\ (row[r] \o new[r])[k] = new[r][k - Len(row[r])]
        BY <4>1, ConcatPages
      <4> QED BY <4>2, <4>3
    <3>2. \A k \in DOMAIN row[r], l \in DOMAIN new[r] : row[r][k] # new[r][l]
      BY <2>1, <2>7 DEF PagesOf
    <3>3. \A k, l \in DOMAIN row[r] : row[r][k] = row[r][l] => k = l
      BY DEF Inv, NoPageShared
    <3>4. /\ i \in Int /\ j \in Int /\ Len(row[r]) \in Int
      <4>1. row[r] \in Seq(Pages) /\ row'[r] \in Seq(Pages)
        BY <2>2, <2>3
      <4> QED BY <4>1
    <3>5. \A k, l \in DOMAIN new[r] : new[r][k] = new[r][l] => k = l
      BY <2>1
    <3> DEFINE Old(k) == k \in DOMAIN row[r] /\ row'[r][k] = row[r][k]
               New(k) == /\ k - Len(row[r]) \in DOMAIN new[r]
                         /\ row'[r][k] = new[r][k - Len(row[r])]
    <3>6. (Old(i) \/ New(i)) /\ (Old(j) \/ New(j))
      BY <3>1
    <3>7. CASE Old(i) /\ Old(j)
      BY <3>3, <3>7
    <3>8. CASE New(i) /\ New(j)
      <4>1. i - Len(row[r]) = j - Len(row[r])
        BY <3>5, <3>8
      <4> QED BY <3>4, <4>1
    <3>9. CASE (Old(i) /\ New(j)) \/ (New(i) /\ Old(j))
      BY <3>2, <3>9
    <3> QED BY <3>6, <3>7, <3>8, <3>9
  <2>11. \A r \in Reqs :
           PagesOf(row'[r]) \cap (free_pages' \cup staged_pages' \cup Pending') = {}
    <3> SUFFICES ASSUME NEW r \in Reqs
                 PROVE  PagesOf(row'[r])
                          \cap (free_pages' \cup staged_pages' \cup Pending') = {}
      OBVIOUS
    <3>1. PagesOf(row[r]) \cap (free_pages \cup staged_pages \cup Pending) = {}
      BY DEF Inv, NoPageShared
    <3>2. PagesOf(new[r]) \cap (staged_pages' \cup Pending) = {}
      BY <2>1, <1>1 DEF Inv, NoPageShared
    <3>3. PagesOf(new[r]) \cap free_pages' = {}
      BY <1>4
    <3> QED BY <3>1, <3>2, <3>3, <2>3, <2>6, <1>1, <1>4
  <2>12. NoPageShared'
    <3>1. free_pages' \cap staged_pages' = {}
      BY <1>1, <1>4
    <3>2. (free_pages' \cup staged_pages') \cap Pending' = {}
      BY <1>1, <1>4, <2>6 DEF Inv, NoPageShared
    <3>3. free_group' \cap free_page_ids_group' = {}
      BY <1>2 DEF Inv, NoPageShared
    <3> QED BY <3>1, <3>2, <3>3, <2>9, <2>10, <2>11 DEF NoPageShared, PagesOf
  <2>13. NoPageLeaked'
    <3> SUFFICES ASSUME NEW p \in Pages,
                        p \notin free_pages' \cup staged_pages' \cup Pending'
                 PROVE  \E r \in Reqs : p \in PagesOf(row'[r])
      BY DEF NoPageLeaked, PagesOf
    <3>1. CASE p \in fp
      <4>1. PICK r \in Reqs : p \in PagesOf(new[r])
        BY <3>1, <1>4
      <4> QED BY <4>1, <2>3
    <3>2. CASE p \notin fp
      <4>1. p \notin free_pages \cup staged_pages \cup Pending
        BY <3>2, <1>1, <2>6
      <4>2. PICK r \in Reqs : p \in PagesOf(row[r])
        BY <4>1 DEF Inv, NoPageLeaked
      <4> QED BY <4>2, <2>3
    <3> QED BY <3>1, <3>2
  <2> QED
    BY <2>4, <2>5, <2>6, <2>12, <2>13, <1>2 DEF Inv, NoDoubleFree, GroupsClosed
<1> QED
  BY <1>3, <1>4 DEF Allocate, rows

-----------------------------------------------------------------------------
(* Freeing *)

\* Cutting a row at an aligned length keeps the pages of the kept tokens and
\* gives up exactly the others.
LEMMA TrimFacts ==
  ASSUME Inv, NEW r \in Reqs, NEW keep \in Nat, keep < kv_len[r], TrimRow(r, keep)
  PROVE  /\ row' \in [Reqs -> Seq(Pages)]
         /\ kv_len' \in [Reqs -> Nat]
         /\ RowFitsLength'
         /\ \A s \in Reqs : s # r => row'[s] = row[s]
         /\ PagesOf(row'[r]) \cup FreedPages(r, keep) = PagesOf(row[r])
         /\ PagesOf(row'[r]) \cap FreedPages(r, keep) = {}
         /\ FreedPages(r, keep) \subseteq Pages
         /\ \A s \in Reqs : \A i, j \in DOMAIN row'[s] : row'[s][i] = row'[s][j] => i = j
<1> DEFINE cut == CeilPages(keep)
<1>1. /\ row \in [Reqs -> Seq(Pages)]
      /\ kv_len \in [Reqs -> Nat]
      /\ row[r] \in Seq(Pages)
      /\ kv_len[r] \in Nat
  BY DEF Inv, TypeOK
<1>2. /\ cut \in Nat
      /\ cut =< Len(row[r])
  <2>1. Len(row[r]) = CeilPages(kv_len[r])
    BY DEF Inv, RowFitsLength
  <2> QED BY <1>1, <2>1, CeilPagesMonotone
<1> HIDE DEF cut
<1>3. FirstFreed(keep) = cut + 1
  BY DEF FirstFreed, cut
<1>4. /\ row' = [row EXCEPT ![r] = SubSeq(@, 1, cut)]
      /\ kv_len' = [kv_len EXCEPT ![r] = keep]
  <2>1. FirstFreed(keep) - 1 = cut
    BY <1>2, <1>3
  <2>2. /\ row' = [row EXCEPT ![r] = SubSeq(row[r], 1, FirstFreed(keep) - 1)]
        /\ kv_len' = [kv_len EXCEPT ![r] = keep]
    BY Zenon DEF TrimRow
  <2> QED BY <2>1, <2>2, Zenon
<1>5. /\ row'[r] = SubSeq(row[r], 1, cut)
      /\ \A s \in Reqs : s # r => row'[s] = row[s]
  BY <1>1, <1>4
<1>6. /\ SubSeq(row[r], 1, cut) \in Seq(Pages)
      /\ Len(SubSeq(row[r], 1, cut)) = cut
      /\ DOMAIN SubSeq(row[r], 1, cut) = 1..cut
      /\ \A i \in 1..cut : SubSeq(row[r], 1, cut)[i] = row[r][i]
  BY <1>1, <1>2
<1>7. /\ row'[r] \in Seq(Pages)
      /\ Len(row'[r]) = cut
      /\ DOMAIN row'[r] = 1..cut
      /\ \A i \in 1..cut : row'[r][i] = row[r][i]
  BY <1>5, <1>6
<1>8. row' \in [Reqs -> Seq(Pages)] /\ kv_len' \in [Reqs -> Nat]
  BY <1>1, <1>4, <1>6
<1>9. RowFitsLength'
  <2> SUFFICES ASSUME NEW s \in Reqs PROVE Len(row'[s]) = CeilPages(kv_len'[s])
    BY DEF RowFitsLength
  <2>1. CASE s = r
    <3>1. kv_len'[r] = keep
      BY <1>1, <1>4
    <3> QED BY <2>1, <3>1, <1>7 DEF cut
  <2>2. CASE s # r
    <3>1. kv_len'[s] = kv_len[s]
      BY <2>2, <1>1, <1>4
    <3> QED BY <2>2, <3>1, <1>5 DEF Inv, RowFitsLength
  <2> QED BY <2>1, <2>2
<1>10. FreedPages(r, keep) = {row[r][i] : i \in (cut + 1)..Len(row[r])}
  BY <1>3 DEF FreedPages
<1>11. DOMAIN row[r] = 1..Len(row[r]) /\ Len(row[r]) \in Nat
  BY <1>1
<1>12. PagesOf(row'[r]) = {row[r][i] : i \in 1..cut}
  BY <1>7 DEF PagesOf
<1>13. PagesOf(row'[r]) \cup FreedPages(r, keep) = PagesOf(row[r])
  <2>1. \A i : i \in 1..Len(row[r]) <=> i \in 1..cut \/ i \in (cut + 1)..Len(row[r])
    BY <1>2, <1>11
  <2> QED BY <1>10, <1>11, <1>12, <2>1, Zenon DEF PagesOf
<1>14. \A i, j \in DOMAIN row[r] : row[r][i] = row[r][j] => i = j
  BY DEF Inv, NoPageShared
<1>15. PagesOf(row'[r]) \cap FreedPages(r, keep) = {}
  <2> SUFFICES ASSUME NEW i \in 1..cut, NEW j \in (cut + 1)..Len(row[r]),
                      row[r][i] = row[r][j]
               PROVE  FALSE
    BY <1>10, <1>12
  <2>1. i \in DOMAIN row[r] /\ j \in DOMAIN row[r] /\ i # j
    BY <1>2, <1>11
  <2> QED BY <2>1, <1>14
<1>16. FreedPages(r, keep) \subseteq Pages
  <2>1. \A i \in (cut + 1)..Len(row[r]) : row[r][i] \in Pages
    BY <1>1, <1>2
  <2> QED BY <1>10, <2>1
<1>17. \A s \in Reqs : \A i, j \in DOMAIN row'[s] : row'[s][i] = row'[s][j] => i = j
  <2> TAKE s \in Reqs
  <2>1. CASE s = r
    <3>1. \A i \in 1..cut : i \in DOMAIN row[r]
      BY <1>2, <1>11
    <3> QED BY <2>1, <3>1, <1>7, <1>14
  <2>2. CASE s # r
    BY <2>2, <1>5 DEF Inv, NoPageShared
  <2> QED BY <2>1, <2>2
<1> QED
  BY <1>5, <1>8, <1>9, <1>13, <1>15, <1>16, <1>17

\* Moving the freed pages of a row to any one list or pending group, and
\* noticing no duplicate, preserves the invariant.
LEMMA FreedInv ==
  ASSUME Inv, NEW r \in Reqs, NEW keep \in Nat, keep < kv_len[r], TrimRow(r, keep),
         grouping' \in BOOLEAN, GroupsClosed',
         ~double_free', double_free' \in BOOLEAN,
         \/ /\ free_pages' = free_pages \cup FreedPages(r, keep)
            /\ UNCHANGED <<staged_pages, free_group, free_page_ids_group>>
         \/ /\ staged_pages' = staged_pages \cup FreedPages(r, keep)
            /\ UNCHANGED <<free_pages, free_group, free_page_ids_group>>
         \/ /\ free_group' = free_group \cup FreedPages(r, keep)
            /\ UNCHANGED <<free_pages, staged_pages, free_page_ids_group>>
         \/ /\ free_page_ids_group' = free_page_ids_group \cup FreedPages(r, keep)
            /\ UNCHANGED <<free_pages, staged_pages, free_group>>
  PROVE  Inv'
<1> DEFINE F == FreedPages(r, keep)
<1>1. /\ row' \in [Reqs -> Seq(Pages)]
      /\ kv_len' \in [Reqs -> Nat]
      /\ RowFitsLength'
      /\ \A s \in Reqs : s # r => row'[s] = row[s]
      /\ PagesOf(row'[r]) \cup F = PagesOf(row[r])
      /\ PagesOf(row'[r]) \cap F = {}
      /\ F \subseteq Pages
      /\ \A s \in Reqs : \A i, j \in DOMAIN row'[s] : row'[s][i] = row'[s][j] => i = j
  BY TrimFacts
<1>2. F \cap (free_pages \cup staged_pages \cup Pending) = {}
  <2>1. PagesOf(row[r]) \cap (free_pages \cup staged_pages \cup Pending) = {}
    BY DEF Inv, NoPageShared
  <2> QED BY <2>1, <1>1
<1> HIDE DEF F
<1>3. free_pages' \cup staged_pages' \cup Pending'
        = free_pages \cup staged_pages \cup Pending \cup F
  BY DEF Pending, F
<1>4. TypeOK'
  BY <1>1 DEF Inv, TypeOK, F
<1>5. /\ free_pages' \cap staged_pages' = {}
      /\ free_group' \cap free_page_ids_group' = {}
      /\ (free_pages' \cup staged_pages') \cap Pending' = {}
  BY <1>2 DEF Inv, NoPageShared, Pending, F
<1>6. \A s \in Reqs : /\ PagesOf(row'[s]) \subseteq PagesOf(row[s])
                       /\ PagesOf(row'[s]) \cap F = {}
  <2> TAKE s \in Reqs
  <2>1. CASE s = r
    BY <2>1, <1>1
  <2>2. CASE s # r
    <3>1. PagesOf(row[s]) \cap PagesOf(row[r]) = {}
      BY <2>2 DEF Inv, NoPageShared
    <3> QED BY <2>2, <3>1, <1>1
  <2> QED BY <2>1, <2>2
<1>7. \A s \in Reqs :
        PagesOf(row'[s]) \cap (free_pages' \cup staged_pages' \cup Pending') = {}
  <2> TAKE s \in Reqs
  <2>1. PagesOf(row[s]) \cap (free_pages \cup staged_pages \cup Pending) = {}
    BY DEF Inv, NoPageShared
  <2> QED BY <2>1, <1>3, <1>6
<1>8. \A s, t \in Reqs : s # t => PagesOf(row'[s]) \cap PagesOf(row'[t]) = {}
  <2>1. \A s, t \in Reqs : s # t => PagesOf(row[s]) \cap PagesOf(row[t]) = {}
    BY DEF Inv, NoPageShared
  <2> QED BY <2>1, <1>6
<1>9. NoPageShared'
  BY <1>1, <1>5, <1>7, <1>8 DEF NoPageShared, PagesOf
<1>10. NoPageLeaked'
  <2> SUFFICES ASSUME NEW p \in Pages,
                      p \notin free_pages' \cup staged_pages' \cup Pending'
               PROVE  \E s \in Reqs : p \in PagesOf(row'[s])
    BY DEF NoPageLeaked, PagesOf
  <2>1. p \notin free_pages \cup staged_pages \cup Pending /\ p \notin F
    BY <1>3
  <2>2. PICK s \in Reqs : p \in PagesOf(row[s])
    BY <2>1 DEF Inv, NoPageLeaked
  <2>3. p \in PagesOf(row'[s])
    <3>1. CASE s = r
      BY <3>1, <2>1, <2>2, <1>1
    <3>2. CASE s # r
      BY <3>2, <2>2, <1>1
    <3> QED BY <3>1, <3>2
  <2> QED BY <2>3
<1> QED
  BY <1>1, <1>4, <1>9, <1>10 DEF Inv, NoDoubleFree

\* The pages a trim gives up are in no list and no pending group.
LEMMA FreedPagesApart ==
  ASSUME Inv, NEW r \in Reqs, NEW keep \in Nat, keep < kv_len[r], TrimRow(r, keep)
  PROVE  /\ FreedPages(r, keep) \cap (free_pages \cup staged_pages) = {}
         /\ FreedPages(r, keep) \cap free_page_ids_group = {}
<1>1. FreedPages(r, keep) \subseteq PagesOf(row[r])
  BY TrimFacts
<1>2. PagesOf(row[r]) \cap (free_pages \cup staged_pages \cup Pending) = {}
  BY DEF Inv, NoPageShared
<1> QED
  BY <1>1, <1>2 DEF Pending

\* free() of the tail of a row, grouped or not.
LEMMA FreeInv ==
  ASSUME Inv, NEW r \in Reqs, NEW keep \in Nat, Free(r, keep)
  PROVE  Inv'
<1>1. keep < kv_len[r] /\ TrimRow(r, keep) /\ grouping' = grouping
  BY DEF Free
<1>2. FreedPages(r, keep) \cap (free_pages \cup staged_pages) = {}
  BY <1>1, FreedPagesApart
<1>3. double_free' = FALSE
  <2>1. double_free = FALSE
    BY DEF Inv, TypeOK, NoDoubleFree
  <2> QED BY <1>2, <2>1 DEF Free, ReleasePageIds
<1>4. grouping \in BOOLEAN
  BY DEF Inv, TypeOK
<1>5. GroupsClosed'
  BY <1>1 DEF Free, Inv, GroupsClosed, Pending, lists
<1>6. CASE grouping
  BY <1>1, <1>3, <1>4, <1>6, <1>5, FreedInv DEF Free, lists
<1>7. CASE ~grouping
  BY <1>1, <1>3, <1>4, <1>7, <1>5, FreedInv DEF Free, ReleasePageIds
<1> QED
  BY <1>6, <1>7

\* free_segment() of the tail of a row, grouped or not.
LEMMA FreeSegmentInv ==
  ASSUME Inv, NEW r \in Reqs, NEW keep \in Nat, FreeSegment(r, keep)
  PROVE  Inv'
<1>1. keep < kv_len[r] /\ TrimRow(r, keep) /\ grouping' = grouping
  BY DEF FreeSegment
<1>2. /\ FreedPages(r, keep) \cap (free_pages \cup staged_pages) = {}
      /\ FreedPages(r, keep) \cap free_page_ids_group = {}
  BY <1>1, FreedPagesApart
<1>3. double_free' = FALSE
  <2>1. double_free = FALSE
    BY DEF Inv, TypeOK, NoDoubleFree
  <2> QED BY <1>2, <2>1 DEF FreeSegment, ReleasePageIds
<1>4. grouping \in BOOLEAN
  BY DEF Inv, TypeOK
<1>5. GroupsClosed'
  BY <1>1 DEF FreeSegment, Inv, GroupsClosed, Pending, lists
<1>6. CASE grouping
  BY <1>1, <1>3, <1>4, <1>6, <1>5, FreedInv DEF FreeSegment, lists
<1>7. CASE ~grouping
  BY <1>1, <1>3, <1>4, <1>7, <1>5, FreedInv DEF FreeSegment, ReleasePageIds
<1> QED
  BY <1>6, <1>7

\* Steps that move pages between the lists and the pending groups and touch
\* no row.
LEMMA RegroupInv ==
  ASSUME Inv, UNCHANGED rows,
         grouping' \in BOOLEAN, GroupsClosed', double_free' = FALSE,
         free_pages' \cup staged_pages' \cup Pending'
           = free_pages \cup staged_pages \cup Pending,
         free_pages' \cap staged_pages' = {},
         free_group' \cap free_page_ids_group' = {},
         (free_pages' \cup staged_pages') \cap Pending' = {}
  PROVE  Inv'
<1>1. row' = row /\ kv_len' = kv_len
  BY DEF rows
<1>2. TypeOK'
  <2>1. free_pages' \cup staged_pages' \cup Pending' \subseteq Pages
    BY DEF Inv, TypeOK, Pending
  <2>2. free_group' \subseteq Pages /\ free_page_ids_group' \subseteq Pages
    BY <2>1 DEF Pending
  <2> QED BY <1>1, <2>1, <2>2 DEF Inv, TypeOK
<1>3. NoPageShared'
  <2>1. \A r \in Reqs :
          PagesOf(row'[r]) \cap (free_pages' \cup staged_pages' \cup Pending') = {}
    BY <1>1 DEF Inv, NoPageShared
  <2>2. /\ \A r, s \in Reqs : r # s => PagesOf(row'[r]) \cap PagesOf(row'[s]) = {}
        /\ \A r \in Reqs : \A i, j \in DOMAIN row'[r] : row'[r][i] = row'[r][j] => i = j
    BY <1>1 DEF Inv, NoPageShared
  <2> QED BY <2>1, <2>2 DEF NoPageShared, PagesOf
<1>4. NoPageLeaked'
  BY <1>1 DEF Inv, NoPageLeaked, PagesOf
<1>5. RowFitsLength'
  BY <1>1 DEF Inv, RowFitsLength
<1> QED
  BY <1>2, <1>3, <1>4, <1>5 DEF Inv, NoDoubleFree

-----------------------------------------------------------------------------
\* Every operation of the allocator preserves the invariant.
LEMMA NextInv == Inv /\ [Next]_vars => Inv'
<1> SUFFICES ASSUME Inv, [Next]_vars PROVE Inv'
  OBVIOUS
<1>a. /\ kv_len \in [Reqs -> Nat]
      /\ grouping \in BOOLEAN
      /\ double_free = FALSE
      /\ free_pages \subseteq Pages /\ staged_pages \subseteq Pages
      /\ free_group \subseteq Pages /\ free_page_ids_group \subseteq Pages
  BY DEF Inv, TypeOK, NoDoubleFree
<1>b. /\ free_pages \cap staged_pages = {}
      /\ free_group \cap free_page_ids_group = {}
      /\ (free_pages \cup staged_pages) \cap Pending = {}
  BY DEF Inv, NoPageShared
<1>1. ASSUME NEW r \in Reqs, NEW n \in 1..CeilPages(MaxLen), Alloc(r, n)
      PROVE  Inv'
  <2>1. n * PageSize \in Nat
    <3>1. n \in Nat /\ PageSize \in Nat
      BY PageSizeAssumption, MaxLenAssumption, CeilPagesMonotone
    <3> QED BY <3>1
  <2>2. [kv_len EXCEPT ![r] = @ + n * PageSize] \in [Reqs -> Nat]
    BY <1>a, <2>1
  <2>3. (n > Cardinality(free_pages)) \in BOOLEAN
    OBVIOUS
  <2>4. Allocate(n > Cardinality(free_pages), [kv_len EXCEPT ![r] = @ + n * PageSize])
    BY <1>1, Zenon DEF Alloc
  <2> QED BY <2>2, <2>3, <2>4, AllocateInv
<1>2. ASSUME NEW B \in SUBSET Reqs, NEW ext \in [B -> 1..MaxLen], AllocExtend(B, ext)
      PROVE  Inv'
  <2> DEFINE newlen == [r \in Reqs |-> IF r \in B THEN kv_len[r] + ext[r] ELSE kv_len[r]]
             merge == ExtendMerge(B, SumFunction(ext))
  <2>1. newlen \in [Reqs -> Nat]
    BY <1>a, MaxLenAssumption
  <2>2. merge \in BOOLEAN
    BY DEF ExtendMerge
  <2>3. Allocate(merge, newlen)
    BY <1>2, Zenon DEF AllocExtend
  <2> HIDE DEF newlen, merge
  <2> QED BY <2>1, <2>2, <2>3, AllocateInv
<1>3. ASSUME NEW B \in SUBSET Reqs, AllocDecode(B)
      PROVE  Inv'
  <2> DEFINE newlen == [r \in Reqs |-> IF r \in B THEN kv_len[r] + 1 ELSE kv_len[r]]
  <2>1. newlen \in [Reqs -> Nat]
    BY <1>a
  <2>2. DecodeMerge(B) \in BOOLEAN
    BY DEF DecodeMerge
  <2>3. Allocate(DecodeMerge(B), newlen)
    BY <1>3, Zenon DEF AllocDecode
  <2> HIDE DEF newlen
  <2> QED BY <2>1, <2>2, <2>3, AllocateInv
<1>4. ASSUME NEW r \in Reqs, NEW keep \in 0..MaxLen, Free(r, keep)
      PROVE  Inv'
  <2>1. keep \in Nat
    BY MaxLenAssumption
  <2> QED BY <1>4, <2>1, FreeInv
<1>5. ASSUME NEW r \in Reqs, NEW keep \in 0..MaxLen, FreeSegment(r, keep)
      PROVE  Inv'
  <2>1. keep \in Nat
    BY MaxLenAssumption
  <2> QED BY <1>5, <2>1, FreeSegmentInv
<1>6. CASE FreeGroupBegin
  <2>1. ~grouping /\ grouping' = TRUE /\ free_group' = {} /\ free_page_ids_group' = {}
    BY <1>6 DEF FreeGroupBegin
  <2>2. UNCHANGED <<free_pages, staged_pages, rows, double_free>>
    BY <1>6 DEF FreeGroupBegin, lists
  <2>3. Pending = {} /\ Pending' = {}
    BY <2>1 DEF Inv, GroupsClosed, Pending
  <2> QED BY <1>a, <1>b, <2>1, <2>2, <2>3, RegroupInv DEF GroupsClosed
<1>7. CASE FreeGroupEnd
  <2>1. /\ grouping' = FALSE /\ free_group' = {} /\ free_page_ids_group' = {}
        /\ UNCHANGED rows
        /\ ReleasePageIds(free_group \cup free_page_ids_group,
                          free_group \cap free_page_ids_group)
    BY <1>7 DEF FreeGroupEnd
  <2>2. Pending' = {}
    BY <2>1 DEF Pending
  <2>3. double_free' = FALSE
    BY <2>1, <1>a, <1>b DEF ReleasePageIds, Pending
  <2>4. /\ free_pages' \cup staged_pages' = free_pages \cup staged_pages \cup Pending
        /\ free_pages' \cap staged_pages' = {}
    BY <2>1, <1>b DEF ReleasePageIds, Pending
  <2> QED BY <2>1, <2>2, <2>3, <2>4, RegroupInv DEF GroupsClosed
<1>8. CASE Clear
  <2>1. /\ free_pages' = Pages /\ staged_pages' = {}
        /\ UNCHANGED <<grouping, free_group, free_page_ids_group, rows, double_free>>
    BY <1>8 DEF Clear, groups
  <2>2. Pending = {} /\ Pending' = {}
    BY <1>8, <2>1 DEF Clear, Inv, GroupsClosed, Pending
  <2>3. \A r \in Reqs : PagesOf(row[r]) = {}
    <3> TAKE r \in Reqs
    <3>1. CeilPages(0) = 0
      BY PageSizeAssumption DEF CeilPages
    <3>2. Len(row[r]) = 0
      BY <3>1, <1>8 DEF Clear, Inv, RowFitsLength
    <3>3. row[r] \in Seq(Pages)
      BY DEF Inv, TypeOK
    <3> QED BY <3>2, <3>3 DEF PagesOf
  <2>4. free_pages \cup staged_pages \cup Pending = Pages
    BY <2>2, <2>3, <1>a DEF Inv, NoPageLeaked
  <2>5. /\ free_pages' \cup staged_pages' \cup Pending' = Pages
        /\ free_pages' \cap staged_pages' = {}
        /\ (free_pages' \cup staged_pages') \cap Pending' = {}
        /\ free_group' \cap free_page_ids_group' = {}
    BY <2>1, <2>2, <1>b
  <2>6. GroupsClosed'
    BY <2>2 DEF GroupsClosed
  <2> QED BY <1>a, <2>1, <2>4, <2>5, <2>6, RegroupInv
<1>9. CASE UNCHANGED vars
  <2>1. UNCHANGED <<free_pages, staged_pages, grouping, free_group,
                    free_page_ids_group, rows, double_free>>
    BY <1>9 DEF vars, lists, groups
  <2>2. Pending' = Pending
    BY <2>1 DEF Pending
  <2>3. GroupsClosed'
    BY <2>1, <2>2 DEF Inv, GroupsClosed
  <2> QED BY <1>a, <1>b, <2>1, <2>2, <2>3, RegroupInv
<1> QED
  BY <1>1, <1>2, <1>3, <1>4, <1>5, <1>6, <1>7, <1>8, <1>9 DEF Next

\* The census of the allocator holds in every reachable state: whatever the
\* page size, the pool, the rows and need_sort, and whatever mix of grouped
\* and immediate frees, merges and refused allocations came before.
THEOREM AllocatorInv == Spec => []Inv
<1>1. Init => Inv
  BY InitInv
<1>2. Inv /\ [Next]_vars => Inv'
  BY NextInv
<1> QED
  BY <1>1, <1>2, PTL DEF Spec

\* The variables of the allocator keep their types.
THEOREM AllocatorTypeOK == Spec => []TypeOK
<1>1. Inv => TypeOK
  BY DEF Inv
<1> QED
  BY <1>1, AllocatorInv, PTL

\* No page is in two lists, in a list and a live row, or in two rows: two
\* requests never write their KV over each other.
THEOREM PagesNeverShared == Spec => []NoPageShared
<1>1. Inv => NoPageShared
  BY DEF Inv
<1> QED
  BY <1>1, AllocatorInv, PTL

\* No page is lost, not by a trimmed row, not by a free group that ends and
\* not by a merge of the staging list.
THEOREM PagesNeverLeak == Spec => []NoPageLeaked
<1>1. Inv => NoPageLeaked
  BY DEF Inv
<1> QED
  BY <1>1, AllocatorInv, PTL

\* The duplicate check of _release_page_ids never fires, although
\* free_segment and free_page_ids do not deduplicate.
THEOREM PagesFreedOnce == Spec => []NoDoubleFree
<1>1. Inv => NoDoubleFree
  BY DEF Inv
<1> QED
  BY <1>1, AllocatorInv, PTL

\* A row has exactly the pages of its kv_allocated_len after every extend,
\* decode and partial free.
THEOREM RowsFitTheirLength == Spec => []RowFitsLength
<1>1. Inv => RowFitsLength
  BY DEF Inv
<1> QED
  BY <1>1, AllocatorInv, PTL

-----------------------------------------------------------------------------
(* PagedAllocator implements PagePool: whatever the pool, the page size and *)
(* the rows, a client that sees only available_size() and its own row       *)
(* cannot tell the staging list, the merge heuristics and the free groups   *)
(* from one set of pages.                                                   *)

\* The pool counts pages as the allocator does.
LEMMA PoolCardinality ==
  ASSUME NEW S
  PROVE  Pool!Cardinality(S) = Cardinality(S)
  BY Zenon DEF Pool!Cardinality, Cardinality

\* Lists of page ids are finite, so available_size() is a number.
LEMMA ListsFinite ==
  ASSUME Inv
  PROVE  /\ IsFiniteSet(free_pages) /\ Cardinality(free_pages) \in Nat
         /\ IsFiniteSet(free_pages \cup staged_pages)
         /\ Cardinality(free_pages \cup staged_pages) \in Nat
<1>1. free_pages \in SUBSET Pages /\ free_pages \cup staged_pages \in SUBSET Pages
  BY DEF Inv, TypeOK
<1> QED
  BY <1>1, FiniteAssumption, FS_Subset, FS_CardinalityType

\* A tensor of distinct page ids has as many pages as ids.
LEMMA DistinctPages ==
  ASSUME NEW S, NEW s \in Seq(S), \A i, j \in DOMAIN s : s[i] = s[j] => i = j
  PROVE  IsFiniteSet(PagesOf(s)) /\ Cardinality(PagesOf(s)) = Len(s)
<1>1. Len(s) \in Nat /\ DOMAIN s = 1..Len(s)
  OBVIOUS
<1>2. s \in [1..Len(s) -> PagesOf(s)]
  BY <1>1 DEF PagesOf
<1>3. \A p \in PagesOf(s) : \E i \in 1..Len(s) : s[i] = p
  BY <1>1 DEF PagesOf
<1>4. s \in Bijection(1..Len(s), PagesOf(s))
  BY <1>1, <1>2, <1>3 DEF Bijection, Injection, Surjection, IsInjective
<1>5. ExistsBijection(1..Len(s), PagesOf(s))
  BY <1>4 DEF ExistsBijection
<1>6. IsFiniteSet(1..Len(s))
  BY <1>1, FS_Interval
<1> QED
  BY <1>1, <1>5, <1>6, FS_CountingElements, FS_Bijection

-----------------------------------------------------------------------------
(* Allocation *)

\* What every row lacks to reach newlen.
Lack(newlen) == [r \in Reqs |-> CeilPages(newlen[r]) - CeilPages(kv_len[r])]

\* No row shrinks in an allocation.
Grows(newlen) ==
  /\ newlen \in [Reqs -> Nat]
  /\ \A r \in Reqs : kv_len[r] =< newlen[r]

LEMMA LackFacts ==
  ASSUME Inv, NEW newlen, Grows(newlen)
  PROVE  /\ \A r \in Reqs : /\ Lack(newlen)[r] \in Nat
                            /\ Lack(newlen)[r] = CeilPages(newlen[r]) - CeilPages(kv_len[r])
         /\ NumNewPages(newlen) = SumFunctionOnSet(Lack(newlen), Reqs)
         /\ NumNewPages(newlen) \in Nat
<1>1. \A r \in Reqs : /\ Lack(newlen)[r] \in Nat
                      /\ Lack(newlen)[r] = CeilPages(newlen[r]) - CeilPages(kv_len[r])
  <2> TAKE r \in Reqs
  <2>1. kv_len[r] \in Nat /\ newlen[r] \in Nat /\ kv_len[r] =< newlen[r]
    BY DEF Inv, TypeOK, Grows
  <2>2. /\ CeilPages(kv_len[r]) \in Nat /\ CeilPages(newlen[r]) \in Nat
        /\ CeilPages(kv_len[r]) =< CeilPages(newlen[r])
    BY <2>1, CeilPagesMonotone
  <2> QED
    BY <2>2 DEF Lack
<1>2. NumNewPages(newlen) = SumFunctionOnSet(Lack(newlen), Reqs)
  <2>1. DOMAIN Lack(newlen) = Reqs
    BY DEF Lack
  <2> QED
    BY <2>1, Zenon DEF NumNewPages, SumFunction, Lack
<1>3. SumFunctionOnSet(Lack(newlen), Reqs) \in Nat
  BY <1>1, FiniteAssumption, SumInNat
<1> QED
  BY <1>1, <1>2, <1>3

\* get_num_new_pages() is the number of pages the kernels hand out.
LEMMA GivenPages ==
  ASSUME Inv, NEW newlen, Grows(newlen), NEW fp, NEW new \in NewPages(fp, newlen)
  PROVE  NumNewPages(newlen) = Cardinality(UNION {PagesOf(new[r]) : r \in Reqs})
<1> DEFINE P == [r \in Reqs |-> PagesOf(new[r])]
<1>1. \A r \in Reqs : /\ IsFiniteSet(PagesOf(new[r]))
                      /\ Cardinality(PagesOf(new[r])) = Lack(newlen)[r]
  <2> TAKE r \in Reqs
  <2>1. /\ new[r] \in Seq(fp)
        /\ Len(new[r]) = CeilPages(newlen[r]) - CeilPages(kv_len[r])
        /\ \A i, j \in DOMAIN new[r] : new[r][i] = new[r][j] => i = j
    BY NewPagesFacts
  <2>2. IsFiniteSet(PagesOf(new[r])) /\ Cardinality(PagesOf(new[r])) = Len(new[r])
    BY <2>1, DistinctPages
  <2> QED
    BY <2>1, <2>2, LackFacts
<1>2. \A r, s \in Reqs : r # s => PagesOf(new[r]) \cap PagesOf(new[s]) = {}
  BY DEF NewPages
<1>3. Disjoint(P, Reqs)
  BY <1>1, <1>2 DEF Disjoint
<1>4. \A r \in Reqs : Lack(newlen)[r] = Cardinality(P[r])
  BY <1>1
<1>5. Members(P, Reqs) = UNION {PagesOf(new[r]) : r \in Reqs}
  BY DEF Members
<1> HIDE DEF P
<1>6. SumFunctionOnSet(Lack(newlen), Reqs) = Count(P, Reqs)
  BY <1>3, <1>4, FiniteAssumption, SumIsCount
<1> QED
  BY <1>5, <1>6, LackFacts DEF Count

\* An allocation is a Serve or a Refuse of the pool, as long as skipping the
\* merge means that free_pages is enough.
LEMMA AllocatePool ==
  ASSUME Inv, NEW merge \in BOOLEAN, NEW newlen, Grows(newlen),
         ~merge => NumNewPages(newlen) =< Cardinality(free_pages),
         Allocate(merge, newlen)
  PROVE  Pool!Next
<1> DEFINE fp == MergeAndSortFree(merge)
           need == NumNewPages(newlen)
           avail == free_pages \cup staged_pages
<1>1. /\ fp \cup staged_pages' = avail
      /\ fp \cap staged_pages' = {}
  BY DEF Inv, NoPageShared, Allocate, MergeAndSortFree
<1>2. need \in Nat
  BY LackFacts
<1>3. Pending' = Pending
  BY DEF Allocate, groups, Pending
<1>4. CASE /\ need > Cardinality(fp)
           /\ result' = [ok |-> FALSE, need |-> need]
           /\ free_pages' = fp
           /\ row' = row
  <2>1. avail' = avail
    BY <1>1, <1>4
  <2>2. merge
    <3>1. ~merge => fp = free_pages
      BY DEF MergeAndSortFree
    <3>2. Cardinality(free_pages) \in Nat
      BY ListsFinite
    <3> QED
      BY <1>2, <1>4, <3>1, <3>2
  <2>3. need > Cardinality(avail)
    BY <1>4, <2>2 DEF MergeAndSortFree
  <2>4. [r \in Reqs |-> PagesOf(row[r])]' = [r \in Reqs |-> PagesOf(row[r])]
    BY <1>4
  <2>5. /\ result' \in [ok : {FALSE}, need : Nat]
        /\ result'.need = need
    BY <1>2, <1>4
  <2>6. Pool!Refuse
    BY <1>3, <2>1, <2>3, <2>4, <2>5, PoolCardinality DEF Pool!Refuse
  <2> QED
    BY <2>6 DEF Pool!Next
<1>5. ASSUME NEW new \in NewPages(fp, newlen),
             result' = [ok |-> TRUE, need |-> need],
             free_pages' = fp \ UNION {PagesOf(new[r]) : r \in Reqs},
             row' = [r \in Reqs |-> row[r] \o new[r]]
      PROVE  Pool!Next
  <2> DEFINE give == [r \in Reqs |-> PagesOf(new[r])]
             given == UNION {PagesOf(new[r]) : r \in Reqs}
  <2>1. \A r \in Reqs : new[r] \in Seq(fp) /\ PagesOf(new[r]) \subseteq fp
    BY NewPagesFacts
  <2>2. UNION {give[r] : r \in Reqs} = given
    OBVIOUS
  <2>3. give \in [Reqs -> SUBSET avail]
    BY <1>1, <2>1
  <2>4. \A r, s \in Reqs : r # s => give[r] \cap give[s] = {}
    BY DEF NewPages
  <2>5. given \subseteq fp
    BY <2>1
  <2>6. avail' = avail \ given
    <3> HIDE DEF given
    <3> QED
      BY <1>1, <1>5, <2>5 DEF given
  <2>7. \A r \in Reqs : PagesOf(row'[r]) = PagesOf(row[r]) \cup give[r]
    <3> TAKE r \in Reqs
    <3>1. row[r] \in Seq(Pages)
      BY DEF Inv, TypeOK
    <3>2. new[r] \in Seq(Pages)
      <4>1. fp \subseteq Pages
        BY DEF Inv, TypeOK, MergeAndSortFree
      <4> QED
        BY <2>1, <4>1
    <3>3. row'[r] = row[r] \o new[r]
      BY <1>5
    <3>4. PagesOf(row[r] \o new[r]) = PagesOf(row[r]) \cup PagesOf(new[r])
      BY <3>1, <3>2, ConcatPages
    <3> QED
      BY <3>3, <3>4
  <2>8. [r \in Reqs |-> PagesOf(row[r])]'
          = [r \in Reqs |-> [s \in Reqs |-> PagesOf(row[s])][r] \cup give[r]]
    BY <2>7
  <2>9. need = Cardinality(given)
    BY GivenPages
  <2>10. result' = [ok |-> TRUE, need |-> Pool!Cardinality(UNION {give[r] : r \in Reqs})]
    BY <1>5, <2>2, <2>9, PoolCardinality
  <2>11. avail' = avail \ UNION {give[r] : r \in Reqs}
    BY <2>2, <2>6
  <2> HIDE DEF give, given
  <2>12. Pool!Serve
    BY <1>3, <2>3, <2>4, <2>8, <2>10, <2>11, Zenon DEF Pool!Serve
  <2> QED
    BY <2>12 DEF Pool!Next
<1> QED
  BY <1>4, <1>5 DEF Allocate, rows

\* Growing a row by e tokens costs at most one page more than e tokens fill.
LEMMA GrowthCost ==
  ASSUME NEW k \in Nat, NEW e \in Nat
  PROVE  /\ CeilPages(k + e) - CeilPages(k) \in Nat
         /\ PageSize * (CeilPages(k + e) - CeilPages(k)) =< e + PageSize - 1
<1> DEFINE a == CeilPages(k + e)
           b == CeilPages(k)
<1>1. PageSize \in Nat /\ PageSize > 0
  BY PageSizeAssumption
<1>2. a \in Nat /\ b \in Nat /\ b =< a
  BY CeilPagesMonotone
<1>3. ASSUME NEW x \in Nat
      PROVE  PageSize * CeilPages(x) >= x /\ PageSize * CeilPages(x) =< x + PageSize - 1
  BY <1>1 DEF CeilPages
<1>4. PageSize * b >= k /\ PageSize * a =< k + e + PageSize - 1
  BY <1>3
<1> HIDE DEF a, b
<1>5. PageSize * (a - b) = PageSize * a - PageSize * b
  BY <1>1, <1>2
<1>6. PageSize * a \in Nat /\ PageSize * b \in Nat
  BY <1>1, <1>2
<1>7. PageSize * (a - b) =< e + PageSize - 1
  BY <1>1, <1>4, <1>5, <1>6
<1> QED
  BY <1>2, <1>7 DEF a, b

\* Only the rows of the batch need pages.
LEMMA BatchNeed ==
  ASSUME Inv, NEW newlen, Grows(newlen), NEW B \in SUBSET Reqs,
         \A r \in Reqs \ B : newlen[r] = kv_len[r]
  PROVE  NumNewPages(newlen) = SumFunctionOnSet(Lack(newlen), B)
<1>1. \A r \in Reqs : Lack(newlen)[r] \in Nat
  BY LackFacts
<1>2. \A r \in Reqs \ B : Lack(newlen)[r] = 0
  <2> TAKE r \in Reqs \ B
  <2>1. Lack(newlen)[r] = CeilPages(kv_len[r]) - CeilPages(kv_len[r])
    BY LackFacts
  <2>2. CeilPages(kv_len[r]) \in Nat
    BY CeilPagesMonotone DEF Inv, TypeOK
  <2> QED
    BY <2>1, <2>2
<1> QED
  BY <1>1, <1>2, LackFacts, FiniteAssumption, SumSupport

\* alloc(): whole pages.
LEMMA AllocPool ==
  ASSUME Inv, NEW r \in Reqs, NEW n \in 1..CeilPages(MaxLen), Alloc(r, n)
  PROVE  Pool!Next
<1> DEFINE newlen == [kv_len EXCEPT ![r] = @ + n * PageSize]
           merge == n > Cardinality(free_pages)
<1>1. n \in Nat /\ PageSize \in Nat /\ PageSize > 0 /\ n * PageSize \in Nat
  <2>1. n \in Nat /\ PageSize \in Nat /\ PageSize > 0
    BY PageSizeAssumption, MaxLenAssumption, CeilPagesMonotone
  <2> QED
    BY <2>1
<1>2. kv_len \in [Reqs -> Nat]
  BY DEF Inv, TypeOK
<1>3. Allocate(merge, newlen)
  BY Zenon DEF Alloc
<1>4. /\ newlen \in [Reqs -> Nat]
      /\ newlen[r] = kv_len[r] + n * PageSize
      /\ \A s \in Reqs \ {r} : newlen[s] = kv_len[s]
  BY <1>1, <1>2
<1> HIDE DEF newlen
<1>5. Grows(newlen)
  BY <1>1, <1>2, <1>4 DEF Grows
<1>6. NumNewPages(newlen) = Lack(newlen)[r]
  <2>1. NumNewPages(newlen) = SumFunctionOnSet(Lack(newlen), {r})
    BY <1>4, <1>5, BatchNeed
  <2>2. \A s \in Reqs : Lack(newlen)[s] \in Nat
    BY <1>5, LackFacts
  <2>3. {r} \in SUBSET Reqs /\ {r} \ {r} = {}
    OBVIOUS
  <2>4. SumFunctionOnSet(Lack(newlen), {r})
          = Lack(newlen)[r] + SumFunctionOnSet(Lack(newlen), {r} \ {r})
    BY <2>2, <2>3, FiniteAssumption, SumMember
  <2> QED
    BY <2>1, <2>2, <2>3, <2>4, SumEmpty
<1>7. NumNewPages(newlen) =< n
  <2>1. /\ Lack(newlen)[r] = CeilPages(kv_len[r] + n * PageSize) - CeilPages(kv_len[r])
        /\ Lack(newlen)[r] \in Nat
    BY <1>4, <1>5, LackFacts
  <2>2. PageSize * Lack(newlen)[r] =< n * PageSize + PageSize - 1
    BY <1>1, <1>2, <2>1, GrowthCost
  <2>3. ASSUME NEW m \in Nat, PageSize * m =< n * PageSize + PageSize - 1
        PROVE  m =< n
    BY <1>1, <2>3
  <2> QED
    BY <1>6, <2>1, <2>2, <2>3
<1>8. ~merge => NumNewPages(newlen) =< Cardinality(free_pages)
  <2>1. NumNewPages(newlen) \in Nat /\ Cardinality(free_pages) \in Nat
    BY <1>5, LackFacts, ListsFinite
  <2> QED
    BY <1>1, <1>7, <2>1
<1>9. merge \in BOOLEAN
  OBVIOUS
<1> HIDE DEF merge
<1> QED
  BY <1>3, <1>5, <1>8, <1>9, AllocatePool

\* alloc_extend(): the merge estimate total / page_size + batch_size + 1 is
\* never less than what the batch needs.
LEMMA AllocExtendPool ==
  ASSUME Inv, NEW B \in SUBSET Reqs, NEW ext \in [B -> 1..MaxLen], AllocExtend(B, ext)
  PROVE  Pool!Next
<1> DEFINE newlen == [r \in Reqs |-> IF r \in B THEN kv_len[r] + ext[r] ELSE kv_len[r]]
           total == SumFunction(ext)
           merge == ExtendMerge(B, total)
<1>1. PageSize \in Nat /\ PageSize > 0
  BY PageSizeAssumption
<1>2. kv_len \in [Reqs -> Nat] /\ \A r \in B : ext[r] \in Nat
  BY MaxLenAssumption DEF Inv, TypeOK
<1>3. Allocate(merge, newlen)
  BY Zenon DEF AllocExtend
<1>4. /\ newlen \in [Reqs -> Nat]
      /\ \A r \in B : newlen[r] = kv_len[r] + ext[r]
      /\ \A r \in Reqs \ B : newlen[r] = kv_len[r]
  BY <1>2
<1> HIDE DEF newlen
<1>5. Grows(newlen)
  BY <1>2, <1>4 DEF Grows
<1>6. IsFiniteSet(B) /\ Cardinality(B) \in Nat
  BY FiniteAssumption, FS_Subset, FS_CardinalityType
<1>7. total = SumFunctionOnSet(ext, B) /\ total \in Nat
  <2>1. total = SumFunctionOnSet(ext, B)
    BY DEF SumFunction
  <2> QED
    BY <1>2, <1>6, <2>1, SumInNat
<1> HIDE DEF total
<1>8. PageSize * NumNewPages(newlen) =< total + PageSize * Cardinality(B)
  <2>1. NumNewPages(newlen) = SumFunctionOnSet(Lack(newlen), B)
    BY <1>4, <1>5, BatchNeed
  <2>2. ASSUME NEW r \in B
        PROVE  /\ Lack(newlen)[r] \in Nat /\ ext[r] \in Nat
               /\ PageSize * Lack(newlen)[r] =< ext[r] + PageSize
    <3>1. /\ Lack(newlen)[r] = CeilPages(kv_len[r] + ext[r]) - CeilPages(kv_len[r])
          /\ Lack(newlen)[r] \in Nat
      BY <1>4, <1>5, LackFacts
    <3>2. PageSize * Lack(newlen)[r] =< ext[r] + PageSize - 1
      BY <1>2, <3>1, GrowthCost
    <3>3. ext[r] \in Nat /\ PageSize * Lack(newlen)[r] \in Nat
      BY <1>1, <1>2, <3>1
    <3> QED
      BY <1>1, <3>1, <3>2, <3>3
  <2>3. PageSize * SumFunctionOnSet(Lack(newlen), B)
          =< SumFunctionOnSet(ext, B) + PageSize * Cardinality(B)
    BY <1>1, <1>6, <2>2, SumBound
  <2> QED
    BY <1>7, <2>1, <2>3
<1>9. NumNewPages(newlen) =< total \div PageSize + Cardinality(B) + 1
  <2>1. NumNewPages(newlen) \in Nat
    BY <1>5, LackFacts
  <2>2. ASSUME NEW m \in Nat, NEW t \in Nat, NEW b \in Nat,
               PageSize * m =< t + PageSize * b
        PROVE  m =< t \div PageSize + b + 1
    <3>1. t \div PageSize \in Nat /\ t < PageSize * (t \div PageSize) + PageSize
      BY <1>1
    <3>2. ASSUME NEW q \in Nat, t < PageSize * q + PageSize
          PROVE  m =< q + b + 1
      <4>1. PageSize * (q + b + 1) = PageSize * q + PageSize * b + PageSize
        BY <1>1
      <4>2. PageSize * q \in Nat /\ PageSize * b \in Nat /\ PageSize * m \in Nat
        BY <1>1
      <4>3. PageSize * m < PageSize * (q + b + 1)
        BY <1>1, <2>2, <3>2, <4>1, <4>2
      <4>4. ASSUME NEW u \in Nat, PageSize * m < PageSize * u
            PROVE  m =< u
        BY <1>1, <4>4
      <4> QED
        BY <4>3, <4>4
    <3> QED
      BY <3>1, <3>2
  <2> QED
    BY <1>6, <1>7, <1>8, <2>1, <2>2
<1>10. ~merge => NumNewPages(newlen) =< Cardinality(free_pages)
  <2>1. /\ NumNewPages(newlen) \in Nat /\ Cardinality(free_pages) \in Nat
        /\ total \div PageSize \in Nat
    BY <1>1, <1>5, <1>7, LackFacts, ListsFinite
  <2> QED
    BY <1>6, <1>9, <2>1 DEF ExtendMerge
<1>11. merge \in BOOLEAN
  BY DEF ExtendMerge
<1> HIDE DEF merge
<1> QED
  BY <1>3, <1>5, <1>10, <1>11, AllocatePool

\* alloc_decode(): one token for each row of the batch costs one page each
\* at most.
LEMMA AllocDecodePool ==
  ASSUME Inv, NEW B \in SUBSET Reqs, AllocDecode(B)
  PROVE  Pool!Next
<1> DEFINE newlen == [r \in Reqs |-> IF r \in B THEN kv_len[r] + 1 ELSE kv_len[r]]
           none == [r \in B |-> 0]
<1>1. PageSize \in Nat /\ PageSize > 0
  BY PageSizeAssumption
<1>2. kv_len \in [Reqs -> Nat]
  BY DEF Inv, TypeOK
<1>3. Allocate(DecodeMerge(B), newlen)
  BY Zenon DEF AllocDecode
<1>4. /\ newlen \in [Reqs -> Nat]
      /\ \A r \in B : newlen[r] = kv_len[r] + 1
      /\ \A r \in Reqs \ B : newlen[r] = kv_len[r]
  BY <1>2
<1> HIDE DEF newlen
<1>5. Grows(newlen)
  BY <1>2, <1>4 DEF Grows
<1>6. IsFiniteSet(B) /\ Cardinality(B) \in Nat
  BY FiniteAssumption, FS_Subset, FS_CardinalityType
<1>7. SumFunctionOnSet(none, B) = 0
  <2>1. {} \in SUBSET B /\ \A r \in B : none[r] \in Nat
    OBVIOUS
  <2>2. \A r \in B \ {} : none[r] = 0
    OBVIOUS
  <2> HIDE DEF none
  <2> QED
    BY <1>6, <2>1, <2>2, SumSupport, SumEmpty
<1>8. NumNewPages(newlen) =< Cardinality(B)
  <2>1. NumNewPages(newlen) = SumFunctionOnSet(Lack(newlen), B)
    BY <1>4, <1>5, BatchNeed
  <2>2. ASSUME NEW r \in B
        PROVE  /\ Lack(newlen)[r] \in Nat /\ none[r] \in Nat
               /\ 1 * Lack(newlen)[r] =< none[r] + 1
    <3>1. /\ Lack(newlen)[r] = CeilPages(kv_len[r] + 1) - CeilPages(kv_len[r])
          /\ Lack(newlen)[r] \in Nat
      BY <1>4, <1>5, LackFacts
    <3>2. PageSize * Lack(newlen)[r] =< 1 + PageSize - 1
      BY <1>2, <3>1, GrowthCost
    <3>3. ASSUME NEW m \in Nat, PageSize * m =< 1 + PageSize - 1
          PROVE  m =< 1
      BY <1>1, <3>3
    <3> QED
      BY <3>1, <3>2, <3>3
  <2> HIDE DEF none
  <2>3. 1 * SumFunctionOnSet(Lack(newlen), B)
          =< SumFunctionOnSet(none, B) + 1 * Cardinality(B)
    BY <1>6, <2>2, SumBound
  <2>4. NumNewPages(newlen) \in Nat
    BY <1>5, LackFacts
  <2> QED
    BY <1>6, <1>7, <2>1, <2>3, <2>4
<1>9. ~DecodeMerge(B) => NumNewPages(newlen) =< Cardinality(free_pages)
  <2>1. NumNewPages(newlen) \in Nat /\ Cardinality(free_pages) \in Nat
    BY <1>5, LackFacts, ListsFinite
  <2> QED
    BY <1>6, <1>8, <2>1 DEF DecodeMerge
<1>10. DecodeMerge(B) \in BOOLEAN
  BY DEF DecodeMerge
<1> QED
  BY <1>3, <1>5, <1>9, <1>10, AllocatePool

-----------------------------------------------------------------------------
(* Freeing *)

\* A trimmed row gives its freed pages back to the pool or to the group.
LEMMA FreedPool ==
  ASSUME Inv, NEW r \in Reqs, NEW keep \in Nat, keep < kv_len[r], TrimRow(r, keep),
         UNCHANGED result,
         \/ /\ (free_pages \cup staged_pages)'
                 = (free_pages \cup staged_pages) \cup FreedPages(r, keep)
            /\ UNCHANGED Pending
         \/ /\ Pending' = Pending \cup FreedPages(r, keep)
            /\ UNCHANGED (free_pages \cup staged_pages)
  PROVE  Pool!Next
<1> DEFINE owned == [s \in Reqs |-> PagesOf(row[s])]
           S == FreedPages(r, keep)
<1>1. /\ \A s \in Reqs : s # r => row'[s] = row[s]
      /\ PagesOf(row'[r]) \cup S = PagesOf(row[r])
      /\ PagesOf(row'[r]) \cap S = {}
  BY TrimFacts
<1>2. S \in SUBSET owned[r]
  BY <1>1
<1>3. owned' = [owned EXCEPT ![r] = @ \ S]
  <2>1. PagesOf(row'[r]) = PagesOf(row[r]) \ S
    BY <1>1
  <2>2. \A s \in Reqs : PagesOf(row'[s]) = IF s = r THEN PagesOf(row[s]) \ S
                                                    ELSE PagesOf(row[s])
    BY <1>1, <2>1
  <2> HIDE DEF S
  <2> QED
    BY <2>2
<1> HIDE DEF S
<1>4. Pool!GiveBack
  BY <1>2, <1>3, Zenon DEF Pool!GiveBack, S
<1> QED
  BY <1>4 DEF Pool!Next

\* Every step of the allocator is a step of the pool or invisible to it.
LEMMA NextPool ==
  ASSUME Inv, Inv', [Next]_vars
  PROVE  [Pool!Next]_(Pool!vars)
<1>1. ASSUME NEW r \in Reqs, NEW n \in 1..CeilPages(MaxLen), Alloc(r, n)
      PROVE  Pool!Next
  BY <1>1, AllocPool
<1>2. ASSUME NEW B \in SUBSET Reqs, NEW ext \in [B -> 1..MaxLen], AllocExtend(B, ext)
      PROVE  Pool!Next
  BY <1>2, AllocExtendPool
<1>3. ASSUME NEW B \in SUBSET Reqs, AllocDecode(B)
      PROVE  Pool!Next
  BY <1>3, AllocDecodePool
<1>4. ASSUME NEW r \in Reqs, NEW keep \in 0..MaxLen, Free(r, keep)
      PROVE  Pool!Next
  <2>1. keep \in Nat /\ keep < kv_len[r] /\ TrimRow(r, keep) /\ result' = result
    BY <1>4, MaxLenAssumption DEF Free
  <2>2. CASE grouping
    <3>1. /\ free_group' = free_group \cup FreedPages(r, keep)
          /\ UNCHANGED <<free_pages, staged_pages, free_page_ids_group>>
      BY <1>4, <2>2 DEF Free, lists
    <3> QED
      BY <2>1, <3>1, FreedPool DEF Pending
  <2>3. CASE ~grouping
    <3>1. /\ ReleasePageIds(FreedPages(r, keep), {})
          /\ UNCHANGED <<free_group, free_page_ids_group>>
      BY <1>4, <2>3 DEF Free
    <3>2. (free_pages \cup staged_pages)'
            = (free_pages \cup staged_pages) \cup FreedPages(r, keep)
      BY <3>1 DEF ReleasePageIds
    <3> QED
      BY <2>1, <3>1, <3>2, FreedPool DEF Pending
  <2> QED
    BY <2>2, <2>3
<1>5. ASSUME NEW r \in Reqs, NEW keep \in 0..MaxLen, FreeSegment(r, keep)
      PROVE  Pool!Next
  <2>1. keep \in Nat /\ keep < kv_len[r] /\ TrimRow(r, keep) /\ result' = result
    BY <1>5, MaxLenAssumption DEF FreeSegment
  <2>2. CASE grouping
    <3>1. /\ free_page_ids_group' = free_page_ids_group \cup FreedPages(r, keep)
          /\ UNCHANGED <<free_pages, staged_pages, free_group>>
      BY <1>5, <2>2 DEF FreeSegment, lists
    <3> QED
      BY <2>1, <3>1, FreedPool DEF Pending
  <2>3. CASE ~grouping
    <3>1. /\ ReleasePageIds(FreedPages(r, keep), {})
          /\ UNCHANGED <<free_group, free_page_ids_group>>
      BY <1>5, <2>3 DEF FreeSegment
    <3>2. (free_pages \cup staged_pages)'
            = (free_pages \cup staged_pages) \cup FreedPages(r, keep)
      BY <3>1 DEF ReleasePageIds
    <3> QED
      BY <2>1, <3>1, <3>2, FreedPool DEF Pending
  <2> QED
    BY <2>2, <2>3
<1>6. CASE FreeGroupBegin
  <2>1. /\ UNCHANGED <<free_pages, staged_pages, row, result>>
        /\ Pending' = {} /\ Pending = {}
    BY <1>6 DEF FreeGroupBegin, lists, rows, Pending, Inv, GroupsClosed
  <2> QED
    BY <2>1 DEF Pool!vars
<1>7. CASE FreeGroupEnd
  <2>1. /\ UNCHANGED <<row, result>>
        /\ Pending' = {}
        /\ ReleasePageIds(Pending, free_group \cap free_page_ids_group)
    BY <1>7 DEF FreeGroupEnd, rows, Pending
  <2>2. (free_pages \cup staged_pages)' = (free_pages \cup staged_pages) \cup Pending
    BY <2>1 DEF ReleasePageIds
  <2> QED
    BY <2>1, <2>2 DEF Pool!Next, Pool!Settle
<1>8. CASE Clear
  <2>1. UNCHANGED <<row, free_group, free_page_ids_group, result>>
    BY <1>8 DEF Clear, groups, rows
  <2>2. Pending = {} /\ Pending' = {}
    BY <1>8, <2>1 DEF Clear, Inv, GroupsClosed, Pending
  <2>3. (free_pages \cup staged_pages)' = Pages
    BY <1>8 DEF Clear
  <2>4. free_pages \cup staged_pages = Pages
    <3>1. \A r \in Reqs : PagesOf(row[r]) \subseteq Pages
      <4>1. \A r \in Reqs : row[r] \in Seq(Pages)
        BY DEF Inv, TypeOK
      <4> QED
        BY <4>1 DEF PagesOf
    <3>2. \A r \in Reqs : PagesOf(row[r]) = {}
      <4>1. \A r \in Reqs :
              PagesOf(row'[r]) \cap (free_pages' \cup staged_pages' \cup Pending') = {}
        BY DEF Inv, NoPageShared, PagesOf
      <4> QED
        BY <2>1, <2>3, <3>1, <4>1
    <3> QED
      BY <2>2, <3>2 DEF Inv, NoPageLeaked, TypeOK
  <2> QED
    BY <2>1, <2>2, <2>3, <2>4 DEF Pool!vars
<1>9. CASE UNCHANGED vars
  BY <1>9 DEF vars, lists, groups, rows, Pending, Pool!vars
<1> QED
  BY <1>1, <1>2, <1>3, <1>4, <1>5, <1>6, <1>7, <1>8, <1>9 DEF Next

\* The allocator is a set of pages: it serves disjoint available pages, as
\* many as the request needs, and refuses only what available_size() cannot
\* cover, in particular never because alloc_extend or alloc_decode skipped
\* the merge of the staging list.
THEOREM AllocatorRefinesPool == Spec => ImplementsPagePool
<1>1. Init => Pool!Init
  <2> SUFFICES ASSUME Init PROVE Pool!Init
    OBVIOUS
  <2>1. \A r \in Reqs : PagesOf(row[r]) = {}
    BY DEF Init, PagesOf
  <2> QED
    BY <2>1 DEF Init, Pending, Pool!Init
<1>2. Inv /\ Inv' /\ [Next]_vars => [Pool!Next]_(Pool!vars)
  BY NextPool
<1> QED
  BY <1>1, <1>2, AllocatorInv, PTL DEF Spec, ImplementsPagePool, Pool!Spec
=============================================================================
