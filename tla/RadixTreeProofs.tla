--------------------------- MODULE RadixTreeProofs ---------------------------
(***************************************************************************)
(* The operations of the prefix tree keep it in order, whatever the page   *)
(* size: _split_node, inc_lock_ref, dec_lock_ref, _insert_helper and       *)
(* _delete_leaf keep TreeOK, and match_prefix returns the longest cached   *)
(* prefix.                                                                 *)
(*                                                                         *)
(* TreeOK(t, hold) says that every cached page path lies on the edge of    *)
(* one node (so that no two siblings share a page), that a lock_ref counts *)
(* the holders at or below its node, and that evictable_size_,             *)
(* protected_size_ and evictable_leaves are what a walk of the tree would  *)
(* compute.  The sizes are reduced to numbers of pages (SizeIsPages), for  *)
(* which finite sets have the facts that sums of edge lengths lack.        *)
(***************************************************************************)
EXTENDS RadixTree, SetSums

\* Sequences of token ids.
Path == Seq(Nat)

-----------------------------------------------------------------------------
(* Prefixes                                                                *)

\* A page holds at least one token.
LEMMA PageSizeFacts == PageSize \in Nat /\ PageSize > 0
  BY PageSizeAssumption

\* A prefix, position by position.
LEMMA PrefixAt ==
  ASSUME NEW s \in Path, NEW t \in Path
  PROVE  IsPrefix(s, t) <=> Len(s) =< Len(t) /\ \A i \in 1..Len(s) : s[i] = t[i]
<1>1. SubSeq(s, 1, Len(s)) = s
  BY DEF Path
<1>2. ASSUME Len(s) =< Len(t)
      PROVE  s = SubSeq(t, 1, Len(s)) <=> \A i \in 1..Len(s) : s[i] = t[i]
  <2>1. SubSeq(t, 1, Len(s)) \in Path /\ Len(SubSeq(t, 1, Len(s))) = Len(s)
    BY <1>2 DEF Path
  <2>2. \A i \in 1..Len(s) : SubSeq(t, 1, Len(s))[i] = t[i]
    BY <1>2 DEF Path
  <2> QED
    BY <2>1, <2>2 DEF Path
<1> QED
  BY <1>1, <1>2 DEF IsPrefix

\* The prefix order.
LEMMA PrefixOrder ==
  ASSUME NEW a \in Path, NEW b \in Path, NEW c \in Path
  PROVE  /\ IsPrefix(a, a) /\ IsPrefix(Root, a)
         /\ IsPrefix(a, b) => Len(a) =< Len(b)
         /\ IsPrefix(a, b) /\ IsPrefix(b, c) => IsPrefix(a, c)
         /\ IsPrefix(a, b) /\ Len(b) =< Len(a) => a = b
         /\ IsPrefix(a, c) /\ IsPrefix(b, c) /\ Len(a) =< Len(b) => IsPrefix(a, b)
         /\ Len(a) \in Nat /\ (Len(a) = 0 <=> a = Root) /\ Root \in Path
<1>1. Root \in Path /\ Len(Root) = 0
  BY DEF Root, Path
<1>2. Len(a) \in Nat /\ Len(b) \in Nat /\ Len(c) \in Nat
  BY DEF Path
<1>3. Len(a) = 0 <=> a = Root
  BY DEF Root, Path
<1>4. IsPrefix(a, a) /\ IsPrefix(Root, a)
  BY <1>1, <1>2, PrefixAt
<1>5. IsPrefix(a, b) => Len(a) =< Len(b)
  BY PrefixAt
<1>6. IsPrefix(a, b) /\ IsPrefix(b, c) => IsPrefix(a, c)
  BY <1>2, PrefixAt
<1>7. ASSUME IsPrefix(a, b), Len(b) =< Len(a)
      PROVE  a = b
  <2>1. Len(a) = Len(b) /\ \A i \in 1..Len(a) : a[i] = b[i]
    BY <1>2, <1>7, PrefixAt
  <2> QED
    BY <2>1 DEF Path
<1>8. IsPrefix(a, c) /\ IsPrefix(b, c) /\ Len(a) =< Len(b) => IsPrefix(a, b)
  BY <1>2, PrefixAt
<1> QED
  BY <1>1, <1>2, <1>3, <1>4, <1>5, <1>6, <1>7, <1>8

\* The root stands for no tokens.
LEMMA RootFacts == Root \in Path /\ Len(Root) = 0 /\ Len(Root) % PageSize = 0
<1>1. Root \in Path /\ Len(Root) = 0
  BY DEF Root, Path
<1>2. 0 % PageSize = 0
  BY PageSizeFacts
<1> QED
  BY <1>1, <1>2

\* The first n tokens of a path, and what a prefix is.
LEMMA Cut ==
  ASSUME NEW s \in Path, NEW n \in 0..Len(s)
  PROVE  /\ SubSeq(s, 1, n) \in Path /\ Len(SubSeq(s, 1, n)) = n
         /\ IsPrefix(SubSeq(s, 1, n), s)
         /\ \A m \in 0..n : SubSeq(SubSeq(s, 1, n), 1, m) = SubSeq(s, 1, m)
<1>1. n \in Nat /\ Len(s) \in Nat /\ n =< Len(s)
  BY DEF Path
<1>2. SubSeq(s, 1, n) \in Path /\ Len(SubSeq(s, 1, n)) = n
  BY <1>1 DEF Path
<1>3. \A i \in 1..n : SubSeq(s, 1, n)[i] = s[i]
  BY <1>1 DEF Path
<1>4. IsPrefix(SubSeq(s, 1, n), s)
  BY <1>1, <1>2, <1>3, PrefixAt
<1>5. ASSUME NEW m \in 0..n
      PROVE  SubSeq(SubSeq(s, 1, n), 1, m) = SubSeq(s, 1, m)
  <2>1. /\ SubSeq(s, 1, m) \in Path /\ Len(SubSeq(s, 1, m)) = m
        /\ SubSeq(SubSeq(s, 1, n), 1, m) \in Path
        /\ Len(SubSeq(SubSeq(s, 1, n), 1, m)) = m
    BY <1>1, <1>2 DEF Path
  <2>2. \A i \in 1..m : /\ SubSeq(SubSeq(s, 1, n), 1, m)[i] = SubSeq(s, 1, n)[i]
                        /\ SubSeq(s, 1, m)[i] = s[i]
    BY <1>1, <1>2 DEF Path
  <2>3. \A i \in 1..m : SubSeq(SubSeq(s, 1, n), 1, m)[i] = SubSeq(s, 1, m)[i]
    BY <1>1, <1>3, <2>2
  <2> QED
    BY <2>1, <2>3 DEF Path
<1> QED
  BY <1>2, <1>4, <1>5

\* The prefixes of a path are its cuts.
LEMMA PrefixIsCut ==
  ASSUME NEW a \in Path, NEW s \in Path
  PROVE  IsPrefix(a, s) <=> Len(a) \in 0..Len(s) /\ a = SubSeq(s, 1, Len(a))
<1>1. Len(a) \in Nat /\ Len(s) \in Nat /\ SubSeq(a, 1, Len(a)) = a
  BY DEF Path
<1> QED
  BY <1>1 DEF IsPrefix

-----------------------------------------------------------------------------
(* Pages                                                                   *)

\* The whole pages in x tokens.
LEMMA PageDivision ==
  ASSUME NEW x \in Nat
  PROVE  /\ x \div PageSize \in Nat /\ (x \div PageSize) * PageSize \in Nat
         /\ (x \div PageSize) * PageSize =< x /\ x < (x \div PageSize) * PageSize + PageSize
         /\ x % PageSize = 0 <=> x = (x \div PageSize) * PageSize
<1>1. /\ x \div PageSize \in Nat /\ (x % PageSize) \in 0..(PageSize - 1)
      /\ x = (x \div PageSize) * PageSize + (x % PageSize)
  BY PageSizeFacts
<1> DEFINE k == x \div PageSize
           m == k * PageSize
<1>2. k \in Nat => m \in Nat
  BY PageSizeFacts
<1> HIDE DEF k, m
<1> QED
  BY <1>1, <1>2, PageSizeFacts DEF k, m

\* The tokens of k whole pages.
LEMMA PageMultiple ==
  ASSUME NEW k \in Nat
  PROVE  /\ k * PageSize \in Nat /\ (k * PageSize) % PageSize = 0
         /\ (k * PageSize) \div PageSize = k
  BY PageSizeFacts

\* More pages hold more tokens.
LEMMA PageMonotone ==
  ASSUME NEW k \in Int, NEW m \in Int
  PROVE  /\ k =< m <=> k * PageSize =< m * PageSize
         /\ k < m <=> k * PageSize < m * PageSize
         /\ (k + 1) * PageSize = k * PageSize + PageSize
<1>1. ASSUME NEW i \in Int, NEW j \in Int, i =< j
      PROVE  i * PageSize =< j * PageSize
  BY <1>1, PageSizeFacts
<1>2. ASSUME NEW i \in Int, NEW j \in Int, i < j
      PROVE  i * PageSize < j * PageSize
  BY <1>2, PageSizeFacts
<1>3. k * PageSize \in Int /\ m * PageSize \in Int
  BY PageSizeFacts
<1>4. (k + 1) * PageSize = k * PageSize + PageSize
  BY PageSizeFacts
<1> QED
  BY <1>1, <1>2, <1>3, <1>4

\* The page-aligned paths on the way to the nodes of N.
PagePaths(N) ==
  UNION {{PagePrefix(n, i) : i \in 1..(Len(n) \div PageSize)} : n \in N}

\* An aligned path that is not the root.
IsPagePath(p) == p \in Path /\ p # Root /\ Len(p) % PageSize = 0

\* The first i pages of a key.
LEMMA PagePrefixFacts ==
  ASSUME NEW key \in Path, NEW i \in 0..(Len(key) \div PageSize)
  PROVE  /\ PagePrefix(key, i) \in Path /\ Len(PagePrefix(key, i)) = i * PageSize
         /\ Len(PagePrefix(key, i)) % PageSize = 0
         /\ Len(PagePrefix(key, i)) \div PageSize = i
         /\ IsPrefix(PagePrefix(key, i), key)
         /\ (PagePrefix(key, i) = Root <=> i = 0)
<1>1. Len(key) \in Nat /\ Len(key) \div PageSize \in Nat /\ i \in Nat
  BY PageDivision DEF Path
<1>2. i * PageSize \in Nat /\ i * PageSize =< Len(key)
  <2>1. i * PageSize =< (Len(key) \div PageSize) * PageSize
    BY <1>1, PageMonotone
  <2> QED
    BY <1>1, <2>1, PageDivision, PageMultiple
<1>3. i * PageSize \in 0..Len(key)
  BY <1>1, <1>2
<1>4. /\ PagePrefix(key, i) \in Path /\ Len(PagePrefix(key, i)) = i * PageSize
      /\ IsPrefix(PagePrefix(key, i), key)
  BY <1>3, Cut DEF PagePrefix
<1>5. i * PageSize = 0 <=> i = 0
  BY <1>1, PageSizeFacts
<1> QED
  BY <1>1, <1>4, <1>5, PageMultiple, PrefixOrder

\* An aligned prefix is a page prefix.
LEMMA AlignedPrefix ==
  ASSUME NEW p \in Path, NEW key \in Path, IsPrefix(p, key), Len(p) % PageSize = 0
  PROVE  /\ Len(p) \div PageSize \in 0..(Len(key) \div PageSize)
         /\ p = PagePrefix(key, Len(p) \div PageSize)
<1> DEFINE k == Len(p) \div PageSize
           m == Len(key) \div PageSize
<1>1. /\ Len(p) \in Nat /\ Len(key) \in Nat /\ Len(p) =< Len(key)
      /\ p = SubSeq(key, 1, Len(p))
  BY PrefixIsCut, PrefixOrder
<1>2. /\ k \in Nat /\ m \in Nat /\ Len(p) = k * PageSize
      /\ m * PageSize \in Nat /\ Len(key) < m * PageSize + PageSize
  BY <1>1, PageDivision
<1>3. k * PageSize < (m + 1) * PageSize /\ m + 1 \in Int /\ k \in Int
  BY <1>1, <1>2, PageMonotone, PageSizeFacts
<1>4. k < m + 1
  BY <1>3, PageMonotone
<1>5. k \in 0..m
  BY <1>2, <1>4
<1> QED
  BY <1>1, <1>2, <1>5 DEF PagePrefix

\* The page paths of a set of nodes are the aligned prefixes of its members.
LEMMA PagePathFacts ==
  ASSUME NEW N \in SUBSET Path
  PROVE  \A p : p \in PagePaths(N) <=> IsPagePath(p) /\ \E n \in N : IsPrefix(p, n)
<1>1. ASSUME NEW p, p \in PagePaths(N)
      PROVE  IsPagePath(p) /\ \E n \in N : IsPrefix(p, n)
  <2>1. PICK n \in N : \E i \in 1..(Len(n) \div PageSize) : p = PagePrefix(n, i)
    BY <1>1 DEF PagePaths
  <2>2. PICK i \in 1..(Len(n) \div PageSize) : p = PagePrefix(n, i)
    BY <2>1
  <2>3. n \in Path /\ Len(n) \in Nat /\ Len(n) \div PageSize \in Nat
    BY PageDivision DEF Path
  <2>4. i \in 0..(Len(n) \div PageSize) /\ i # 0
    BY <2>3
  <2> QED
    BY <2>2, <2>3, <2>4, PagePrefixFacts DEF IsPagePath
<1>2. ASSUME NEW p, IsPagePath(p), NEW n \in N, IsPrefix(p, n)
      PROVE  p \in PagePaths(N)
  <2> DEFINE k == Len(p) \div PageSize
  <2>1. p \in Path /\ n \in Path /\ Len(p) % PageSize = 0 /\ p # Root
    BY <1>2 DEF IsPagePath
  <2>2. k \in 0..(Len(n) \div PageSize) /\ p = PagePrefix(n, k)
    BY <1>2, <2>1, AlignedPrefix
  <2>3. k # 0
    BY <2>1, <2>2, PagePrefixFacts
  <2>4. Len(n) \div PageSize \in Nat
    BY <2>1, PageDivision DEF Path
  <2>5. k \in 1..(Len(n) \div PageSize)
    BY <2>2, <2>3, <2>4
  <2> QED
    BY <2>2, <2>5 DEF PagePaths
<1> QED
  BY <1>1, <1>2

\* A set of naturals with a bound has a largest element.
LEMMA LargestNatural ==
  ASSUME NEW b \in Nat, NEW S \in SUBSET (0..b), S # {}
  PROVE  /\ Max(S) \in S
         /\ \A y \in S : y =< Max(S)
<1> DEFINE R == {b - y : y \in S}
<1>1. R \in SUBSET Nat /\ R # {}
  OBVIOUS
<1>2. Min(R) \in R /\ \A y \in R : Min(R) =< y
  BY <1>1, LeastNatural
<1>3. PICK x \in S : Min(R) = b - x
  BY <1>2
<1>4. ASSUME NEW y \in S
      PROVE  x >= y
  <2>1. b - x =< b - y
    BY <1>2, <1>3
  <2> QED
    BY <2>1
<1>5. Max(S) \in S /\ \A y \in S : Max(S) >= y
  BY <1>4 DEF Max
<1> QED
  BY <1>5

-----------------------------------------------------------------------------
(* The shape of the tree                                                   *)

TreeType ==
  [nodes : SUBSET Path,
   lock_ref : UNION {[N -> Nat] : N \in SUBSET Path},
   value : UNION {[N -> Nat] : N \in SUBSET Path},
   evictable_size_ : Int, protected_size_ : Int,
   evictable_leaves : SUBSET Path]

\* The page path p lies on the edge that ends in c: every node below p is at
\* or below c.
OwnedBy(N, p, c) ==
  /\ c \in N /\ IsPrefix(p, c)
  /\ \A n \in N : IsPrefix(p, n) => IsPrefix(c, n)

\* The tree: nodes end on pages, every page on the way to a node has a value, and
\* two edges that share a page share the node it belongs to.
TreeShape(t) ==
  /\ t \in TreeType
  /\ IsFiniteSet(t.nodes)
  /\ \A n \in t.nodes : IsPagePath(n)
  /\ DOMAIN t.lock_ref = t.nodes
  /\ DOMAIN t.value = PagePaths(t.nodes)
  /\ \A p \in DOMAIN t.value : \E c \in t.nodes : OwnedBy(t.nodes, p, c)

\* The parts of a tree in shape.
LEMMA ShapeFacts ==
  ASSUME NEW t, TreeShape(t)
  PROVE  /\ t.nodes \in SUBSET Path /\ IsFiniteSet(t.nodes)
         /\ t.lock_ref \in [t.nodes -> Nat]
         /\ t.value \in [PagePaths(t.nodes) -> Nat]
         /\ t.evictable_leaves \in SUBSET Path
         /\ t.evictable_size_ \in Int /\ t.protected_size_ \in Int
         /\ \A n \in t.nodes : IsPagePath(n) /\ n \in DOMAIN t.value
         /\ \A p : p \in DOMAIN t.value <=> IsPagePath(p) /\ \E n \in t.nodes : IsPrefix(p, n)
         /\ Root \notin t.nodes /\ Root \notin DOMAIN t.value
<1>1. t \in TreeType
  BY DEF TreeShape
<1>2. /\ t.nodes \in SUBSET Path /\ t.evictable_leaves \in SUBSET Path
      /\ t.evictable_size_ \in Int /\ t.protected_size_ \in Int
      /\ t.lock_ref \in UNION {[N -> Nat] : N \in SUBSET Path}
      /\ t.value \in UNION {[N -> Nat] : N \in SUBSET Path}
  BY <1>1 DEF TreeType
<1>3. t.lock_ref \in [DOMAIN t.lock_ref -> Nat] /\ t.value \in [DOMAIN t.value -> Nat]
  BY <1>2
<1>4. /\ IsFiniteSet(t.nodes) /\ DOMAIN t.lock_ref = t.nodes
      /\ DOMAIN t.value = PagePaths(t.nodes) /\ \A n \in t.nodes : IsPagePath(n)
  BY DEF TreeShape
<1>5. \A p : p \in DOMAIN t.value <=> IsPagePath(p) /\ \E n \in t.nodes : IsPrefix(p, n)
  BY <1>2, <1>4, PagePathFacts
<1>6. \A n \in t.nodes : n \in DOMAIN t.value
  BY <1>2, <1>4, <1>5, PrefixOrder
<1>7. ~IsPagePath(Root)
  BY DEF IsPagePath
<1> QED
  BY <1>2, <1>3, <1>4, <1>5, <1>6, <1>7

\* A node is the owner of its own path.
LEMMA NodeOwnsItself ==
  ASSUME NEW t, TreeShape(t), NEW n \in t.nodes
  PROVE  OwnedBy(t.nodes, n, n)
  BY ShapeFacts, PrefixOrder DEF OwnedBy

\* A page path has one owner.
LEMMA OneOwner ==
  ASSUME NEW t, TreeShape(t), NEW p, NEW c, NEW d, OwnedBy(t.nodes, p, c), OwnedBy(t.nodes, p, d)
  PROVE  c = d
<1>1. IsPrefix(c, d) /\ IsPrefix(d, c) /\ c \in Path /\ d \in Path
  BY ShapeFacts DEF OwnedBy
<1> QED
  BY <1>1, PrefixOrder

\* The longest page prefix of a key that the tree has a value for.
THEOREM MatchedFacts ==
  ASSUME NEW t, TreeShape(t), NEW key \in Path
  PROVE  /\ Matched(t, key) \in Path /\ Len(Matched(t, key)) % PageSize = 0
         /\ IsPrefix(Matched(t, key), key)
         /\ Matched(t, key) \in DOMAIN t.value \cup {Root}
         /\ \A p \in DOMAIN t.value : IsPrefix(p, key) => IsPrefix(p, Matched(t, key))
<1> DEFINE L == Len(key) \div PageSize
           S == {n \in 0..L : n = 0 \/ PagePrefix(key, n) \in DOMAIN t.value}
           k == Max(S)
<1>1. L \in Nat
  BY PageDivision DEF Path
<1>2. k \in S /\ \A y \in S : y =< k
  <2>1. S \in SUBSET (0..L) /\ S # {}
    BY <1>1
  <2> HIDE DEF S
  <2> QED
    BY <1>1, <2>1, LargestNatural
<1>3. Matched(t, key) = PagePrefix(key, k)
  BY DEF Matched
<1>4. k \in 0..L /\ (k = 0 \/ PagePrefix(key, k) \in DOMAIN t.value)
  BY <1>2
<1> HIDE DEF k
<1>5. /\ PagePrefix(key, k) \in Path /\ Len(PagePrefix(key, k)) = k * PageSize
      /\ Len(PagePrefix(key, k)) % PageSize = 0
      /\ IsPrefix(PagePrefix(key, k), key) /\ (PagePrefix(key, k) = Root <=> k = 0)
  BY <1>4, PagePrefixFacts
<1>6. ASSUME NEW p \in DOMAIN t.value, IsPrefix(p, key)
      PROVE  IsPrefix(p, PagePrefix(key, k))
  <2> DEFINE j == Len(p) \div PageSize
  <2>1. p \in Path /\ Len(p) % PageSize = 0
    BY ShapeFacts DEF IsPagePath
  <2>2. j \in 0..L /\ p = PagePrefix(key, j)
    BY <1>6, <2>1, AlignedPrefix
  <2>3. j \in S
    BY <2>2
  <2> HIDE DEF j
  <2>4. j =< k
    BY <1>2, <2>3
  <2>5. Len(p) = j * PageSize
    BY <2>2, PagePrefixFacts
  <2>6. Len(p) =< Len(PagePrefix(key, k))
    BY <1>1, <1>4, <1>5, <2>2, <2>4, <2>5, PageMonotone
  <2> QED
    BY <1>5, <1>6, <2>1, <2>6, PrefixOrder
<1> QED
  BY <1>3, <1>4, <1>5, <1>6

\* A key that ends in the tree is matched in full.
LEMMA MatchedAll ==
  ASSUME NEW t, TreeShape(t), NEW key \in Path, key \in DOMAIN t.value \cup {Root}
  PROVE  Matched(t, key) = key
<1>1. /\ Matched(t, key) \in Path /\ IsPrefix(Matched(t, key), key)
      /\ \A p \in DOMAIN t.value : IsPrefix(p, key) => IsPrefix(p, Matched(t, key))
  BY MatchedFacts
<1>2. IsPrefix(key, Matched(t, key))
  BY <1>1, PrefixOrder
<1>3. Len(key) =< Len(Matched(t, key))
  BY <1>1, <1>2, PrefixOrder
<1> QED
  BY <1>1, <1>3, PrefixOrder

\* The leaf set is what a walk would collect.
LeavesExact(t) ==
  t.evictable_leaves = {n \in t.nodes : t.lock_ref[n] = 0 /\ Descendants(t, n) = {}}

\* hold is the last_node of every request, and a lock_ref the number of those at or
\* below the node.
Locked(t, hold) ==
  /\ IsFiniteSet(DOMAIN hold)
  /\ \A r \in DOMAIN hold : hold[r] \in t.nodes \cup {Root}
  /\ \A n \in t.nodes :
       t.lock_ref[n] = Cardinality({r \in DOMAIN hold : IsPrefix(n, hold[r])})

-----------------------------------------------------------------------------
(* Sizes                                                                   *)

\* A one-to-one correspondence preserves size.
LEMMA SameSize ==
  ASSUME NEW S, IsFiniteSet(S), NEW T, NEW f \in [S -> T],
         \A x, y \in S : f[x] = f[y] => x = y,
         \A y \in T : \E x \in S : f[x] = y
  PROVE  IsFiniteSet(T) /\ Cardinality(T) = Cardinality(S)
<1>1. f \in Bijection(S, T)
  BY DEF Bijection, Injection, Surjection, IsInjective
<1>2. ExistsBijection(S, T)
  BY <1>1 DEF ExistsBijection
<1> QED
  BY <1>2, FS_Bijection

\* Where the edge of a node begins: the length of its parent.
Above(t, n) == Max({0} \cup {Len(m) : m \in Ancestors(t, n)})

\* The edge into a node begins where its closest ancestor ends.
LEMMA EdgeFacts ==
  ASSUME NEW t, TreeShape(t), NEW n \in t.nodes
  PROVE  /\ Above(t, n) \in Nat /\ Above(t, n) < Len(n) /\ Above(t, n) % PageSize = 0
         /\ \A m \in Ancestors(t, n) : Len(m) =< Above(t, n)
         /\ Above(t, n) = 0 \/ \E m \in Ancestors(t, n) : Len(m) = Above(t, n)
         /\ KeyLen(t, n) = Len(n) - Above(t, n) /\ KeyLen(t, n) \in Nat
         /\ Len(n) \in Nat /\ Len(n) - KeyLen(t, n) = Above(t, n)
<1> DEFINE S == {0} \cup {Len(m) : m \in Ancestors(t, n)}
<1>1. n \in Path /\ n # Root /\ Len(n) \in Nat /\ Len(n) # 0
  BY ShapeFacts, PrefixOrder DEF IsPagePath
<1>2. ASSUME NEW m \in Ancestors(t, n)
      PROVE  m \in Path /\ Len(m) \in Nat /\ Len(m) < Len(n) /\ Len(m) % PageSize = 0
  <2>1. m \in t.nodes /\ IsPrefix(m, n) /\ m # n
    BY DEF Ancestors, IsStrictPrefix
  <2>2. m \in Path /\ Len(m) % PageSize = 0
    BY <2>1, ShapeFacts DEF IsPagePath
  <2>3. Len(m) =< Len(n) /\ ~(Len(n) =< Len(m)) /\ Len(m) \in Nat
    BY <1>1, <2>1, <2>2, PrefixOrder
  <2> QED
    BY <1>1, <2>2, <2>3
<1>3. S \in SUBSET (0..Len(n)) /\ S # {}
  BY <1>1, <1>2
<1>4. Above(t, n) = Max(S)
  BY DEF Above
<1> HIDE DEF S
<1>5. Above(t, n) \in S /\ \A y \in S : y =< Above(t, n)
  BY <1>1, <1>3, <1>4, LargestNatural
<1>6. 0 % PageSize = 0
  BY PageSizeFacts
<1>7. KeyLen(t, n) = Len(n) - Above(t, n)
  BY DEF KeyLen, Above
<1>8. /\ Above(t, n) \in Nat /\ Above(t, n) < Len(n) /\ Above(t, n) % PageSize = 0
      /\ \A m \in Ancestors(t, n) : Len(m) =< Above(t, n)
      /\ Above(t, n) = 0 \/ \E m \in Ancestors(t, n) : Len(m) = Above(t, n)
  BY <1>1, <1>2, <1>5, <1>6 DEF S
<1> HIDE DEF Above
<1> QED
  BY <1>1, <1>7, <1>8

\* The values in the edges of S are those whose owner is in S.
LEMMA OwnedValues ==
  ASSUME NEW t, TreeShape(t), NEW S \in SUBSET t.nodes
  PROVE  \A p : p \in ValuesOf(t, S) <=>
                 p \in DOMAIN t.value /\ \E n \in S : OwnedBy(t.nodes, p, n)
<1>1. ASSUME NEW p \in DOMAIN t.value, NEW n \in S, OwnedBy(t.nodes, p, n)
      PROVE  IsPrefix(p, n) /\ Len(p) > Len(n) - KeyLen(t, n)
  <2>1. /\ p \in Path /\ p # Root /\ n \in t.nodes /\ n \in Path /\ IsPrefix(p, n)
        /\ \A m \in t.nodes : IsPrefix(p, m) => IsPrefix(n, m)
    BY <1>1, ShapeFacts DEF IsPagePath, OwnedBy
  <2>2. /\ Above(t, n) \in Nat /\ Len(n) - KeyLen(t, n) = Above(t, n)
        /\ Above(t, n) = 0 \/ \E m \in Ancestors(t, n) : Len(m) = Above(t, n)
    BY <2>1, EdgeFacts
  <2>3. CASE Above(t, n) = 0
    BY <2>1, <2>2, <2>3, PrefixOrder
  <2>4. ASSUME NEW m \in Ancestors(t, n), Len(m) = Above(t, n)
        PROVE  Len(p) > Above(t, n)
    <3>1. m \in t.nodes /\ m \in Path /\ IsPrefix(m, n) /\ m # n
      BY ShapeFacts DEF Ancestors, IsStrictPrefix
    <3>2. ~IsPrefix(p, m)
      <4>1. ~IsPrefix(n, m)
        <5>1. IsPrefix(n, m) => Len(n) =< Len(m)
          BY <2>1, <3>1, PrefixOrder
        <5> QED
          BY <2>1, <3>1, <5>1, PrefixOrder
      <4> QED
        BY <2>1, <3>1, <4>1
    <3>3. ~(Len(p) =< Len(m))
      BY <2>1, <3>1, <3>2, PrefixOrder
    <3>4. Len(p) \in Nat /\ Len(m) \in Nat
      BY <2>1, <3>1, PrefixOrder
    <3> QED
      BY <2>4, <3>3, <3>4
  <2> QED
    BY <2>1, <2>2, <2>3, <2>4
<1>2. ASSUME NEW p \in DOMAIN t.value, NEW n \in S, IsPrefix(p, n),
             Len(p) > Len(n) - KeyLen(t, n)
      PROVE  OwnedBy(t.nodes, p, n)
  <2>1. PICK c \in t.nodes : OwnedBy(t.nodes, p, c)
    BY DEF TreeShape
  <2>2. /\ p \in Path /\ n \in t.nodes /\ n \in Path /\ c \in Path
        /\ IsPrefix(p, c) /\ IsPrefix(c, n)
    BY <1>2, <2>1, ShapeFacts DEF IsPagePath, OwnedBy
  <2>3. /\ Above(t, n) \in Nat /\ Len(n) - KeyLen(t, n) = Above(t, n)
        /\ \A m \in Ancestors(t, n) : Len(m) =< Above(t, n)
    BY <2>2, EdgeFacts
  <2>4. Len(p) \in Nat /\ Len(c) \in Nat /\ Len(p) =< Len(c)
    BY <2>2, PrefixOrder
  <2>5. c = n
    <3>1. SUFFICES ASSUME c # n
                   PROVE  FALSE
      OBVIOUS
    <3>2. c \in Ancestors(t, n)
      BY <2>2, <3>1 DEF Ancestors, IsStrictPrefix
    <3>3. Len(c) =< Above(t, n)
      BY <2>3, <3>2
    <3> QED
      BY <1>2, <2>3, <2>4, <3>3
  <2> QED
    BY <2>1, <2>5
<1> QED
  BY <1>1, <1>2 DEF ValuesOf

\* An edge has as many tokens as its pages hold.
LEMMA EdgeSize ==
  ASSUME NEW t, TreeShape(t), NEW n \in t.nodes
  PROVE  /\ IsFiniteSet(ValuesOf(t, {n}))
         /\ KeyLen(t, n) = Cardinality(ValuesOf(t, {n})) * PageSize
<1> DEFINE a == Above(t, n) \div PageSize
           b == Len(n) \div PageSize
           I == (a + 1)..b
           f == [i \in I |-> PagePrefix(n, i)]
<1>1. /\ n \in Path /\ Len(n) \in Nat /\ Len(n) % PageSize = 0
      /\ Above(t, n) \in Nat /\ Above(t, n) < Len(n) /\ Above(t, n) % PageSize = 0
      /\ KeyLen(t, n) = Len(n) - Above(t, n) /\ Len(n) - KeyLen(t, n) = Above(t, n)
  BY EdgeFacts, ShapeFacts DEF IsPagePath
<1>2. /\ a \in Nat /\ b \in Nat /\ Above(t, n) = a * PageSize /\ Len(n) = b * PageSize
  BY <1>1, PageDivision
<1>3. a < b
  BY <1>1, <1>2, PageMonotone
<1>4. IsFiniteSet(I) /\ Cardinality(I) = b - a
  <2>1. a + 1 \in Int /\ b \in Int /\ ~(a + 1 > b) /\ b - (a + 1) + 1 = b - a
    BY <1>2, <1>3
  <2> QED
    BY <2>1, FS_Interval
<1>5. ASSUME NEW i \in I
      PROVE  /\ i \in 0..b /\ i \in Nat /\ PagePrefix(n, i) \in ValuesOf(t, {n})
             /\ Len(PagePrefix(n, i)) = i * PageSize
  <2>1. i \in 0..b /\ i \in Nat /\ a < i /\ i # 0
    BY <1>2
  <2>2. /\ PagePrefix(n, i) \in Path /\ Len(PagePrefix(n, i)) = i * PageSize
        /\ Len(PagePrefix(n, i)) % PageSize = 0
        /\ IsPrefix(PagePrefix(n, i), n) /\ PagePrefix(n, i) # Root
    BY <1>1, <2>1, PagePrefixFacts
  <2>3. PagePrefix(n, i) \in DOMAIN t.value
    BY <2>2, ShapeFacts DEF IsPagePath
  <2>4. i * PageSize > Above(t, n)
    <3>1. a * PageSize < i * PageSize
      BY <1>2, <2>1, PageMonotone
    <3> QED
      BY <1>1, <1>2, <2>1, <3>1, PageMultiple
  <2> QED
    BY <1>1, <2>1, <2>2, <2>3, <2>4 DEF ValuesOf
<1>6. ASSUME NEW p \in ValuesOf(t, {n})
      PROVE  \E i \in I : PagePrefix(n, i) = p
  <2>1. p \in DOMAIN t.value /\ IsPrefix(p, n) /\ Len(p) > Above(t, n)
    BY <1>1 DEF ValuesOf
  <2>2. p \in Path /\ Len(p) % PageSize = 0 /\ Len(p) \in Nat
    BY <2>1, ShapeFacts, PrefixOrder DEF IsPagePath
  <2> DEFINE i == Len(p) \div PageSize
  <2>3. i \in 0..b /\ p = PagePrefix(n, i) /\ i \in Nat /\ Len(p) = i * PageSize
    BY <1>1, <2>1, <2>2, AlignedPrefix, PageDivision
  <2>4. a * PageSize < i * PageSize
    BY <1>1, <1>2, <2>1, <2>2, <2>3
  <2> HIDE DEF i
  <2>5. a < i
    BY <1>2, <2>3, <2>4, PageMonotone
  <2>6. i \in I
    BY <1>2, <2>3, <2>5
  <2> QED
    BY <2>3, <2>6
<1>7. ASSUME NEW i \in I, NEW j \in I, PagePrefix(n, i) = PagePrefix(n, j)
      PROVE  i = j
  <2>1. i * PageSize = j * PageSize /\ i \in Nat /\ j \in Nat
    BY <1>5, <1>7
  <2> QED
    BY <2>1, PageMultiple
<1> HIDE DEF I, a, b
<1>8. IsFiniteSet(ValuesOf(t, {n})) /\ Cardinality(ValuesOf(t, {n})) = b - a
  <2>1. f \in [I -> ValuesOf(t, {n})]
    BY <1>5
  <2>2. \A x, y \in I : f[x] = f[y] => x = y
    BY <1>7
  <2>3. \A y \in ValuesOf(t, {n}) : \E x \in I : f[x] = y
    BY <1>6
  <2> HIDE DEF f
  <2> QED
    BY <1>4, <2>1, <2>2, <2>3, SameSize
<1>9. ASSUME NEW i \in Nat, NEW j \in Nat
      PROVE  j * PageSize - i * PageSize = (j - i) * PageSize
  BY PageSizeFacts
<1>10. Len(n) - Above(t, n) = (b - a) * PageSize
  BY <1>2, <1>9
<1> QED
  BY <1>1, <1>8, <1>10

\* The size of a set of nodes is the number of its pages.
LEMMA SizeIsPages ==
  ASSUME NEW t, TreeShape(t), NEW S \in SUBSET t.nodes
  PROVE  /\ IsFiniteSet(ValuesOf(t, S))
         /\ SizeOf(t, S) = Cardinality(ValuesOf(t, S)) * PageSize
         /\ SizeOf(t, S) \in Nat
<1> DEFINE w == [n \in t.nodes |-> KeyLen(t, n)]
           P == [n \in S |-> ValuesOf(t, {n}) \X (1..PageSize)]
           V == ValuesOf(t, S)
<1>1. IsFiniteSet(S)
  BY ShapeFacts, FS_Subset
<1>2. IsFiniteSet(1..PageSize) /\ Cardinality(1..PageSize) = PageSize
  <2>1. 1 \in Int /\ PageSize \in Int /\ ~(1 > PageSize) /\ PageSize - 1 + 1 = PageSize
    BY PageSizeFacts
  <2> QED
    BY <2>1, FS_Interval
<1>3. ASSUME NEW n \in S
      PROVE  IsFiniteSet(P[n]) /\ w[n] = Cardinality(P[n])
  <2>1. IsFiniteSet(ValuesOf(t, {n})) /\ KeyLen(t, n) = Cardinality(ValuesOf(t, {n})) * PageSize
    BY EdgeSize
  <2>2. /\ IsFiniteSet(ValuesOf(t, {n}) \X (1..PageSize))
        /\ Cardinality(ValuesOf(t, {n}) \X (1..PageSize))
             = Cardinality(ValuesOf(t, {n})) * PageSize
    BY <1>2, <2>1, FS_Product
  <2> QED
    BY <2>1, <2>2
<1>4. ASSUME NEW n \in S, NEW m \in S, n # m
      PROVE  P[n] \cap P[m] = {}
  <2>1. SUFFICES ASSUME NEW p \in ValuesOf(t, {n}), p \in ValuesOf(t, {m})
                 PROVE  FALSE
    OBVIOUS
  <2>2. OwnedBy(t.nodes, p, n) /\ OwnedBy(t.nodes, p, m)
    <3>1. {n} \in SUBSET t.nodes /\ {m} \in SUBSET t.nodes
      OBVIOUS
    <3> QED
      BY <2>1, <3>1, OwnedValues
  <2> QED
    BY <1>4, <2>2, OneOwner
<1>5. Disjoint(P, S)
  BY <1>3, <1>4 DEF Disjoint
<1>6. Members(P, S) = V \X (1..PageSize)
  <2>1. V = UNION {ValuesOf(t, {n}) : n \in S}
    BY DEF ValuesOf
  <2>2. Members(P, S) = UNION {ValuesOf(t, {n}) \X (1..PageSize) : n \in S}
    BY DEF Members
  <2> HIDE DEF V, P
  <2>3. ASSUME NEW x \in Members(P, S)
        PROVE  x \in V \X (1..PageSize)
    <3>1. PICK n \in S : x \in ValuesOf(t, {n}) \X (1..PageSize)
      BY <2>2
    <3>2. ValuesOf(t, {n}) \subseteq V
      BY <2>1
    <3> QED
      BY <3>1, <3>2
  <2>4. ASSUME NEW x \in V \X (1..PageSize)
        PROVE  x \in Members(P, S)
    <3>1. x[1] \in V
      OBVIOUS
    <3>2. PICK n \in S : x[1] \in ValuesOf(t, {n})
      BY <2>1, <3>1
    <3>3. x \in ValuesOf(t, {n}) \X (1..PageSize)
      BY <3>2
    <3> QED
      BY <2>2, <3>3
  <2> QED
    BY <2>3, <2>4
<1>7. IsFiniteSet(V)
  <2>1. IsFiniteSet(Members(P, S))
    <3>1. S \in SUBSET S
      OBVIOUS
    <3> HIDE DEF P
    <3> QED
      BY <1>1, <1>5, <3>1, CountFinite
  <2> DEFINE W == V \X {1}
  <2>2. W \in SUBSET Members(P, S)
    <3>1. 1 \in 1..PageSize
      BY PageSizeFacts
    <3> HIDE DEF P, V
    <3>2. W \in SUBSET (V \X (1..PageSize))
      BY <3>1
    <3> QED
      BY <1>6, <3>2
  <2>3. IsFiniteSet(W)
    BY <2>1, <2>2, FS_Subset
  <2> DEFINE f == [x \in W |-> x[1]]
  <2>4. f \in [W -> V]
    OBVIOUS
  <2>5. \A x, y \in W : f[x] = f[y] => x = y
    OBVIOUS
  <2>6. \A y \in V : \E x \in W : f[x] = y
    <3>1. ASSUME NEW y \in V
          PROVE  f[<<y, 1>>] = y /\ <<y, 1>> \in W
      OBVIOUS
    <3> QED
      BY <3>1
  <2> HIDE DEF f, W, V
  <2> QED
    BY <2>3, <2>4, <2>5, <2>6, SameSize
<1>8. Cardinality(V \X (1..PageSize)) = Cardinality(V) * PageSize
  BY <1>2, <1>7, FS_Product
<1>9. SumFunctionOnSet(w, S) = Count(P, S)
  <2>1. \A n \in S : w[n] = Cardinality(P[n])
    BY <1>3
  <2> HIDE DEF w, P
  <2> QED
    BY <1>1, <1>5, <2>1, SumIsCount
<1>10. SizeOf(t, S) = Cardinality(V) * PageSize
  BY <1>6, <1>8, <1>9 DEF SizeOf, Count
<1>11. Cardinality(V) \in Nat
  BY <1>7, FS_CardinalityType
<1> HIDE DEF V
<1>12. Cardinality(V) * PageSize \in Nat
  BY <1>11, PageMultiple
<1> QED
  BY <1>7, <1>10, <1>12 DEF V

\* The nodes that nobody holds, and the others.
Loose(t) == {n \in t.nodes : t.lock_ref[n] = 0}
Held(t) == {n \in t.nodes : t.lock_ref[n] > 0}

\* The two counters are what a walk would add up.
Sized(t) ==
  /\ t.evictable_size_ = SizeOf(t, Loose(t))
  /\ t.protected_size_ = SizeOf(t, Held(t))

TreeOK(t, hold) == TreeShape(t) /\ LeavesExact(t) /\ Sized(t) /\ Locked(t, hold)

\* Sizes depend on the nodes only.
LEMMA SameNodesSameSize ==
  ASSUME NEW t, NEW u, t.nodes = u.nodes, NEW S
  PROVE  SizeOf(t, S) = SizeOf(u, S)
<1>1. \A n : KeyLen(t, n) = KeyLen(u, n)
  BY DEF KeyLen, Ancestors
<1>2. [n \in t.nodes |-> KeyLen(t, n)] = [n \in u.nodes |-> KeyLen(u, n)]
  BY <1>1
<1> QED
  BY <1>2 DEF SizeOf

\* Sizes of disjoint sets of nodes add up.
LEMMA SizeUnion ==
  ASSUME NEW t, TreeShape(t), NEW S \in SUBSET t.nodes, NEW T \in SUBSET t.nodes,
         S \cap T = {}
  PROVE  /\ SizeOf(t, S \cup T) = SizeOf(t, S) + SizeOf(t, T)
         /\ SizeOf(t, S) \in Nat /\ SizeOf(t, T) \in Nat
<1> DEFINE A == ValuesOf(t, S)
           B == ValuesOf(t, T)
<1>1. ValuesOf(t, S \cup T) = A \cup B
  BY DEF ValuesOf
<1>2. A \cap B = {}
  <2>1. SUFFICES ASSUME NEW p \in A, p \in B
                 PROVE  FALSE
    OBVIOUS
  <2>2. /\ \E n \in S : OwnedBy(t.nodes, p, n)
        /\ \E n \in T : OwnedBy(t.nodes, p, n)
    BY <2>1, OwnedValues
  <2> QED
    BY <2>2, OneOwner
<1>3. /\ IsFiniteSet(A) /\ SizeOf(t, S) = Cardinality(A) * PageSize /\ SizeOf(t, S) \in Nat
      /\ IsFiniteSet(B) /\ SizeOf(t, T) = Cardinality(B) * PageSize /\ SizeOf(t, T) \in Nat
      /\ SizeOf(t, S \cup T) = Cardinality(A \cup B) * PageSize
  <2>1. S \cup T \in SUBSET t.nodes
    OBVIOUS
  <2>2. IsFiniteSet(A) /\ SizeOf(t, S) = Cardinality(A) * PageSize /\ SizeOf(t, S) \in Nat
    BY SizeIsPages
  <2>3. IsFiniteSet(B) /\ SizeOf(t, T) = Cardinality(B) * PageSize /\ SizeOf(t, T) \in Nat
    BY SizeIsPages
  <2>4. SizeOf(t, S \cup T) = Cardinality(ValuesOf(t, S \cup T)) * PageSize
    BY <2>1, SizeIsPages
  <2> HIDE DEF A, B
  <2> QED
    BY <1>1, <2>2, <2>3, <2>4
<1> HIDE DEF A, B
<1>4. Cardinality(A) \in Nat /\ Cardinality(B) \in Nat /\ Cardinality({}) = 0
  BY <1>3, FS_CardinalityType, FS_EmptySet
<1>5. Cardinality(A \cup B) = Cardinality(A) + Cardinality(B)
  <2>1. Cardinality(A \cup B) = Cardinality(A) + Cardinality(B) - Cardinality(A \cap B)
    BY <1>3, FS_Union
  <2>2. Cardinality(A \cap B) = 0
    BY <1>2, <1>4, Zenon
  <2> QED
    BY <1>4, <2>1, <2>2
<1>6. ASSUME NEW i \in Nat, NEW j \in Nat
      PROVE  (i + j) * PageSize = i * PageSize + j * PageSize
  BY PageSizeFacts
<1> QED
  BY <1>3, <1>4, <1>5, <1>6

-----------------------------------------------------------------------------
(* SplitNode                                                               *)

\* What _split_node writes: the new node takes over the lock of its child.
LEMMA SplitFields ==
  ASSUME NEW t, TreeShape(t), NEW p \in DOMAIN t.value, p \notin t.nodes,
         NEW c, OwnedBy(t.nodes, p, c)
  PROVE  /\ SplitNode(t, p) \in TreeType
         /\ SplitNode(t, p).nodes = t.nodes \cup {p}
         /\ SplitNode(t, p).lock_ref
              = [n \in t.nodes \cup {p} |-> IF n = p THEN t.lock_ref[c] ELSE t.lock_ref[n]]
         /\ SplitNode(t, p).value = t.value
         /\ SplitNode(t, p).evictable_size_ = t.evictable_size_
         /\ SplitNode(t, p).protected_size_ = t.protected_size_
         /\ SplitNode(t, p).evictable_leaves = t.evictable_leaves
<1>1. /\ t \in TreeType /\ t.nodes \in SUBSET Path /\ p \in Path /\ p # Root
      /\ t.lock_ref \in [t.nodes -> Nat]
  BY ShapeFacts DEF TreeShape, IsPagePath
<1>2. c \in t.nodes /\ c \in Path /\ c # p /\ IsPrefix(p, c)
  BY <1>1 DEF OwnedBy
<1> DEFINE child == CHOOSE n \in Descendants(t, p) :
                      \A m \in Descendants(t, p) : Len(n) =< Len(m)
<1>3. child = c
  <2>1. c \in Descendants(t, p)
    BY <1>2 DEF Descendants, IsStrictPrefix
  <2>2. ASSUME NEW m \in Descendants(t, p)
        PROVE  m \in Path /\ IsPrefix(c, m) /\ Len(c) =< Len(m)
    <3>1. m \in t.nodes /\ IsPrefix(p, m)
      BY DEF Descendants, IsStrictPrefix
    <3>2. IsPrefix(c, m) /\ m \in Path
      BY <1>1, <3>1 DEF OwnedBy
    <3> QED
      BY <1>2, <3>2, PrefixOrder
  <2>3. child \in Descendants(t, p) /\ \A m \in Descendants(t, p) : Len(child) =< Len(m)
    BY <2>1, <2>2
  <2> HIDE DEF child
  <2>4. Len(child) =< Len(c) /\ child \in Path /\ IsPrefix(c, child)
    BY <2>1, <2>2, <2>3
  <2> QED
    BY <1>2, <2>4, PrefixOrder
<1>4. SplitNode(t, p) = [t EXCEPT !.nodes = @ \cup {p},
                                  !.lock_ref = With(@, p, t.lock_ref[child])]
  BY <1>1, Zenon DEF SplitNode
<1> HIDE DEF child
<1> DEFINE lr == With(t.lock_ref, p, t.lock_ref[c])
<1>5. SplitNode(t, p) = [t EXCEPT !.nodes = t.nodes \cup {p}, !.lock_ref = lr]
  BY <1>3, <1>4
<1>6. lr = [n \in t.nodes \cup {p} |-> IF n = p THEN t.lock_ref[c] ELSE t.lock_ref[n]]
  BY <1>1 DEF With
<1>7. lr \in [t.nodes \cup {p} -> Nat] /\ t.nodes \cup {p} \in SUBSET Path
  BY <1>1, <1>2, <1>6
<1>8. lr \in UNION {[N -> Nat] : N \in SUBSET Path}
  BY <1>7
<1> HIDE DEF lr
<1> QED
  BY <1>1, <1>5, <1>6, <1>7, <1>8 DEF TreeType

\* A split adds a node above its owner; values, and who owns what is locked, stay.
LEMMA SplitShape ==
  ASSUME NEW t, TreeShape(t), NEW p \in DOMAIN t.value \cup {Root}
  PROVE  /\ TreeShape(SplitNode(t, p))
         /\ p \in SplitNode(t, p).nodes \cup {Root}
         /\ t.nodes \subseteq SplitNode(t, p).nodes
         /\ SplitNode(t, p).value = t.value
         /\ LeavesExact(t) => LeavesExact(SplitNode(t, p))
         /\ \A hold : Locked(t, hold) => Locked(SplitNode(t, p), hold)
<1>1. CASE p = Root \/ p \in t.nodes
  <2>1. SplitNode(t, p) = t
    BY <1>1, Zenon DEF SplitNode
  <2> QED
    BY <1>1, <2>1
<1>2. CASE ~(p = Root \/ p \in t.nodes)
  <2>1. p \in DOMAIN t.value /\ p \notin t.nodes /\ IsPagePath(p) /\ p \in Path
    BY <1>2, ShapeFacts DEF IsPagePath
  <2>2. PICK c \in t.nodes : OwnedBy(t.nodes, p, c)
    BY <2>1 DEF TreeShape
  <2> DEFINE u == SplitNode(t, p)
  <2>3. /\ u \in TreeType /\ u.nodes = t.nodes \cup {p}
        /\ u.lock_ref
              = [n \in t.nodes \cup {p} |-> IF n = p THEN t.lock_ref[c] ELSE t.lock_ref[n]]
        /\ u.value = t.value /\ u.evictable_leaves = t.evictable_leaves
    BY <2>1, <2>2, SplitFields
  <2>4. /\ t.nodes \in SUBSET Path /\ c \in Path /\ IsPrefix(p, c) /\ c # p
        /\ \A n \in t.nodes : IsPrefix(p, n) => IsPrefix(c, n)
    BY <2>1, <2>2, ShapeFacts DEF OwnedBy
  <2> HIDE DEF u
  <2>5. TreeShape(u)
    <3>1. IsFiniteSet(u.nodes)
      BY <2>3, ShapeFacts, FS_AddElement
    <3>2. \A n \in u.nodes : IsPagePath(n)
      BY <2>1, <2>3, ShapeFacts
    <3>3. DOMAIN u.value = PagePaths(u.nodes)
      <4>1. \A x : x \in PagePaths(u.nodes)
                     <=> IsPagePath(x) /\ \E n \in u.nodes : IsPrefix(x, n)
        <5>1. u.nodes \in SUBSET Path
          BY <2>1, <2>3, <2>4
        <5> QED
          BY <5>1, PagePathFacts
      <4>2. ASSUME NEW x, IsPagePath(x), IsPrefix(x, p)
            PROVE  IsPrefix(x, c)
        BY <2>1, <2>4, <4>2, PrefixOrder DEF IsPagePath
      <4> HIDE DEF IsPagePath
      <4>a. \A x : x \in DOMAIN t.value <=> IsPagePath(x) /\ \E n \in t.nodes : IsPrefix(x, n)
        BY ShapeFacts
      <4>3. ASSUME NEW x
            PROVE  x \in PagePaths(u.nodes) <=> x \in DOMAIN t.value
        <5>1. (\E n \in u.nodes : IsPrefix(x, n))
                <=> IsPrefix(x, p) \/ \E n \in t.nodes : IsPrefix(x, n)
          BY <2>3
        <5>2. IsPagePath(x) /\ IsPrefix(x, p) => \E n \in t.nodes : IsPrefix(x, n)
          BY <2>2, <4>2
        <5> QED
          BY <4>1, <4>a, <5>1, <5>2
      <4> QED
        BY <2>3, <4>3
    <3>4. ASSUME NEW x \in DOMAIN u.value
          PROVE  \E d \in u.nodes : OwnedBy(u.nodes, x, d)
      <4>1. x \in DOMAIN t.value /\ x \in Path
        BY <2>3, ShapeFacts DEF IsPagePath
      <4>2. PICK d \in t.nodes : OwnedBy(t.nodes, x, d)
        BY <4>1 DEF TreeShape
      <4>3. d \in Path /\ IsPrefix(x, d) /\ \A n \in t.nodes : IsPrefix(x, n) => IsPrefix(d, n)
        BY <2>4, <4>2 DEF OwnedBy
      <4>4. CASE ~IsPrefix(x, p) \/ IsPrefix(d, p)
        BY <2>3, <4>2, <4>3, <4>4 DEF OwnedBy
      <4>5. CASE IsPrefix(x, p) /\ ~IsPrefix(d, p)
        <5>1. IsPrefix(x, c)
          BY <2>1, <2>4, <4>1, <4>5, PrefixOrder
        <5>2. IsPrefix(d, c)
          BY <2>2, <4>3, <5>1
        <5>3. IsPrefix(p, d)
          <6>1. ~(Len(d) =< Len(p))
            BY <2>1, <2>4, <4>3, <4>5, <5>2, PrefixOrder
          <6>2. Len(p) =< Len(d)
            BY <2>1, <4>3, <6>1, PrefixOrder
          <6> QED
            BY <2>1, <2>4, <4>3, <5>2, <6>2, PrefixOrder
        <5>4. ASSUME NEW n \in u.nodes, IsPrefix(x, n)
              PROVE  IsPrefix(p, n)
          <6>1. CASE n = p
            BY <2>1, <6>1, PrefixOrder
          <6>2. CASE n \in t.nodes
            <7>1. IsPrefix(d, n) /\ n \in Path
              BY <2>4, <4>3, <5>4, <6>2
            <7> QED
              BY <2>1, <4>3, <5>3, <7>1, PrefixOrder
          <6> QED
            BY <2>3, <6>1, <6>2
        <5>5. p \in u.nodes
          BY <2>3
        <5>6. OwnedBy(u.nodes, x, p)
          BY <4>5, <5>4, <5>5 DEF OwnedBy
        <5> QED
          BY <5>5, <5>6
      <4> QED
        BY <4>4, <4>5
    <3>5. DOMAIN u.lock_ref = u.nodes
      BY <2>3
    <3> QED
      BY <2>3, <3>1, <3>2, <3>3, <3>4, <3>5 DEF TreeShape
  <2>6. ASSUME LeavesExact(t)
        PROVE  LeavesExact(u)
    <3>1. c \in Descendants(u, p)
      BY <2>2, <2>3, <2>4 DEF Descendants, IsStrictPrefix
    <3>2. ASSUME NEW n \in t.nodes
          PROVE  Descendants(u, n) = {} <=> Descendants(t, n) = {}
      <4>1. Descendants(t, n) \subseteq Descendants(u, n)
        BY <2>3 DEF Descendants
      <4>2. ASSUME NEW m \in Descendants(u, n), m \notin Descendants(t, n)
            PROVE  c \in Descendants(t, n)
        <5>1. m = p /\ IsPrefix(n, p) /\ n # p
          BY <2>3, <4>2 DEF Descendants, IsStrictPrefix
        <5>2. IsPrefix(n, c) /\ n \in Path
          BY <2>1, <2>4, <5>1, PrefixOrder
        <5>3. n # c
          <6>1. SUFFICES ASSUME n = c
                         PROVE  FALSE
            OBVIOUS
          <6>2. Len(c) =< Len(p)
            BY <2>1, <2>4, <5>1, <6>1, PrefixOrder
          <6> QED
            BY <2>1, <2>4, <6>2, PrefixOrder
        <5> QED
          BY <2>2, <5>2, <5>3 DEF Descendants, IsStrictPrefix
      <4> QED
        BY <4>1, <4>2
    <3>3. \A n \in t.nodes : u.lock_ref[n] = t.lock_ref[n]
      BY <2>1, <2>3
    <3> QED
      BY <2>1, <2>3, <2>6, <3>1, <3>2, <3>3 DEF LeavesExact
  <2>7. ASSUME NEW hold, Locked(t, hold)
        PROVE  Locked(u, hold)
    <3>1. \A r \in DOMAIN hold : IsPrefix(p, hold[r]) <=> IsPrefix(c, hold[r])
      <4>1. SUFFICES ASSUME NEW r \in DOMAIN hold
                     PROVE  IsPrefix(p, hold[r]) <=> IsPrefix(c, hold[r])
        OBVIOUS
      <4>2. hold[r] \in t.nodes \cup {Root}
        BY <2>7 DEF Locked
      <4>3. CASE hold[r] \in t.nodes
        <5>1. hold[r] \in Path
          BY <2>4, <4>3
        <5> QED
          BY <2>1, <2>4, <4>3, <5>1, PrefixOrder
      <4>4. CASE hold[r] = Root
        <5>1. ASSUME NEW x \in Path, IsPrefix(x, Root)
              PROVE  x = Root
          <6>1. Root \in Path /\ Len(Root) =< Len(x)
            BY PrefixOrder DEF Root
          <6> QED
            BY <5>1, <6>1, PrefixOrder
        <5>2. p # Root /\ c # Root
          BY <2>1, <2>2, ShapeFacts DEF IsPagePath
        <5> QED
          BY <2>1, <2>4, <4>4, <5>1, <5>2
      <4> QED
        BY <4>2, <4>3, <4>4
    <3>2. {r \in DOMAIN hold : IsPrefix(p, hold[r])} = {r \in DOMAIN hold : IsPrefix(c, hold[r])}
      BY <3>1
    <3>3. ASSUME NEW n \in u.nodes
          PROVE  u.lock_ref[n] = Cardinality({r \in DOMAIN hold : IsPrefix(n, hold[r])})
      <4>1. CASE n = p
        <5>1. u.lock_ref[n] = t.lock_ref[c]
          BY <2>3, <4>1
        <5>2. t.lock_ref[c] = Cardinality({r \in DOMAIN hold : IsPrefix(c, hold[r])})
          BY <2>2, <2>7 DEF Locked
        <5> QED
          BY <3>2, <4>1, <5>1, <5>2
      <4>2. CASE n \in t.nodes
        <5>1. u.lock_ref[n] = t.lock_ref[n]
          BY <2>1, <2>3, <4>2
        <5> QED
          BY <2>7, <4>2, <5>1 DEF Locked
      <4> QED
        BY <2>3, <4>1, <4>2
    <3> QED
      BY <2>3, <2>7, <3>3 DEF Locked
  <2> QED
    BY <2>3, <2>5, <2>6, <2>7 DEF u
<1> QED
  BY <1>1, <1>2

\* A split keeps both sizes: the page of a node that is cut keeps its lock count.
LEMMA SplitSized ==
  ASSUME NEW t, TreeShape(t), Sized(t), NEW p \in DOMAIN t.value \cup {Root}
  PROVE  Sized(SplitNode(t, p))
<1>1. CASE p = Root \/ p \in t.nodes
  <2>1. SplitNode(t, p) = t
    BY <1>1, Zenon DEF SplitNode
  <2> QED
    BY <2>1
<1>2. CASE ~(p = Root \/ p \in t.nodes)
  <2> DEFINE u == SplitNode(t, p)
  <2>1. p \in DOMAIN t.value /\ p \notin t.nodes /\ IsPagePath(p) /\ p \in Path
    BY <1>2, ShapeFacts DEF IsPagePath
  <2>2. PICK c \in t.nodes : OwnedBy(t.nodes, p, c)
    BY <2>1 DEF TreeShape
  <2>3. /\ u.nodes = t.nodes \cup {p}
        /\ u.lock_ref
              = [n \in t.nodes \cup {p} |-> IF n = p THEN t.lock_ref[c] ELSE t.lock_ref[n]]
        /\ u.value = t.value
        /\ u.evictable_size_ = t.evictable_size_ /\ u.protected_size_ = t.protected_size_
    BY <2>1, <2>2, SplitFields
  <2>4. TreeShape(u)
    BY SplitShape
  <2>5. /\ t.nodes \in SUBSET Path /\ c \in Path /\ IsPrefix(p, c)
        /\ \A n \in t.nodes : IsPrefix(p, n) => IsPrefix(c, n)
    BY <2>2, ShapeFacts DEF OwnedBy
  <2> HIDE DEF u
  <2>6. ASSUME NEW x \in DOMAIN t.value, NEW d, OwnedBy(t.nodes, x, d),
               NEW e, OwnedBy(u.nodes, x, e)
        PROVE  d \in t.nodes /\ e \in u.nodes /\ u.lock_ref[e] = t.lock_ref[d]
    <3>1. /\ x \in Path /\ d \in t.nodes /\ d \in Path /\ e \in u.nodes
          /\ IsPrefix(x, d) /\ IsPrefix(x, e) /\ IsPrefix(e, d)
          /\ \A n \in t.nodes : IsPrefix(x, n) => IsPrefix(d, n)
      BY <2>3, <2>5, <2>6, ShapeFacts DEF OwnedBy, IsPagePath
    <3>2. CASE e \in t.nodes
      <4>1. IsPrefix(d, e) /\ e \in Path
        BY <2>5, <3>1, <3>2
      <4>2. e = d
        BY <3>1, <4>1, PrefixOrder
      <4> QED
        BY <2>1, <2>3, <3>1, <3>2, <4>2
    <3>3. CASE e = p
      <4>1. IsPrefix(c, d)
        BY <2>5, <3>1, <3>3
      <4>2. IsPrefix(x, c)
        BY <2>1, <2>5, <3>1, <3>3, PrefixOrder
      <4>3. IsPrefix(d, c)
        BY <2>2, <3>1, <4>2
      <4>4. d = c
        BY <2>5, <3>1, <4>1, <4>3, PrefixOrder
      <4> QED
        BY <2>3, <3>1, <3>3, <4>4
    <3> QED
      BY <2>3, <3>1, <3>2, <3>3
  <2>7. \A x \in DOMAIN t.value : /\ \E d \in t.nodes : OwnedBy(t.nodes, x, d)
                                  /\ \E e \in u.nodes : OwnedBy(u.nodes, x, e)
    BY <2>3, <2>4 DEF TreeShape
  <2>8. Loose(t) \in SUBSET t.nodes /\ Loose(u) \in SUBSET u.nodes
        /\ Held(t) \in SUBSET t.nodes /\ Held(u) \in SUBSET u.nodes
    BY DEF Loose, Held
  <2>9. /\ \A x : x \in ValuesOf(t, Loose(t)) <=>
                   x \in DOMAIN t.value /\ \E n \in Loose(t) : OwnedBy(t.nodes, x, n)
        /\ \A x : x \in ValuesOf(u, Loose(u)) <=>
                   x \in DOMAIN u.value /\ \E n \in Loose(u) : OwnedBy(u.nodes, x, n)
        /\ \A x : x \in ValuesOf(t, Held(t)) <=>
                   x \in DOMAIN t.value /\ \E n \in Held(t) : OwnedBy(t.nodes, x, n)
        /\ \A x : x \in ValuesOf(u, Held(u)) <=>
                   x \in DOMAIN u.value /\ \E n \in Held(u) : OwnedBy(u.nodes, x, n)
    BY <2>4, <2>8, OwnedValues
  <2>10. ASSUME NEW x \in DOMAIN t.value
         PROVE  /\ (\E n \in Loose(t) : OwnedBy(t.nodes, x, n))
                      <=> (\E n \in Loose(u) : OwnedBy(u.nodes, x, n))
                /\ (\E n \in Held(t) : OwnedBy(t.nodes, x, n))
                      <=> (\E n \in Held(u) : OwnedBy(u.nodes, x, n))
    <3>1. PICK d \in t.nodes : OwnedBy(t.nodes, x, d)
      BY <2>7
    <3>2. PICK e \in u.nodes : OwnedBy(u.nodes, x, e)
      BY <2>7
    <3>3. u.lock_ref[e] = t.lock_ref[d]
      BY <2>6, <3>1, <3>2
    <3>4. /\ \A n \in t.nodes : OwnedBy(t.nodes, x, n) => n = d
          /\ \A n \in u.nodes : OwnedBy(u.nodes, x, n) => n = e
      BY <2>4, <3>1, <3>2, OneOwner
    <3> QED
      BY <3>1, <3>2, <3>3, <3>4 DEF Loose, Held
  <2>11. /\ ValuesOf(t, Loose(t)) = ValuesOf(u, Loose(u))
         /\ ValuesOf(t, Held(t)) = ValuesOf(u, Held(u))
    BY <2>3, <2>9, <2>10
  <2>12. /\ SizeOf(t, Loose(t)) = SizeOf(u, Loose(u))
         /\ SizeOf(t, Held(t)) = SizeOf(u, Held(u))
    BY <2>4, <2>8, <2>11, SizeIsPages
  <2> QED
    BY <2>3, <2>12 DEF Sized, u
<1> QED
  BY <1>1, <1>2

\* _split_node keeps the tree whoever holds it: the cut node takes over the lock of the
\* node it was cut from, and no value, counter or leaf changes.
THEOREM SplitOK ==
  ASSUME NEW t, NEW hold, TreeOK(t, hold), NEW p \in DOMAIN t.value \cup {Root}
  PROVE  /\ TreeOK(SplitNode(t, p), hold)
         /\ SplitNode(t, p).value = t.value /\ t.nodes \subseteq SplitNode(t, p).nodes
         /\ p \in SplitNode(t, p).nodes \cup {Root}
<1>1. TreeShape(t)
  BY DEF TreeOK
<1>2. TreeOK(SplitNode(t, p), hold)
  BY SplitShape, SplitSized DEF TreeOK
<1>3. CASE p = Root \/ p \in t.nodes
  <2>1. SplitNode(t, p) = t
    BY <1>3, Zenon DEF SplitNode
  <2> QED
    BY <1>2, <1>3, <2>1
<1>4. CASE p # Root /\ p \notin t.nodes
  <2>1. PICK c \in t.nodes : OwnedBy(t.nodes, p, c)
    BY <1>1, <1>4 DEF TreeShape
  <2>2. SplitNode(t, p).nodes = t.nodes \cup {p} /\ SplitNode(t, p).value = t.value
    BY <1>1, <1>4, <2>1, SplitFields
  <2> QED
    BY <1>2, <2>2
<1> QED
  BY <1>3, <1>4

-----------------------------------------------------------------------------
(* IncLockRef and DecLockRef                                               *)

\* Nothing is above the root.
LEMMA OnlyRootAboveRoot ==
  ASSUME NEW x \in Path, IsPrefix(x, Root)
  PROVE  x = Root
<1>1. Root \in Path /\ Len(Root) =< Len(x)
  BY PrefixOrder DEF Root
<1> QED
  BY <1>1, PrefixOrder

\* Writing four of its fields keeps the type of a tree.
LEMMA TreeUpdate ==
  ASSUME NEW t \in TreeType, NEW lr \in UNION {[N -> Nat] : N \in SUBSET Path},
         NEW es \in Int, NEW ps \in Int, NEW lv \in SUBSET Path
  PROVE  [t EXCEPT !.lock_ref = lr, !.evictable_size_ = es, !.protected_size_ = ps,
                   !.evictable_leaves = lv] \in TreeType
<1> DEFINE LR == UNION {[N -> Nat] : N \in SUBSET Path}
<1>1. LR = UNION {[N -> Nat] : N \in SUBSET Path}
  OBVIOUS
<1> HIDE DEF LR
<1> QED
  BY <1>1 DEF TreeType

\* What inc_lock_ref writes.
LEMMA IncFields ==
  ASSUME NEW t, TreeShape(t), NEW n
  PROVE  LET u == IncLockRef(t, n)
             path == PathTo(t, n)
             delta == SizeOf(t, {m \in path : t.lock_ref[m] = 0})
         IN  /\ u \in TreeType /\ u.nodes = t.nodes /\ u.value = t.value
             /\ u.lock_ref = [m \in t.nodes |-> t.lock_ref[m] + IF m \in path THEN 1 ELSE 0]
             /\ u.evictable_leaves = t.evictable_leaves \ path
             /\ u.evictable_size_ = t.evictable_size_ - delta
             /\ u.protected_size_ = t.protected_size_ + delta
<1> DEFINE u == IncLockRef(t, n)
           path == PathTo(t, n)
           delta == SizeOf(t, {m \in path : t.lock_ref[m] = 0})
           lr == [m \in t.nodes |-> t.lock_ref[m] + IF m \in path THEN 1 ELSE 0]
<1>1. /\ t \in TreeType /\ DOMAIN t.lock_ref = t.nodes /\ t.nodes \in SUBSET Path
      /\ t.lock_ref \in [t.nodes -> Nat] /\ t.evictable_leaves \in SUBSET Path
      /\ t.evictable_size_ \in Int /\ t.protected_size_ \in Int
  BY ShapeFacts DEF TreeShape
<1>2. delta \in Nat
  <2>1. {m \in path : t.lock_ref[m] = 0} \in SUBSET t.nodes
    BY DEF PathTo
  <2> QED
    BY <2>1, SizeIsPages
<1>3. u = [t EXCEPT !.lock_ref = [m \in DOMAIN @ |-> @[m] + IF m \in path THEN 1 ELSE 0],
                    !.evictable_size_ = @ - delta,
                    !.protected_size_ = @ + delta,
                    !.evictable_leaves = @ \ path]
  BY Zenon DEF IncLockRef
<1> HIDE DEF path, delta, u
<1>4. lr \in [t.nodes -> Nat]
  BY <1>1
<1>5. lr \in UNION {[N -> Nat] : N \in SUBSET Path}
  BY <1>1, <1>4
<1>6. [m \in DOMAIN t.lock_ref |-> t.lock_ref[m] + IF m \in path THEN 1 ELSE 0] = lr
  BY <1>1
<1> HIDE DEF lr
<1>7. u = [t EXCEPT !.lock_ref = lr,
                    !.evictable_size_ = t.evictable_size_ - delta,
                    !.protected_size_ = t.protected_size_ + delta,
                    !.evictable_leaves = t.evictable_leaves \ path]
  BY <1>3, <1>6
<1>8. /\ u.nodes = t.nodes /\ u.value = t.value /\ u.lock_ref = lr
      /\ u.evictable_leaves = t.evictable_leaves \ path
      /\ u.evictable_size_ = t.evictable_size_ - delta
      /\ u.protected_size_ = t.protected_size_ + delta
  BY <1>1, <1>7 DEF TreeType
<1>9. u \in TreeType
  <2>1. /\ t.evictable_size_ - delta \in Int /\ t.protected_size_ + delta \in Int
        /\ t.evictable_leaves \ path \in SUBSET Path
    BY <1>1, <1>2
  <2> QED
    BY <1>1, <1>5, <1>7, <2>1, TreeUpdate
<1> QED
  BY <1>8, <1>9 DEF u, path, delta, lr

\* What dec_lock_ref writes, on a path that is locked.
LEMMA DecFields ==
  ASSUME NEW t, TreeShape(t), NEW n, \A m \in PathTo(t, n) : t.lock_ref[m] > 0
  PROVE  LET u == DecLockRef(t, n)
             path == PathTo(t, n)
             loose == {m \in path : t.lock_ref[m] = 1}
             delta == SizeOf(t, loose)
         IN  /\ u \in TreeType /\ u.nodes = t.nodes /\ u.value = t.value
             /\ u.lock_ref = [m \in t.nodes |-> t.lock_ref[m] - IF m \in path THEN 1 ELSE 0]
             /\ u.evictable_leaves
                  = (t.evictable_leaves \ path) \cup {m \in loose : Descendants(t, m) = {}}
             /\ u.evictable_size_ = t.evictable_size_ + delta
             /\ u.protected_size_ = t.protected_size_ - delta
<1> DEFINE u == DecLockRef(t, n)
           path == PathTo(t, n)
           loose == {m \in path : t.lock_ref[m] = 1}
           delta == SizeOf(t, loose)
           lr == [m \in t.nodes |-> t.lock_ref[m] - IF m \in path THEN 1 ELSE 0]
           lv == (t.evictable_leaves \ path) \cup {m \in loose : Descendants(t, m) = {}}
<1>1. /\ t \in TreeType /\ DOMAIN t.lock_ref = t.nodes /\ t.nodes \in SUBSET Path
      /\ t.lock_ref \in [t.nodes -> Nat] /\ t.evictable_leaves \in SUBSET Path
      /\ t.evictable_size_ \in Int /\ t.protected_size_ \in Int
  BY ShapeFacts DEF TreeShape
<1>2. delta \in Nat /\ lv \in SUBSET Path
  <2>1. loose \in SUBSET t.nodes
    BY DEF PathTo
  <2> QED
    BY <1>1, <2>1, SizeIsPages
<1>3. u = [t EXCEPT !.lock_ref = [m \in DOMAIN @ |-> @[m] - IF m \in path THEN 1 ELSE 0],
                    !.evictable_size_ = @ + delta,
                    !.protected_size_ = @ - delta,
                    !.evictable_leaves =
                       (@ \ path) \cup {m \in loose : Descendants(t, m) = {}}]
  BY Zenon DEF DecLockRef
<1>4. lr \in [t.nodes -> Nat]
  <2>1. \A m \in path : t.lock_ref[m] > 0
    OBVIOUS
  <2> HIDE DEF path
  <2> QED
    BY <1>1, <2>1
<1> HIDE DEF path, delta, u, loose
<1>5. lr \in UNION {[N -> Nat] : N \in SUBSET Path}
  BY <1>1, <1>4
<1>6. [m \in DOMAIN t.lock_ref |-> t.lock_ref[m] - IF m \in path THEN 1 ELSE 0] = lr
  BY <1>1
<1> HIDE DEF lr
<1>7. u = [t EXCEPT !.lock_ref = lr,
                    !.evictable_size_ = t.evictable_size_ + delta,
                    !.protected_size_ = t.protected_size_ - delta,
                    !.evictable_leaves = lv]
  BY <1>3, <1>6
<1> HIDE DEF lv
<1>8. /\ u.nodes = t.nodes /\ u.value = t.value /\ u.lock_ref = lr
      /\ u.evictable_leaves = lv
      /\ u.evictable_size_ = t.evictable_size_ + delta
      /\ u.protected_size_ = t.protected_size_ - delta
  BY <1>1, <1>7 DEF TreeType
<1>9. u \in TreeType
  <2>1. t.evictable_size_ + delta \in Int /\ t.protected_size_ - delta \in Int
    BY <1>1, <1>2
  <2> QED
    BY <1>1, <1>2, <1>5, <1>7, <2>1, TreeUpdate
<1> QED
  BY <1>8, <1>9 DEF u, path, delta, lr, loose, lv

\* A change of lock_ref alone keeps the shape.
LEMMA RelockShape ==
  ASSUME NEW t, TreeShape(t), NEW u \in TreeType, u.nodes = t.nodes, u.value = t.value,
         DOMAIN u.lock_ref = t.nodes
  PROVE  /\ TreeShape(u)
         /\ \A m : Descendants(u, m) = Descendants(t, m)
         /\ \A S : SizeOf(u, S) = SizeOf(t, S)
<1>1. TreeShape(u)
  BY DEF TreeShape
<1>2. \A m : Descendants(u, m) = Descendants(t, m)
  BY DEF Descendants
<1>3. \A S : SizeOf(u, S) = SizeOf(t, S)
  BY SameNodesSameSize
<1> QED
  BY <1>1, <1>2, <1>3

\* inc_lock_ref gives the tree one more holder.
THEOREM IncOK ==
  ASSUME NEW t, NEW hold, TreeOK(t, hold), NEW r \in DOMAIN hold, hold[r] = Root,
         NEW n \in t.nodes \cup {Root}
  PROVE  /\ TreeOK(IncLockRef(t, n), [hold EXCEPT ![r] = n])
         /\ IncLockRef(t, n).nodes = t.nodes /\ IncLockRef(t, n).value = t.value
<1> DEFINE u == IncLockRef(t, n)
           path == PathTo(t, n)
           D == {m \in path : t.lock_ref[m] = 0}
           hold2 == [hold EXCEPT ![r] = n]
<1>1. TreeShape(t) /\ LeavesExact(t) /\ Sized(t) /\ Locked(t, hold)
  BY DEF TreeOK
<1>2. /\ t.nodes \in SUBSET Path /\ t.lock_ref \in [t.nodes -> Nat] /\ Root \notin t.nodes
      /\ t.evictable_size_ \in Int /\ t.protected_size_ \in Int
  BY <1>1, ShapeFacts
<1>3. /\ u \in TreeType /\ u.nodes = t.nodes /\ u.value = t.value
      /\ u.lock_ref = [m \in t.nodes |-> t.lock_ref[m] + IF m \in path THEN 1 ELSE 0]
      /\ u.evictable_leaves = t.evictable_leaves \ path
      /\ u.evictable_size_ = t.evictable_size_ - SizeOf(t, D)
      /\ u.protected_size_ = t.protected_size_ + SizeOf(t, D)
  BY <1>1, IncFields
<1>4. path \in SUBSET t.nodes /\ \A m \in t.nodes : m \in path <=> IsPrefix(m, n)
  BY DEF PathTo
<1>5. D \in SUBSET path /\ \A m \in path : m \in D <=> t.lock_ref[m] = 0
  OBVIOUS
<1> HIDE DEF u, path, D
<1>6. /\ TreeShape(u)
      /\ \A m : Descendants(u, m) = Descendants(t, m)
      /\ \A S : SizeOf(u, S) = SizeOf(t, S)
  BY <1>1, <1>3, RelockShape
<1>7. \A m \in t.nodes : /\ t.lock_ref[m] \in Nat
                         /\ m \in path => u.lock_ref[m] = t.lock_ref[m] + 1
                         /\ m \notin path => u.lock_ref[m] = t.lock_ref[m]
  BY <1>2, <1>3
<1>8. LeavesExact(u)
  <2>1. ASSUME NEW m
        PROVE  m \in u.evictable_leaves
                 <=> m \in u.nodes /\ u.lock_ref[m] = 0 /\ Descendants(u, m) = {}
    <3>1. m \in t.evictable_leaves
            <=> m \in t.nodes /\ t.lock_ref[m] = 0 /\ Descendants(t, m) = {}
      BY <1>1 DEF LeavesExact
    <3>2. CASE m \in path
      BY <1>3, <1>4, <1>7, <3>2
    <3>3. CASE m \notin path
      BY <1>3, <1>6, <1>7, <3>1, <3>3
    <3> QED
      BY <3>2, <3>3
  <2> QED
    BY <2>1 DEF LeavesExact
<1>9. Sized(u)
  <2>1. /\ Loose(t) \in SUBSET t.nodes /\ Held(t) \in SUBSET t.nodes
        /\ Loose(u) \in SUBSET t.nodes /\ Held(u) \in SUBSET t.nodes /\ D \in SUBSET t.nodes
    BY <1>3, <1>4, <1>5 DEF Loose, Held
  <2>2. Loose(t) = Loose(u) \cup D /\ Loose(u) \cap D = {}
    BY <1>3, <1>4, <1>5, <1>7 DEF Loose
  <2>3. Held(u) = Held(t) \cup D /\ Held(t) \cap D = {}
    BY <1>3, <1>4, <1>5, <1>7 DEF Held
  <2>4. /\ SizeOf(t, Loose(t)) = SizeOf(t, Loose(u)) + SizeOf(t, D)
        /\ SizeOf(t, Loose(u)) \in Nat /\ SizeOf(t, D) \in Nat
    <3>1. TreeShape(t) /\ Loose(u) \cap D = {}
      BY <1>1, <2>2
    <3>2. /\ SizeOf(t, Loose(u) \cup D) = SizeOf(t, Loose(u)) + SizeOf(t, D)
          /\ SizeOf(t, Loose(u)) \in Nat /\ SizeOf(t, D) \in Nat
      BY <2>1, <3>1, SizeUnion
    <3> QED
      BY <2>2, <3>2
  <2>5. /\ SizeOf(t, Held(u)) = SizeOf(t, Held(t)) + SizeOf(t, D)
        /\ SizeOf(t, Held(t)) \in Nat
    BY <1>1, <2>1, <2>3, SizeUnion
  <2>6. /\ t.evictable_size_ = SizeOf(t, Loose(t)) /\ t.protected_size_ = SizeOf(t, Held(t))
    BY <1>1 DEF Sized
  <2>7. /\ u.evictable_size_ = SizeOf(t, Loose(u)) /\ u.protected_size_ = SizeOf(t, Held(u))
    BY <1>3, <2>4, <2>5, <2>6
  <2> QED
    BY <1>6, <2>7 DEF Sized
<1>10. Locked(u, hold2)
  <2>1. /\ IsFiniteSet(DOMAIN hold) /\ DOMAIN hold2 = DOMAIN hold
        /\ \A x \in DOMAIN hold : hold[x] \in t.nodes \cup {Root}
        /\ \A m \in t.nodes :
             t.lock_ref[m] = Cardinality({x \in DOMAIN hold : IsPrefix(m, hold[x])})
    BY <1>1 DEF Locked
  <2>2. hold2[r] = n /\ \A x \in DOMAIN hold : x # r => hold2[x] = hold[x]
    BY <2>1
  <2> HIDE DEF hold2
  <2>3. ASSUME NEW m \in t.nodes
        PROVE  u.lock_ref[m] = Cardinality({x \in DOMAIN hold : IsPrefix(m, hold2[x])})
    <3> DEFINE A == {x \in DOMAIN hold : IsPrefix(m, hold[x])}
               B == {x \in DOMAIN hold : IsPrefix(m, hold2[x])}
    <3>1. ~IsPrefix(m, hold[r])
      BY <1>2, OnlyRootAboveRoot
    <3>2. CASE m \in path
      <4>1. B = A \cup {r} /\ r \notin A
        BY <1>4, <2>2, <3>1, <3>2
      <4>2. IsFiniteSet(A)
        BY <2>1, FS_Subset
      <4>3. Cardinality(A \cup {r}) = Cardinality(A) + 1
        <5> HIDE DEF A, B
        <5> QED
          BY <4>1, <4>2, FS_AddElement
      <4>4. t.lock_ref[m] = Cardinality(A)
        BY <2>1
      <4> HIDE DEF A, B
      <4>5. u.lock_ref[m] = Cardinality(B)
        BY <1>7, <3>2, <4>1, <4>3, <4>4
      <4> QED
        BY <4>5 DEF B
    <3>3. CASE m \notin path
      <4>1. A = B
        BY <1>4, <2>2, <3>1, <3>3
      <4>2. t.lock_ref[m] = Cardinality(A)
        BY <2>1
      <4> QED
        BY <1>7, <3>3, <4>1, <4>2
    <3> QED
      BY <3>2, <3>3
  <2>4. \A x \in DOMAIN hold : hold2[x] \in t.nodes \cup {Root}
    BY <2>1, <2>2
  <2> QED
    BY <1>3, <2>1, <2>3, <2>4 DEF Locked
<1> QED
  BY <1>3, <1>6, <1>8, <1>9, <1>10 DEF TreeOK, u

\* dec_lock_ref takes the holder away again.
THEOREM DecOK ==
  ASSUME NEW t, NEW hold, TreeOK(t, hold), NEW r \in DOMAIN hold
  PROVE  /\ TreeOK(DecLockRef(t, hold[r]), [hold EXCEPT ![r] = Root])
         /\ DecLockRef(t, hold[r]).nodes = t.nodes /\ DecLockRef(t, hold[r]).value = t.value
<1> DEFINE n == hold[r]
           u == DecLockRef(t, n)
           path == PathTo(t, n)
           D == {m \in path : t.lock_ref[m] = 1}
           hold2 == [hold EXCEPT ![r] = Root]
           locks(m) == {x \in DOMAIN hold : IsPrefix(m, hold[x])}
<1>1. TreeShape(t) /\ LeavesExact(t) /\ Sized(t) /\ Locked(t, hold)
  BY DEF TreeOK
<1>2. /\ t.nodes \in SUBSET Path /\ t.lock_ref \in [t.nodes -> Nat] /\ Root \notin t.nodes
      /\ t.evictable_size_ \in Int /\ t.protected_size_ \in Int
  BY <1>1, ShapeFacts
<1>3. /\ IsFiniteSet(DOMAIN hold) /\ DOMAIN hold2 = DOMAIN hold
      /\ \A x \in DOMAIN hold : hold[x] \in t.nodes \cup {Root}
      /\ \A m \in t.nodes : t.lock_ref[m] = Cardinality(locks(m))
  BY <1>1 DEF Locked
<1>4. path \in SUBSET t.nodes /\ \A m \in t.nodes : m \in path <=> IsPrefix(m, n)
  BY DEF PathTo
<1>5. ASSUME NEW m \in path
      PROVE  t.lock_ref[m] > 0
  <2>1. r \in locks(m) /\ IsFiniteSet(locks(m))
    BY <1>3, <1>4, FS_Subset
  <2> HIDE DEF locks
  <2>2. Cardinality(locks(m)) # 0 /\ Cardinality(locks(m)) \in Nat
    BY <2>1, FS_EmptySet, FS_CardinalityType
  <2>3. t.lock_ref[m] = Cardinality(locks(m))
    BY <1>3, <1>4
  <2> QED
    BY <2>2, <2>3
<1>6. /\ u \in TreeType /\ u.nodes = t.nodes /\ u.value = t.value
      /\ u.lock_ref = [m \in t.nodes |-> t.lock_ref[m] - IF m \in path THEN 1 ELSE 0]
      /\ u.evictable_leaves = (t.evictable_leaves \ path) \cup {m \in D : Descendants(t, m) = {}}
      /\ u.evictable_size_ = t.evictable_size_ + SizeOf(t, D)
      /\ u.protected_size_ = t.protected_size_ - SizeOf(t, D)
  BY <1>1, <1>5, DecFields
<1>7. D \in SUBSET path /\ \A m \in path : m \in D <=> t.lock_ref[m] = 1
  OBVIOUS
<1> HIDE DEF u, path, D
<1>8. /\ TreeShape(u)
      /\ \A m : Descendants(u, m) = Descendants(t, m)
      /\ \A S : SizeOf(u, S) = SizeOf(t, S)
  BY <1>1, <1>6, RelockShape
<1>9. \A m \in t.nodes : /\ t.lock_ref[m] \in Nat
                         /\ m \in path => u.lock_ref[m] = t.lock_ref[m] - 1
                         /\ m \notin path => u.lock_ref[m] = t.lock_ref[m]
  BY <1>2, <1>6
<1>10. LeavesExact(u)
  <2>1. ASSUME NEW m
        PROVE  m \in u.evictable_leaves
                 <=> m \in u.nodes /\ u.lock_ref[m] = 0 /\ Descendants(u, m) = {}
    <3>1. m \in t.evictable_leaves
            <=> m \in t.nodes /\ t.lock_ref[m] = 0 /\ Descendants(t, m) = {}
      BY <1>1 DEF LeavesExact
    <3>2. CASE m \in path
      <4>1. m \in t.nodes /\ t.lock_ref[m] \in Nat /\ u.lock_ref[m] = t.lock_ref[m] - 1
        BY <1>4, <1>9, <3>2
      <4>2. u.lock_ref[m] = 0 <=> m \in D
        BY <1>7, <3>2, <4>1
      <4> QED
        BY <1>6, <1>8, <3>2, <4>1, <4>2
    <3>3. CASE m \notin path
      BY <1>6, <1>7, <1>8, <1>9, <3>1, <3>3
    <3> QED
      BY <3>2, <3>3
  <2> QED
    BY <2>1 DEF LeavesExact
<1>11. Sized(u)
  <2>1. /\ Loose(t) \in SUBSET t.nodes /\ Held(t) \in SUBSET t.nodes
        /\ Loose(u) \in SUBSET t.nodes /\ Held(u) \in SUBSET t.nodes /\ D \in SUBSET t.nodes
    BY <1>4, <1>6, <1>7 DEF Loose, Held
  <2>2. Loose(u) = Loose(t) \cup D /\ Loose(t) \cap D = {}
    BY <1>4, <1>5, <1>6, <1>7, <1>9 DEF Loose
  <2>3. Held(t) = Held(u) \cup D /\ Held(u) \cap D = {}
    BY <1>4, <1>5, <1>6, <1>7, <1>9 DEF Held
  <2>4. /\ SizeOf(t, Loose(u)) = SizeOf(t, Loose(t)) + SizeOf(t, D)
        /\ SizeOf(t, Loose(t)) \in Nat /\ SizeOf(t, D) \in Nat
    <3>1. TreeShape(t) /\ Loose(t) \cap D = {}
      BY <1>1, <2>2
    <3>2. /\ SizeOf(t, Loose(t) \cup D) = SizeOf(t, Loose(t)) + SizeOf(t, D)
          /\ SizeOf(t, Loose(t)) \in Nat /\ SizeOf(t, D) \in Nat
      BY <2>1, <3>1, SizeUnion
    <3> QED
      BY <2>2, <3>2
  <2>5. /\ SizeOf(t, Held(t)) = SizeOf(t, Held(u)) + SizeOf(t, D)
        /\ SizeOf(t, Held(u)) \in Nat
    BY <1>1, <2>1, <2>3, SizeUnion
  <2>6. /\ t.evictable_size_ = SizeOf(t, Loose(t)) /\ t.protected_size_ = SizeOf(t, Held(t))
    BY <1>1 DEF Sized
  <2>7. /\ u.evictable_size_ = SizeOf(t, Loose(u)) /\ u.protected_size_ = SizeOf(t, Held(u))
    BY <1>6, <2>4, <2>5, <2>6
  <2> QED
    BY <1>8, <2>7 DEF Sized
<1>12. Locked(u, hold2)
  <2>1. hold2[r] = Root /\ \A x \in DOMAIN hold : x # r => hold2[x] = hold[x]
    BY <1>3
  <2> HIDE DEF hold2
  <2>2. ASSUME NEW m \in t.nodes
        PROVE  u.lock_ref[m] = Cardinality({x \in DOMAIN hold : IsPrefix(m, hold2[x])})
    <3> DEFINE A == locks(m)
               B == {x \in DOMAIN hold : IsPrefix(m, hold2[x])}
    <3>1. ~IsPrefix(m, Root)
      BY <1>2, OnlyRootAboveRoot
    <3>2. t.lock_ref[m] = Cardinality(A) /\ IsFiniteSet(A)
      BY <1>3, FS_Subset
    <3>3. CASE m \in path
      <4>1. B = A \ {r} /\ r \in A
        BY <1>4, <2>1, <3>1, <3>3
      <4> HIDE DEF A, B
      <4>2. Cardinality(A \ {r}) = Cardinality(A) - 1
        BY <3>2, <4>1, FS_RemoveElement
      <4>3. u.lock_ref[m] = Cardinality(B)
        BY <1>9, <3>2, <3>3, <4>1, <4>2
      <4> QED
        BY <4>3 DEF B
    <3>4. CASE m \notin path
      <4>1. A = B
        BY <1>4, <2>1, <3>1, <3>4
      <4> HIDE DEF A, B
      <4>2. u.lock_ref[m] = Cardinality(B)
        BY <1>9, <3>2, <3>4, <4>1
      <4> QED
        BY <4>2 DEF B
    <3> QED
      BY <3>3, <3>4
  <2>3. \A x \in DOMAIN hold : hold2[x] \in t.nodes \cup {Root}
    BY <1>3, <2>1
  <2> QED
    BY <1>3, <1>6, <2>2, <2>3 DEF Locked
<1> QED
  BY <1>6, <1>8, <1>10, <1>11, <1>12 DEF TreeOK, u

-----------------------------------------------------------------------------
(* Insert                                                                  *)

\* The tree with the part of key below m hung below m.
Hang(t, m, key, row) ==
  [t EXCEPT !.nodes = @ \cup {key},
            !.lock_ref = With(@, key, 0),
            !.value = [p \in DOMAIN @ \cup NewPaths(m, key) |->
                         IF p \in DOMAIN @ THEN @[p] ELSE row[Len(p) \div PageSize]],
            !.evictable_size_ = @ + Len(key) - Len(m)]

\* m is where key leaves the tree.
Leaves(t, m, key) ==
  /\ key \in Path /\ Len(key) % PageSize = 0
  /\ m \in t.nodes \cup {Root} /\ IsPrefix(m, key) /\ m # key
  /\ \A p \in DOMAIN t.value : IsPrefix(p, key) => IsPrefix(p, m)

\* The row has a page for every page of the key below m.
RowCovers(row, m, key) ==
  \A i \in (Len(m) \div PageSize + 1)..(Len(key) \div PageSize) : row[i] \in Nat

\* The page paths an insert of key below m creates.
LEMMA NewPathFacts ==
  ASSUME NEW m \in Path, Len(m) % PageSize = 0, NEW key \in Path
  PROVE  \A p : p \in NewPaths(m, key) <=>
                 IsPagePath(p) /\ IsPrefix(p, key) /\ Len(m) < Len(p)
<1> DEFINE a == Len(m) \div PageSize
           b == Len(key) \div PageSize
<1>1. /\ Len(m) \in Nat /\ Len(key) \in Nat /\ a \in Nat /\ b \in Nat
      /\ Len(m) = a * PageSize
  BY PageDivision DEF Path
<1>2. ASSUME NEW i \in (a + 1)..b
      PROVE  /\ IsPagePath(PagePrefix(key, i)) /\ IsPrefix(PagePrefix(key, i), key)
             /\ Len(m) < Len(PagePrefix(key, i))
  <2>1. i \in 0..b /\ i \in Nat /\ i # 0 /\ a < i
    BY <1>1
  <2>2. a * PageSize < i * PageSize
    BY <1>1, <2>1, PageMonotone
  <2> QED
    BY <1>1, <2>1, <2>2, PagePrefixFacts DEF IsPagePath
<1>3. ASSUME NEW p, IsPagePath(p), IsPrefix(p, key), Len(m) < Len(p)
      PROVE  \E i \in (a + 1)..b : p = PagePrefix(key, i)
  <2> DEFINE i == Len(p) \div PageSize
  <2>1. p \in Path /\ Len(p) % PageSize = 0 /\ Len(p) \in Nat
    BY <1>3, PrefixOrder DEF IsPagePath
  <2>2. i \in 0..b /\ p = PagePrefix(key, i) /\ i \in Nat /\ Len(p) = i * PageSize
    BY <1>3, <2>1, AlignedPrefix, PageDivision
  <2>3. a * PageSize < i * PageSize
    BY <1>1, <1>3, <2>1, <2>2
  <2> HIDE DEF i
  <2>4. a < i
    BY <1>1, <2>2, <2>3, PageMonotone
  <2>5. i \in (a + 1)..b
    BY <1>1, <2>2, <2>4
  <2> QED
    BY <2>2, <2>5
<1>4. NewPaths(m, key) = {PagePrefix(key, i) : i \in (a + 1)..b}
  BY DEF NewPaths
<1> HIDE DEF a, b
<1> QED
  BY <1>2, <1>3, <1>4

\* What the tail of _insert_helper writes.
LEMMA HangFields ==
  ASSUME NEW t, TreeShape(t), NEW m, NEW key, Leaves(t, m, key), NEW row,
         RowCovers(row, m, key)
  PROVE  LET u == Hang(t, m, key, row)
         IN  /\ u \in TreeType /\ u.nodes = t.nodes \cup {key}
             /\ DOMAIN u.lock_ref = t.nodes \cup {key} /\ u.lock_ref[key] = 0
             /\ \A n \in t.nodes : n # key => u.lock_ref[n] = t.lock_ref[n]
             /\ DOMAIN u.value = DOMAIN t.value \cup NewPaths(m, key)
             /\ \A p \in DOMAIN t.value : u.value[p] = t.value[p]
             /\ \A p \in NewPaths(m, key) \ DOMAIN t.value :
                  u.value[p] = row[Len(p) \div PageSize]
             /\ u.evictable_size_ = t.evictable_size_ + Len(key) - Len(m)
             /\ u.protected_size_ = t.protected_size_
             /\ u.evictable_leaves = t.evictable_leaves
<1> DEFINE u == Hang(t, m, key, row)
           lr == With(t.lock_ref, key, 0)
           val == [p \in DOMAIN t.value \cup NewPaths(m, key) |->
                     IF p \in DOMAIN t.value THEN t.value[p] ELSE row[Len(p) \div PageSize]]
           es == t.evictable_size_ + Len(key) - Len(m)
<1>1. /\ t \in TreeType /\ t.nodes \in SUBSET Path /\ t.lock_ref \in [t.nodes -> Nat]
      /\ t.value \in [DOMAIN t.value -> Nat] /\ DOMAIN t.value \in SUBSET Path
      /\ t.evictable_size_ \in Int
  BY ShapeFacts DEF TreeShape, IsPagePath
<1>2. /\ key \in Path /\ Len(key) \in Nat /\ m \in Path /\ Len(m) \in Nat
      /\ Len(m) % PageSize = 0
  <2>1. key \in Path /\ m \in t.nodes \cup {Root}
    BY DEF Leaves
  <2>2. m \in Path /\ Len(m) % PageSize = 0
    BY <2>1, ShapeFacts, RootFacts DEF IsPagePath
  <2> QED
    BY <2>1, <2>2, PrefixOrder
<1>3. lr = [n \in t.nodes \cup {key} |-> IF n = key THEN 0 ELSE t.lock_ref[n]]
  BY <1>1 DEF With
<1>4. lr \in [t.nodes \cup {key} -> Nat] /\ t.nodes \cup {key} \in SUBSET Path
  <2> HIDE DEF lr
  <2> QED
    BY <1>1, <1>2, <1>3
<1>5. ASSUME NEW p \in NewPaths(m, key)
      PROVE  p \in Path /\ row[Len(p) \div PageSize] \in Nat
  <2>1. PICK i \in (Len(m) \div PageSize + 1)..(Len(key) \div PageSize) :
               p = PagePrefix(key, i)
    BY DEF NewPaths
  <2>2. Len(m) \div PageSize \in Nat /\ Len(key) \div PageSize \in Nat
    BY <1>2, PageDivision
  <2>3. i \in 0..(Len(key) \div PageSize)
    BY <2>2
  <2>4. p \in Path /\ Len(p) \div PageSize = i
    BY <1>2, <2>1, <2>3, PagePrefixFacts
  <2> QED
    BY <2>1, <2>4 DEF RowCovers
<1>6. val \in [DOMAIN t.value \cup NewPaths(m, key) -> Nat]
      /\ DOMAIN t.value \cup NewPaths(m, key) \in SUBSET Path
  BY <1>1, <1>5
<1>7. es \in Int
  BY <1>1, <1>2
<1>8. u = [t EXCEPT !.nodes = t.nodes \cup {key}, !.lock_ref = lr, !.value = val,
                    !.evictable_size_ = es]
  BY DEF Hang
<1>9. /\ lr \in UNION {[N -> Nat] : N \in SUBSET Path}
      /\ val \in UNION {[N -> Nat] : N \in SUBSET Path}
  <2> HIDE DEF lr, val
  <2> QED
    BY <1>4, <1>6
<1>10. /\ DOMAIN val = DOMAIN t.value \cup NewPaths(m, key)
       /\ \A p \in DOMAIN t.value : val[p] = t.value[p]
       /\ \A p \in NewPaths(m, key) \ DOMAIN t.value : val[p] = row[Len(p) \div PageSize]
  OBVIOUS
<1>a. /\ DOMAIN lr = t.nodes \cup {key} /\ lr[key] = 0
      /\ \A n \in t.nodes : n # key => lr[n] = t.lock_ref[n]
  <2> HIDE DEF lr
  <2> QED
    BY <1>3
<1> HIDE DEF lr, val, es, u
<1>11. /\ u.nodes = t.nodes \cup {key} /\ u.lock_ref = lr /\ u.value = val
       /\ u.evictable_size_ = es /\ u.protected_size_ = t.protected_size_
       /\ u.evictable_leaves = t.evictable_leaves
  BY <1>1, <1>8 DEF TreeType
<1>12. u \in TreeType
  <2> DEFINE Fun == UNION {[N -> Nat] : N \in SUBSET Path}
             N2 == t.nodes \cup {key}
  <2>1. lr \in Fun /\ val \in Fun /\ N2 \in SUBSET Path
    BY <1>4, <1>9
  <2>2. TreeType = [nodes : SUBSET Path, lock_ref : Fun, value : Fun, evictable_size_ : Int,
                    protected_size_ : Int, evictable_leaves : SUBSET Path]
    BY DEF TreeType
  <2>3. u = [t EXCEPT !.nodes = N2, !.lock_ref = lr, !.value = val, !.evictable_size_ = es]
    BY <1>8
  <2> HIDE DEF Fun, N2
  <2> QED
    BY <1>1, <1>7, <2>1, <2>2, <2>3
<1> QED
  BY <1>a, <1>10, <1>11, <1>12 DEF u, es

\* What it means that key leaves the tree at m.
LEMMA LeavesFacts ==
  ASSUME NEW t, TreeShape(t), NEW m, NEW key, Leaves(t, m, key)
  PROVE  /\ m \in Path /\ Len(m) \in Nat /\ Len(m) % PageSize = 0 /\ IsPrefix(m, key)
         /\ key \in Path /\ Len(key) \in Nat /\ IsPagePath(key) /\ Len(m) < Len(key)
         /\ \A n \in t.nodes : ~IsPrefix(key, n)
         /\ \A n \in t.nodes : IsPrefix(n, key) => IsPrefix(n, m)
         /\ \A p \in DOMAIN t.value : IsPrefix(p, key) => IsPrefix(p, m) /\ m \in t.nodes
         /\ NewPaths(m, key) \cap DOMAIN t.value = {}
         /\ \A p : IsPagePath(p) /\ IsPrefix(p, key) <=>
                     p \in NewPaths(m, key) \/ (p \in DOMAIN t.value /\ IsPrefix(p, key))
<1>1. /\ key \in Path /\ Len(key) % PageSize = 0
      /\ m \in t.nodes \cup {Root} /\ IsPrefix(m, key) /\ m # key
      /\ \A p \in DOMAIN t.value : IsPrefix(p, key) => IsPrefix(p, m)
  BY DEF Leaves
<1>2. /\ t.nodes \in SUBSET Path /\ Root \notin DOMAIN t.value
      /\ \A n \in t.nodes : IsPagePath(n) /\ n \in DOMAIN t.value
      /\ \A p : p \in DOMAIN t.value <=> IsPagePath(p) /\ \E n \in t.nodes : IsPrefix(p, n)
  BY ShapeFacts
<1>3. m \in Path /\ Len(m) % PageSize = 0
  BY <1>1, <1>2, RootFacts DEF IsPagePath
<1>4. Len(m) \in Nat /\ Len(key) \in Nat /\ Len(m) < Len(key)
  BY <1>1, <1>3, PrefixOrder
<1>5. key # Root /\ IsPagePath(key)
  BY <1>1, <1>3, <1>4, PrefixOrder DEF IsPagePath
<1>6. ASSUME NEW p \in DOMAIN t.value, IsPrefix(p, key)
      PROVE  IsPrefix(p, m) /\ m \in t.nodes /\ Len(p) =< Len(m)
  <2>1. IsPrefix(p, m) /\ p \in Path /\ p # Root
    BY <1>1, <1>2, <1>6 DEF IsPagePath
  <2>2. m # Root
    BY <2>1, OnlyRootAboveRoot
  <2> QED
    BY <1>1, <1>3, <2>1, <2>2, PrefixOrder
<1>7. ASSUME NEW n \in t.nodes, IsPrefix(key, n)
      PROVE  FALSE
  <2>1. key \in DOMAIN t.value
    BY <1>2, <1>5, <1>7
  <2>2. IsPrefix(key, key)
    BY <1>1, PrefixOrder
  <2>3. Len(key) =< Len(m)
    BY <1>6, <2>1, <2>2
  <2> QED
    BY <1>4, <2>3
<1>8. \A p : p \in NewPaths(m, key) <=>
              IsPagePath(p) /\ IsPrefix(p, key) /\ Len(m) < Len(p)
  BY <1>1, <1>3, NewPathFacts
<1>9. NewPaths(m, key) \cap DOMAIN t.value = {}
  <2>1. ASSUME NEW p \in DOMAIN t.value, p \in NewPaths(m, key)
        PROVE  FALSE
    <3>1. IsPrefix(p, key) /\ Len(m) < Len(p) /\ p \in Path
      BY <1>2, <1>8, <2>1 DEF IsPagePath
    <3>2. Len(p) =< Len(m) /\ Len(p) \in Nat
      BY <1>6, <3>1, PrefixOrder
    <3> QED
      BY <1>4, <3>1, <3>2
  <2> QED
    BY <2>1
<1>10. ASSUME NEW p, IsPagePath(p), IsPrefix(p, key), p \notin NewPaths(m, key)
       PROVE  p \in DOMAIN t.value
  <2>1. p \in Path /\ p # Root /\ Len(p) \in Nat
    BY <1>10, PrefixOrder DEF IsPagePath
  <2>2. Len(p) =< Len(m)
    BY <1>4, <1>8, <1>10, <2>1
  <2>3. IsPrefix(p, m)
    BY <1>1, <1>3, <1>10, <2>1, <2>2, PrefixOrder
  <2>4. m # Root
    BY <2>1, <2>3, OnlyRootAboveRoot
  <2> QED
    BY <1>1, <1>2, <1>10, <2>3, <2>4
<1>11. \A p : IsPagePath(p) /\ IsPrefix(p, key) <=>
                p \in NewPaths(m, key) \/ (p \in DOMAIN t.value /\ IsPrefix(p, key))
  BY <1>2, <1>8, <1>10
<1> QED
  BY <1>1, <1>2, <1>3, <1>4, <1>5, <1>6, <1>7, <1>9, <1>11

\* The leaf set after the two _update_leaf_status calls: key is a leaf, m is not.
LEMMA HangLeafStatus ==
  ASSUME NEW t, TreeShape(t), LeavesExact(t), NEW m, NEW key, Leaves(t, m, key), NEW row,
         RowCovers(row, m, key)
  PROVE  LET h == Hang(t, m, key, row)
         IN  UpdateLeafStatus(UpdateLeafStatus(h, m), key)
               = [h EXCEPT !.evictable_leaves = (t.evictable_leaves \ {m}) \cup {key}]
<1> DEFINE h == Hang(t, m, key, row)
           h1 == UpdateLeafStatus(h, m)
           lv == t.evictable_leaves \ {m}
<1>1. /\ h \in TreeType /\ h.nodes = t.nodes \cup {key}
      /\ DOMAIN h.lock_ref = t.nodes \cup {key} /\ h.lock_ref[key] = 0
      /\ \A n \in t.nodes : n # key => h.lock_ref[n] = t.lock_ref[n]
      /\ h.evictable_leaves = t.evictable_leaves
  BY HangFields
<1>2. /\ m \in Path /\ IsPrefix(m, key) /\ m \in t.nodes \cup {Root} /\ m # key
      /\ key \in Path /\ key # Root /\ \A n \in t.nodes : ~IsPrefix(key, n)
  BY LeavesFacts DEF Leaves, IsPagePath
<1>3. Root \notin t.evictable_leaves
  BY ShapeFacts DEF LeavesExact
<1> HIDE DEF h
<1>4. key \in Descendants(h, m)
  BY <1>1, <1>2 DEF Descendants, IsStrictPrefix
<1>5. h1 = [h EXCEPT !.evictable_leaves = lv]
  <2>1. CASE m = Root
    <3>1. h1 = h
      BY <2>1 DEF UpdateLeafStatus
    <3>2. lv = h.evictable_leaves
      BY <1>1, <1>3, <2>1
    <3> HIDE DEF h1, lv
    <3> QED
      BY <1>1, <3>1, <3>2 DEF TreeType
  <2>2. CASE m # Root
    <3>1. h1 = [h EXCEPT !.evictable_leaves = h.evictable_leaves \ {m}]
      BY <1>4, <2>2 DEF UpdateLeafStatus
    <3> QED
      BY <1>1, <3>1
  <2> QED
    BY <2>1, <2>2
<1> HIDE DEF h1, lv
<1>6. /\ h1.nodes = h.nodes /\ h1.lock_ref = h.lock_ref /\ h1.evictable_leaves = lv
      /\ h1 = [h EXCEPT !.evictable_leaves = lv]
  BY <1>1, <1>5 DEF TreeType
<1>7. Descendants(h1, key) = {}
  BY <1>1, <1>2, <1>6 DEF Descendants, IsStrictPrefix
<1>8. h1.lock_ref[key] = 0
  BY <1>1, <1>6
<1>9. UpdateLeafStatus(h1, key)
        = [h1 EXCEPT !.evictable_leaves = h1.evictable_leaves \cup {key}]
  BY <1>2, <1>7, <1>8 DEF UpdateLeafStatus
<1>10. UpdateLeafStatus(h1, key) = [h1 EXCEPT !.evictable_leaves = lv \cup {key}]
  BY <1>6, <1>9
<1>11. [h1 EXCEPT !.evictable_leaves = lv \cup {key}]
         = [h EXCEPT !.evictable_leaves = lv \cup {key}]
  BY <1>1, <1>6 DEF TreeType
<1> QED
  BY <1>10, <1>11 DEF h1, h, lv

\* u is t and the node key below m.
Hung(t, m, key, u) ==
  /\ u \in TreeType
  /\ u.nodes = t.nodes \cup {key}
  /\ DOMAIN u.lock_ref = u.nodes
  /\ DOMAIN u.value = DOMAIN t.value \cup NewPaths(m, key)

\* A key hung below the place where it leaves the tree.
LEMMA HangShape ==
  ASSUME NEW t, TreeShape(t), NEW m, NEW key, Leaves(t, m, key),
         NEW u, Hung(t, m, key, u)
  PROVE  /\ TreeShape(u)
         /\ SizeOf(u, {key}) = Len(key) - Len(m)
<1>1. /\ m \in Path /\ Len(m) \in Nat /\ IsPrefix(m, key) /\ m \in t.nodes \cup {Root}
      /\ key \in Path /\ Len(key) \in Nat /\ IsPagePath(key) /\ Len(m) < Len(key) /\ m # key
      /\ \A n \in t.nodes : ~IsPrefix(key, n)
      /\ \A n \in t.nodes : IsPrefix(n, key) => IsPrefix(n, m)
      /\ \A p \in DOMAIN t.value : IsPrefix(p, key) => IsPrefix(p, m) /\ m \in t.nodes
      /\ NewPaths(m, key) \cap DOMAIN t.value = {}
      /\ \A p : IsPagePath(p) /\ IsPrefix(p, key) <=>
                  p \in NewPaths(m, key) \/ (p \in DOMAIN t.value /\ IsPrefix(p, key))
  BY LeavesFacts DEF Leaves
<1>0. /\ u \in TreeType /\ u.nodes = t.nodes \cup {key} /\ DOMAIN u.lock_ref = u.nodes
      /\ DOMAIN u.value = DOMAIN t.value \cup NewPaths(m, key)
  BY DEF Hung
<1>2. /\ t.nodes \in SUBSET Path /\ IsFiniteSet(t.nodes)
      /\ \A n \in t.nodes : IsPagePath(n) /\ n \in DOMAIN t.value
      /\ \A p : p \in DOMAIN t.value <=> IsPagePath(p) /\ \E n \in t.nodes : IsPrefix(p, n)
  BY ShapeFacts
<1>3. IsFiniteSet(u.nodes) /\ u.nodes \in SUBSET Path /\ \A n \in u.nodes : IsPagePath(n)
  BY <1>0, <1>1, <1>2, FS_AddElement
<1>4. DOMAIN u.value = PagePaths(u.nodes)
  <2>1. \A x : x \in PagePaths(u.nodes)
                 <=> IsPagePath(x) /\ \E n \in u.nodes : IsPrefix(x, n)
    BY <1>3, PagePathFacts
  <2>2. ASSUME NEW x
        PROVE  x \in PagePaths(u.nodes) <=> x \in DOMAIN u.value
    <3>1. (\E n \in u.nodes : IsPrefix(x, n))
            <=> IsPrefix(x, key) \/ \E n \in t.nodes : IsPrefix(x, n)
      BY <1>0
    <3>2. x \in PagePaths(u.nodes)
            <=> \/ IsPagePath(x) /\ IsPrefix(x, key)
                \/ IsPagePath(x) /\ \E n \in t.nodes : IsPrefix(x, n)
      BY <2>1, <3>1
    <3> QED
      BY <1>0, <1>1, <1>2, <3>2
  <2> QED
    BY <2>2
<1>5. ASSUME NEW p \in DOMAIN t.value, NEW d \in t.nodes, OwnedBy(t.nodes, p, d)
      PROVE  OwnedBy(u.nodes, p, d)
  <2>1. d \in Path /\ IsPrefix(p, d) /\ \A n \in t.nodes : IsPrefix(p, n) => IsPrefix(d, n)
    BY <1>2, <1>5 DEF OwnedBy
  <2>2. ASSUME IsPrefix(p, key)
        PROVE  IsPrefix(d, key)
    <3>1. IsPrefix(d, m)
      BY <1>1, <2>1, <2>2
    <3> QED
      BY <1>1, <2>1, <3>1, PrefixOrder
  <2> QED
    BY <1>0, <2>1, <2>2 DEF OwnedBy
<1>6. ASSUME NEW p \in NewPaths(m, key)
      PROVE  OwnedBy(u.nodes, p, key)
  <2>1. IsPagePath(p) /\ IsPrefix(p, key) /\ p \notin DOMAIN t.value
    BY <1>1
  <2>2. \A n \in t.nodes : ~IsPrefix(p, n)
    BY <1>2, <2>1
  <2>3. IsPrefix(key, key)
    BY <1>1, PrefixOrder
  <2> QED
    BY <1>0, <2>1, <2>2, <2>3 DEF OwnedBy
<1>7. TreeShape(u)
  <2>1. \A p \in DOMAIN u.value : \E c \in u.nodes : OwnedBy(u.nodes, p, c)
    <3>1. ASSUME NEW p \in DOMAIN t.value
          PROVE  \E c \in u.nodes : OwnedBy(u.nodes, p, c)
      BY <1>0, <1>5 DEF TreeShape
    <3> QED
      BY <1>0, <1>6, <3>1
  <2> QED
    BY <1>0, <1>3, <1>4, <2>1 DEF TreeShape
<1>9. SizeOf(u, {key}) = Len(key) - Len(m)
  <2>1. key \in u.nodes /\ {key} \in SUBSET u.nodes
    BY <1>0
  <2>2. SizeOf(u, {key}) = KeyLen(u, key)
    BY <1>7, <2>1, SizeIsPages, EdgeSize
  <2>3. /\ Above(u, key) \in Nat
        /\ \A n \in Ancestors(u, key) : Len(n) =< Above(u, key)
        /\ Above(u, key) = 0 \/ \E n \in Ancestors(u, key) : Len(n) = Above(u, key)
        /\ KeyLen(u, key) = Len(key) - Above(u, key)
    BY <1>7, <2>1, EdgeFacts
  <2>4. ASSUME NEW n \in Ancestors(u, key)
        PROVE  Len(n) =< Len(m)
    <3>1. n \in t.nodes /\ IsPrefix(n, key)
      BY <1>0 DEF Ancestors, IsStrictPrefix
    <3> QED
      BY <1>1, <1>2, <3>1, PrefixOrder
  <2>5. Above(u, key) =< Len(m)
    BY <1>1, <2>3, <2>4
  <2>6. Len(m) =< Above(u, key)
    <3>1. CASE m = Root
      BY <2>3, <3>1, RootFacts
    <3>2. CASE m \in t.nodes
      <4>1. m \in Ancestors(u, key)
        BY <1>0, <1>1, <3>2 DEF Ancestors, IsStrictPrefix
      <4> QED
        BY <2>3, <4>1
    <3> QED
      BY <1>1, <3>1, <3>2
  <2> QED
    BY <1>1, <2>2, <2>3, <2>5, <2>6
<1> QED
  BY <1>7, <1>9

\* The nodes that were there keep their size.
LEMMA HangSize ==
  ASSUME NEW t, TreeShape(t), NEW m, NEW key, Leaves(t, m, key),
         NEW u, Hung(t, m, key, u), NEW S \in SUBSET t.nodes
  PROVE  SizeOf(u, S) = SizeOf(t, S)
<1>a. TreeShape(u)
  BY HangShape
<1>b. u.nodes = t.nodes \cup {key}
  BY DEF Hung
<1>c. \A n \in t.nodes : ~IsPrefix(key, n)
  BY LeavesFacts
<1>d. \A p : p \in DOMAIN t.value <=> IsPagePath(p) /\ \E n \in t.nodes : IsPrefix(p, n)
  BY ShapeFacts
<1>1. S \in SUBSET u.nodes
  BY <1>b
<1>2. \A n \in S : Ancestors(u, n) = Ancestors(t, n)
  BY <1>b, <1>c DEF Ancestors, IsStrictPrefix
<1>3. \A n \in S : KeyLen(u, n) = KeyLen(t, n)
  BY <1>2 DEF KeyLen
<1>4. \A n \in S : \A p : IsPrefix(p, n) => (p \in DOMAIN u.value <=> p \in DOMAIN t.value)
  <2>1. \A p : p \in DOMAIN u.value <=> IsPagePath(p) /\ \E n \in u.nodes : IsPrefix(p, n)
    BY <1>a, ShapeFacts
  <2> QED
    BY <1>d, <1>1, <2>1
<1>5. ValuesOf(u, S) = ValuesOf(t, S)
  BY <1>3, <1>4 DEF ValuesOf
<1> QED
  BY <1>a, <1>1, <1>5, SizeIsPages

\* The tail of _insert_helper keeps the tree.
LEMMA HangOK ==
  ASSUME NEW t, NEW hold, TreeOK(t, hold), NEW m, NEW key, Leaves(t, m, key), NEW row,
         RowCovers(row, m, key)
  PROVE  TreeOK(UpdateLeafStatus(UpdateLeafStatus(Hang(t, m, key, row), m), key), hold)
<1> DEFINE h == Hang(t, m, key, row)
           lv == (t.evictable_leaves \ {m}) \cup {key}
           u == [h EXCEPT !.evictable_leaves = lv]
<1>1. TreeShape(t) /\ LeavesExact(t) /\ Sized(t) /\ Locked(t, hold)
  BY DEF TreeOK
<1>2. UpdateLeafStatus(UpdateLeafStatus(h, m), key) = u
  BY <1>1, HangLeafStatus
<1>3. /\ h \in TreeType /\ h.nodes = t.nodes \cup {key}
      /\ DOMAIN h.lock_ref = t.nodes \cup {key} /\ h.lock_ref[key] = 0
      /\ \A n \in t.nodes : n # key => h.lock_ref[n] = t.lock_ref[n]
      /\ DOMAIN h.value = DOMAIN t.value \cup NewPaths(m, key)
      /\ h.evictable_size_ = t.evictable_size_ + Len(key) - Len(m)
      /\ h.protected_size_ = t.protected_size_
  BY <1>1, HangFields
<1>4. /\ m \in Path /\ Len(m) \in Nat /\ IsPrefix(m, key) /\ m \in t.nodes \cup {Root}
      /\ key \in Path /\ Len(key) \in Nat /\ m # key
      /\ \A n \in t.nodes : ~IsPrefix(key, n)
      /\ \A n \in t.nodes : IsPrefix(n, key) => IsPrefix(n, m)
  BY <1>1, LeavesFacts DEF Leaves
<1>5. /\ t.nodes \in SUBSET Path /\ t.lock_ref \in [t.nodes -> Nat] /\ Root \notin t.nodes
      /\ t.evictable_leaves \in SUBSET Path
  BY <1>1, ShapeFacts
<1>6. key \notin t.nodes
  BY <1>4, PrefixOrder
<1>7. lv \in SUBSET Path
  BY <1>4, <1>5
<1> HIDE DEF h, lv
<1>8. u \in TreeType
  BY <1>3, <1>7 DEF TreeType
<1>9. /\ u.nodes = h.nodes /\ u.lock_ref = h.lock_ref /\ u.value = h.value
      /\ u.evictable_size_ = h.evictable_size_ /\ u.protected_size_ = h.protected_size_
      /\ u.evictable_leaves = lv
  BY <1>3 DEF TreeType
<1> HIDE DEF u
<1>10. /\ TreeShape(u)
       /\ \A S \in SUBSET t.nodes : SizeOf(u, S) = SizeOf(t, S)
       /\ SizeOf(u, {key}) = Len(key) - Len(m)
  <2>1. Hung(t, m, key, u)
    BY <1>3, <1>8, <1>9 DEF Hung
  <2>2. TreeShape(u)
    BY <1>1, <2>1, HangShape
  <2>3. SizeOf(u, {key}) = Len(key) - Len(m)
    BY <1>1, <2>1, HangShape
  <2>4. ASSUME NEW S \in SUBSET t.nodes
        PROVE  SizeOf(u, S) = SizeOf(t, S)
    BY <1>1, <2>1, HangSize
  <2> QED
    BY <2>2, <2>3, <2>4
<1>11. /\ u.nodes = t.nodes \cup {key} /\ u.lock_ref[key] = 0
       /\ \A n \in t.nodes : u.lock_ref[n] = t.lock_ref[n] /\ t.lock_ref[n] \in Nat
  BY <1>3, <1>5, <1>6, <1>9
<1>12. LeavesExact(u)
  <2>1. \A n : n \in t.evictable_leaves
                 <=> n \in t.nodes /\ t.lock_ref[n] = 0 /\ Descendants(t, n) = {}
    BY <1>1 DEF LeavesExact
  <2>2. Descendants(u, key) = {}
    BY <1>4, <1>11 DEF Descendants, IsStrictPrefix
  <2>3. ASSUME NEW n \in t.nodes
        PROVE  Descendants(u, n) = {} <=> n # m /\ Descendants(t, n) = {}
    <3>1. Descendants(t, n) \subseteq Descendants(u, n)
      BY <1>11 DEF Descendants
    <3>2. n = m => key \in Descendants(u, n)
      BY <1>4, <1>11 DEF Descendants, IsStrictPrefix
    <3>3. ASSUME n # m, NEW x \in Descendants(u, n), x \notin Descendants(t, n)
          PROVE  m \in Descendants(t, n)
      <4>1. x = key /\ IsPrefix(n, key)
        BY <1>11, <3>3 DEF Descendants, IsStrictPrefix
      <4>2. IsPrefix(n, m) /\ n \in Path /\ n # Root
        BY <1>4, <1>5, <4>1
      <4>3. m # Root
        BY <4>2, OnlyRootAboveRoot
      <4> QED
        BY <1>4, <3>3, <4>2, <4>3 DEF Descendants, IsStrictPrefix
    <3> QED
      BY <3>1, <3>2, <3>3
  <2>4. ASSUME NEW n
        PROVE  n \in lv <=> n \in u.nodes /\ u.lock_ref[n] = 0 /\ Descendants(u, n) = {}
    <3>1. CASE n = key
      BY <1>11, <2>2, <3>1 DEF lv
    <3>2. CASE n # key
      BY <1>11, <2>1, <2>3, <3>2 DEF lv
    <3> QED
      BY <3>1, <3>2
  <2> QED
    BY <1>9, <2>4 DEF LeavesExact
<1>13. Sized(u)
  <2>1. Loose(t) \in SUBSET t.nodes /\ Held(t) \in SUBSET t.nodes
    BY DEF Loose, Held
  <2>2. Loose(u) = Loose(t) \cup {key} /\ Held(u) = Held(t)
    BY <1>11 DEF Loose, Held
  <2>3. /\ Loose(t) \in SUBSET u.nodes /\ {key} \in SUBSET u.nodes
        /\ Loose(t) \cap {key} = {}
    BY <1>6, <1>11, <2>1
  <2>4. /\ SizeOf(u, Loose(t) \cup {key}) = SizeOf(u, Loose(t)) + SizeOf(u, {key})
        /\ SizeOf(u, Loose(t)) \in Nat /\ SizeOf(u, {key}) \in Nat
    BY <1>10, <2>3, SizeUnion
  <2>5. /\ SizeOf(u, Loose(t)) = SizeOf(t, Loose(t)) /\ SizeOf(u, Held(t)) = SizeOf(t, Held(t))
    BY <1>10, <2>1
  <2>6. /\ t.evictable_size_ = SizeOf(t, Loose(t)) /\ t.protected_size_ = SizeOf(t, Held(t))
    BY <1>1 DEF Sized
  <2>7. u.evictable_size_ = SizeOf(u, Loose(u))
    BY <1>3, <1>4, <1>9, <1>10, <2>2, <2>4, <2>5, <2>6
  <2>8. u.protected_size_ = SizeOf(u, Held(u))
    BY <1>3, <1>9, <2>2, <2>5, <2>6
  <2> QED
    BY <2>7, <2>8 DEF Sized
<1>14. Locked(u, hold)
  <2>1. /\ IsFiniteSet(DOMAIN hold)
        /\ \A r \in DOMAIN hold : hold[r] \in t.nodes \cup {Root}
        /\ \A n \in t.nodes :
             t.lock_ref[n] = Cardinality({r \in DOMAIN hold : IsPrefix(n, hold[r])})
    BY <1>1 DEF Locked
  <2>2. \A r \in DOMAIN hold : ~IsPrefix(key, hold[r])
    <3>1. key # Root
      BY <1>1, LeavesFacts DEF IsPagePath
    <3> QED
      BY <1>4, <2>1, <3>1, OnlyRootAboveRoot
  <2>3. {r \in DOMAIN hold : IsPrefix(key, hold[r])} = {}
    BY <2>2
  <2>4. Cardinality({r \in DOMAIN hold : IsPrefix(key, hold[r])}) = 0
    BY <2>3, FS_EmptySet
  <2> QED
    BY <1>11, <2>1, <2>4 DEF Locked
<1> QED
  BY <1>2, <1>10, <1>12, <1>13, <1>14 DEF TreeOK, h

\* _insert_helper keeps the tree, and its key ends on a node or is empty.
THEOREM InsertOK ==
  ASSUME NEW t, NEW hold, TreeOK(t, hold), NEW key \in Path, Len(key) % PageSize = 0,
         NEW row, RowCovers(row, Matched(t, key), key)
  PROVE  LET u == Insert(t, key, row)
         IN  /\ TreeOK(u, hold)
             /\ key \in u.nodes \cup {Root}
             /\ t.nodes \subseteq u.nodes
             /\ DOMAIN u.value = DOMAIN t.value \cup NewPaths(Matched(t, key), key)
             /\ NewPaths(Matched(t, key), key) \cap DOMAIN t.value = {}
             /\ \A p \in DOMAIN t.value : u.value[p] = t.value[p]
             /\ \A p \in NewPaths(Matched(t, key), key) :
                  u.value[p] = row[Len(p) \div PageSize]
<1> DEFINE m == Matched(t, key)
           t1 == SplitNode(t, m)
           u == Insert(t, key, row)
<1>1. TreeShape(t)
  BY DEF TreeOK
<1>2. /\ m \in Path /\ Len(m) % PageSize = 0 /\ IsPrefix(m, key)
      /\ m \in DOMAIN t.value \cup {Root}
      /\ \A p \in DOMAIN t.value : IsPrefix(p, key) => IsPrefix(p, m)
  BY <1>1, MatchedFacts
<1> HIDE DEF m
<1>3. TreeOK(t1, hold) /\ t1.value = t.value /\ t.nodes \subseteq t1.nodes
      /\ m \in t1.nodes \cup {Root}
  BY <1>2, SplitOK
<1>4. CASE m = key
  <2>1. u = t1
    BY <1>4 DEF Insert, m
  <2>2. NewPaths(m, key) = {}
    <3>1. \A p : p \in NewPaths(m, key) =>
                   IsPagePath(p) /\ IsPrefix(p, key) /\ Len(m) < Len(p)
      BY <1>2, NewPathFacts
    <3>2. ASSUME NEW p \in NewPaths(m, key)
          PROVE  FALSE
      <4>1. p \in Path /\ IsPrefix(p, key) /\ Len(key) < Len(p)
        BY <1>4, <3>1 DEF IsPagePath
      <4>2. Len(p) =< Len(key) /\ Len(p) \in Nat /\ Len(key) \in Nat
        BY <4>1, PrefixOrder
      <4> QED
        BY <4>1, <4>2
    <3> QED
      BY <3>2
  <2> HIDE DEF t1, u
  <2> QED
    BY <1>3, <1>4, <2>1, <2>2 DEF m, u
<1>5. CASE m # key
  <2> DEFINE h == Hang(t1, m, key, row)
  <2>1. u = UpdateLeafStatus(UpdateLeafStatus(h, m), key)
    BY <1>5, Zenon DEF Insert, m, Hang
  <2>2. Leaves(t1, m, key)
    BY <1>2, <1>3, <1>5 DEF Leaves
  <2>3. RowCovers(row, m, key)
    BY DEF m
  <2> HIDE DEF t1
  <2>4. TreeOK(u, hold)
    BY <1>3, <2>1, <2>2, <2>3, HangOK
  <2>5. TreeShape(t1) /\ LeavesExact(t1)
    BY <1>3 DEF TreeOK
  <2>6. u = [h EXCEPT !.evictable_leaves = (t1.evictable_leaves \ {m}) \cup {key}]
    BY <2>1, <2>2, <2>3, <2>5, HangLeafStatus
  <2>7. /\ h \in TreeType /\ h.nodes = t1.nodes \cup {key}
        /\ DOMAIN h.value = DOMAIN t1.value \cup NewPaths(m, key)
        /\ \A p \in DOMAIN t1.value : h.value[p] = t1.value[p]
        /\ \A p \in NewPaths(m, key) \ DOMAIN t1.value : h.value[p] = row[Len(p) \div PageSize]
    BY <2>2, <2>3, <2>5, HangFields
  <2>8. NewPaths(m, key) \cap DOMAIN t1.value = {}
    BY <2>2, <2>5, LeavesFacts
  <2> HIDE DEF h, u
  <2>9. u.nodes = h.nodes /\ u.value = h.value
    BY <2>6, <2>7 DEF TreeType
  <2>10. /\ TreeOK(u, hold) /\ key \in u.nodes /\ t.nodes \subseteq u.nodes
         /\ DOMAIN u.value = DOMAIN t.value \cup NewPaths(m, key)
         /\ NewPaths(m, key) \cap DOMAIN t.value = {}
         /\ \A p \in DOMAIN t.value : u.value[p] = t.value[p]
         /\ \A p \in NewPaths(m, key) : u.value[p] = row[Len(p) \div PageSize]
    BY <1>3, <2>4, <2>7, <2>8, <2>9
  <2> QED
    BY <2>10 DEF m, u
<1> QED
  BY <1>4, <1>5

-----------------------------------------------------------------------------
(* Eviction                                                                *)

\* E can be deleted: nobody holds its nodes, and what is below them goes too.
Cuttable(t, E) ==
  /\ E \subseteq t.nodes
  /\ \A n \in E : t.lock_ref[n] = 0 /\ Descendants(t, n) \subseteq E

\* A node with descendants is the parent of one of them.
LEMMA ParentOfSome ==
  ASSUME NEW t, TreeShape(t), NEW n \in t.nodes, Descendants(t, n) # {}
  PROVE  \E x \in Descendants(t, n) : Parent(t, x) = n
<1> DEFINE L == {Len(x) : x \in Descendants(t, n)}
<1>1. t.nodes \in SUBSET Path
  BY ShapeFacts
<1>2. \A x \in Descendants(t, n) : /\ x \in t.nodes /\ x \in Path /\ Len(x) \in Nat
                                   /\ IsPrefix(n, x) /\ n # x
  BY <1>1, PrefixOrder DEF Descendants, IsStrictPrefix
<1>3. L \in SUBSET Nat /\ L # {}
  BY <1>2
<1>4. Min(L) \in L /\ \A y \in L : Min(L) =< y
  <2> HIDE DEF L
  <2> QED
    BY <1>3, LeastNatural
<1>5. PICK x \in Descendants(t, n) : Len(x) = Min(L)
  BY <1>4
<1>6. \A y \in Descendants(t, n) : Len(x) =< Len(y)
  BY <1>4, <1>5
<1>7. /\ x \in t.nodes /\ x \in Path /\ Len(x) \in Nat /\ IsPrefix(n, x) /\ n # x
      /\ n \in Path /\ Len(n) \in Nat
  BY <1>1, <1>2, PrefixOrder
<1>8. n \in Ancestors(t, x)
  BY <1>7 DEF Ancestors, IsStrictPrefix
<1>9. ASSUME NEW a \in Ancestors(t, x)
      PROVE  Len(a) =< Len(n)
  <2>1. a \in t.nodes /\ a \in Path /\ IsPrefix(a, x) /\ a # x /\ Len(a) \in Nat
    BY <1>1, PrefixOrder DEF Ancestors, IsStrictPrefix
  <2>2. SUFFICES ASSUME ~(Len(a) =< Len(n))
                 PROVE  FALSE
    OBVIOUS
  <2>3. IsPrefix(n, a) /\ n # a
    BY <1>7, <2>1, <2>2, PrefixOrder
  <2>4. a \in Descendants(t, n)
    BY <2>1, <2>3 DEF Descendants, IsStrictPrefix
  <2>5. Len(x) =< Len(a)
    BY <1>6, <2>4
  <2> QED
    BY <1>7, <2>1, <2>5, PrefixOrder
<1>10. Len(x) - KeyLen(t, x) = Len(n)
  <2>1. /\ Above(t, x) \in Nat /\ Len(x) - KeyLen(t, x) = Above(t, x)
        /\ \A m \in Ancestors(t, x) : Len(m) =< Above(t, x)
        /\ Above(t, x) = 0 \/ \E m \in Ancestors(t, x) : Len(m) = Above(t, x)
    BY <1>7, EdgeFacts
  <2>2. Len(n) =< Above(t, x)
    BY <1>8, <2>1
  <2>3. Above(t, x) =< Len(n)
    BY <1>7, <1>9, <2>1
  <2> QED
    BY <1>7, <2>1, <2>2, <2>3
<1>11. n = SubSeq(x, 1, Len(n))
  BY <1>7, PrefixIsCut
<1> QED
  BY <1>10, <1>11 DEF Parent

\* What _delete_leaf writes for every node of E.
LEMMA DeleteFields ==
  ASSUME NEW t, TreeShape(t), NEW E, Cuttable(t, E)
  PROVE  LET u == DeleteLeaves(t, E)
             left == t.nodes \ E
         IN  /\ u \in TreeType /\ u.nodes = left
             /\ DOMAIN u.lock_ref = left /\ \A n \in left : u.lock_ref[n] = t.lock_ref[n]
             /\ DOMAIN u.value = DOMAIN t.value \ ValuesOf(t, E)
             /\ \A p \in DOMAIN t.value \ ValuesOf(t, E) : u.value[p] = t.value[p]
             /\ u.evictable_size_ = t.evictable_size_ - SizeOf(t, E)
             /\ u.protected_size_ = t.protected_size_
             /\ u.evictable_leaves =
                  (t.evictable_leaves \ E)
                    \cup {n \in {Parent(t, x) : x \in E} \cap left :
                            t.lock_ref[n] = 0 /\ Descendants(t, n) \subseteq E}
<1> DEFINE u == DeleteLeaves(t, E)
           left == t.nodes \ E
           lr == Restrict(t.lock_ref, left)
           dom == DOMAIN t.value \ ValuesOf(t, E)
           val == Restrict(t.value, dom)
           es == t.evictable_size_ - SizeOf(t, E)
           lv == (t.evictable_leaves \ E)
                    \cup {n \in {Parent(t, x) : x \in E} \cap left :
                            t.lock_ref[n] = 0 /\ Descendants(t, n) \subseteq E}
<1>1. /\ t \in TreeType /\ t.nodes \in SUBSET Path /\ t.lock_ref \in [t.nodes -> Nat]
      /\ t.value \in [DOMAIN t.value -> Nat] /\ DOMAIN t.value \in SUBSET Path
      /\ t.evictable_size_ \in Int /\ t.evictable_leaves \in SUBSET Path
  BY ShapeFacts DEF TreeShape, IsPagePath
<1>2. SizeOf(t, E) \in Nat
  <2>1. E \in SUBSET t.nodes
    BY DEF Cuttable
  <2> QED
    BY <2>1, SizeIsPages
<1>3. /\ lr \in [left -> Nat] /\ left \in SUBSET Path
      /\ \A n \in left : lr[n] = t.lock_ref[n]
  BY <1>1 DEF Restrict
<1>4. dom \in SUBSET DOMAIN t.value
  OBVIOUS
<1>5. /\ val \in [dom -> Nat] /\ dom \in SUBSET Path /\ \A p \in dom : val[p] = t.value[p]
  <2> HIDE DEF dom
  <2> QED
    BY <1>1, <1>4 DEF Restrict
<1>6. es \in Int /\ lv \in SUBSET Path
  BY <1>1, <1>2
<1>7. u = [t EXCEPT !.nodes = left, !.lock_ref = lr, !.value = val, !.evictable_size_ = es,
                    !.evictable_leaves = lv]
  BY Zenon DEF DeleteLeaves
<1> HIDE DEF left, lr, dom, val, es, lv, u
<1>8. /\ lr \in UNION {[N -> Nat] : N \in SUBSET Path}
      /\ val \in UNION {[N -> Nat] : N \in SUBSET Path}
  BY <1>3, <1>5
<1>9. /\ u.nodes = left /\ u.lock_ref = lr /\ u.value = val /\ u.evictable_size_ = es
      /\ u.protected_size_ = t.protected_size_ /\ u.evictable_leaves = lv
  BY <1>1, <1>7 DEF TreeType
<1>10. u \in TreeType
  <2> DEFINE Fun == UNION {[N -> Nat] : N \in SUBSET Path}
  <2>1. lr \in Fun /\ val \in Fun
    BY <1>8
  <2>2. TreeType = [nodes : SUBSET Path, lock_ref : Fun, value : Fun, evictable_size_ : Int,
                    protected_size_ : Int, evictable_leaves : SUBSET Path]
    BY DEF TreeType
  <2> HIDE DEF Fun
  <2> QED
    BY <1>1, <1>3, <1>6, <1>7, <2>1, <2>2
<1>11. DOMAIN u.lock_ref = left /\ \A n \in left : u.lock_ref[n] = t.lock_ref[n]
  BY <1>3, <1>9
<1>12. DOMAIN u.value = dom /\ \A p \in dom : u.value[p] = t.value[p]
  BY <1>5, <1>9
<1> QED
  BY <1>9, <1>10, <1>11, <1>12 DEF u, left, dom, es, lv

\* u is what t is without the nodes of E.
Pruned(t, E, u) ==
  /\ u \in TreeType /\ u.nodes = t.nodes \ E /\ DOMAIN u.lock_ref = u.nodes
  /\ DOMAIN u.value = DOMAIN t.value \ ValuesOf(t, E)

\* u is a tree, and its nodes have the ancestors they have in t.
ShapeKept(t, u) == TreeShape(u) /\ \A n \in u.nodes : Ancestors(u, n) = Ancestors(t, n)

\* What is left of the tree is a tree, and its edges keep their size.
LEMMA DeleteShape ==
  ASSUME NEW t, TreeShape(t), NEW E, Cuttable(t, E), NEW u, Pruned(t, E, u)
  PROVE  ShapeKept(t, u)
<1> /\ u \in TreeType /\ u.nodes = t.nodes \ E /\ DOMAIN u.lock_ref = u.nodes
    /\ DOMAIN u.value = DOMAIN t.value \ ValuesOf(t, E)
  BY DEF Pruned
<1>1. /\ t.nodes \in SUBSET Path /\ IsFiniteSet(t.nodes)
      /\ \A n \in t.nodes : IsPagePath(n)
      /\ \A p : p \in DOMAIN t.value <=> IsPagePath(p) /\ \E n \in t.nodes : IsPrefix(p, n)
  BY ShapeFacts
<1>2. /\ E \in SUBSET t.nodes
      /\ \A c \in E : \A n \in t.nodes : IsPrefix(c, n) => n \in E
  BY DEF Cuttable, Descendants, IsStrictPrefix
<1>3. IsFiniteSet(u.nodes) /\ u.nodes \in SUBSET Path /\ \A n \in u.nodes : IsPagePath(n)
  BY <1>1, FS_Subset
<1>4. \A p : p \in ValuesOf(t, E) <=>
              p \in DOMAIN t.value /\ \E n \in E : OwnedBy(t.nodes, p, n)
  BY <1>2, OwnedValues
<1>5. ASSUME NEW p \in DOMAIN t.value, NEW c \in t.nodes, OwnedBy(t.nodes, p, c)
      PROVE  p \in DOMAIN u.value <=> c \notin E
  <2>1. \A n \in E : OwnedBy(t.nodes, p, n) => n = c
    BY <1>5, OneOwner
  <2> QED
    BY <1>4, <1>5, <2>1
<1>6. DOMAIN u.value = PagePaths(u.nodes)
  <2>1. \A x : x \in PagePaths(u.nodes)
                 <=> IsPagePath(x) /\ \E n \in u.nodes : IsPrefix(x, n)
    BY <1>3, PagePathFacts
  <2>2. ASSUME NEW x \in DOMAIN t.value
        PROVE  x \in DOMAIN u.value <=> \E n \in u.nodes : IsPrefix(x, n)
    <3>1. PICK c \in t.nodes : OwnedBy(t.nodes, x, c)
      BY DEF TreeShape
    <3>2. IsPrefix(x, c) /\ \A n \in t.nodes : IsPrefix(x, n) => IsPrefix(c, n)
      BY <3>1 DEF OwnedBy
    <3> QED
      BY <1>2, <1>5, <3>1, <3>2
  <2>3. ASSUME NEW x
        PROVE  x \in PagePaths(u.nodes) <=> x \in DOMAIN u.value
    <3>1. CASE x \in DOMAIN t.value
      BY <1>1, <2>1, <2>2, <3>1
    <3>2. CASE x \notin DOMAIN t.value
      BY <1>1, <2>1, <3>2
    <3> QED
      BY <3>1, <3>2
  <2> QED
    BY <2>3
<1>7. ASSUME NEW p \in DOMAIN u.value
      PROVE  \E c \in u.nodes : OwnedBy(u.nodes, p, c)
  <2>1. PICK c \in t.nodes : OwnedBy(t.nodes, p, c)
    BY DEF TreeShape
  <2>2. c \notin E
    BY <1>5, <2>1
  <2> QED
    BY <2>1, <2>2 DEF OwnedBy
<1>8. TreeShape(u)
  BY <1>3, <1>6, <1>7 DEF TreeShape
<1>9. ASSUME NEW n \in u.nodes
      PROVE  Ancestors(u, n) = Ancestors(t, n)
  BY <1>2 DEF Ancestors, IsStrictPrefix
<1> QED
  BY <1>8, <1>9 DEF ShapeKept

\* The size of a set of nodes depends on what is above and on them only.
LEMMA SizeBelowSame ==
  ASSUME NEW t, TreeShape(t), NEW u, TreeShape(u), NEW S \in SUBSET t.nodes,
         S \in SUBSET u.nodes, \A n \in S : Ancestors(u, n) = Ancestors(t, n)
  PROVE  SizeOf(u, S) = SizeOf(t, S)
<1>1. \A n \in S : KeyLen(u, n) = KeyLen(t, n)
  BY DEF KeyLen
<1>2. /\ \A p : p \in DOMAIN t.value <=> IsPagePath(p) /\ \E n \in t.nodes : IsPrefix(p, n)
      /\ \A p : p \in DOMAIN u.value <=> IsPagePath(p) /\ \E n \in u.nodes : IsPrefix(p, n)
  BY ShapeFacts
<1>3. \A n \in S : \A p : IsPrefix(p, n) => (p \in DOMAIN u.value <=> p \in DOMAIN t.value)
  BY <1>2
<1>4. ValuesOf(u, S) = ValuesOf(t, S)
  BY <1>1, <1>3 DEF ValuesOf
<1> QED
  BY <1>4, SizeIsPages

\* _delete_leaf for every node the heap gave up keeps the tree.
THEOREM DeleteOK ==
  ASSUME NEW t, NEW hold, TreeOK(t, hold), NEW E, Cuttable(t, E)
  PROVE  /\ TreeOK(DeleteLeaves(t, E), hold)
         /\ DOMAIN DeleteLeaves(t, E).value = DOMAIN t.value \ ValuesOf(t, E)
         /\ \A p \in DOMAIN DeleteLeaves(t, E).value :
              DeleteLeaves(t, E).value[p] = t.value[p]
<1> DEFINE u == DeleteLeaves(t, E)
           left == t.nodes \ E
           lv == (t.evictable_leaves \ E)
                    \cup {n \in {Parent(t, x) : x \in E} \cap left :
                            t.lock_ref[n] = 0 /\ Descendants(t, n) \subseteq E}
<1>1. TreeShape(t) /\ LeavesExact(t) /\ Sized(t) /\ Locked(t, hold)
  BY DEF TreeOK
<1>2. /\ u \in TreeType /\ u.nodes = left
      /\ DOMAIN u.lock_ref = left /\ \A n \in left : u.lock_ref[n] = t.lock_ref[n]
      /\ DOMAIN u.value = DOMAIN t.value \ ValuesOf(t, E)
      /\ \A p \in DOMAIN t.value \ ValuesOf(t, E) : u.value[p] = t.value[p]
      /\ u.evictable_size_ = t.evictable_size_ - SizeOf(t, E)
      /\ u.protected_size_ = t.protected_size_ /\ u.evictable_leaves = lv
  BY <1>1, DeleteFields
<1>3. /\ t.nodes \in SUBSET Path /\ t.lock_ref \in [t.nodes -> Nat] /\ Root \notin t.nodes
      /\ E \in SUBSET t.nodes /\ \A n \in E : t.lock_ref[n] = 0 /\ Descendants(t, n) \subseteq E
  BY <1>1, ShapeFacts DEF Cuttable
<1>4. left \in SUBSET t.nodes /\ left \cap E = {} /\ \A n \in t.nodes : n \in left <=> n \notin E
  OBVIOUS
<1>5. \A n : n \in lv <=> \/ n \in t.evictable_leaves /\ n \notin E
                          \/ /\ n \in left /\ \E x \in E : Parent(t, x) = n
                             /\ t.lock_ref[n] = 0 /\ Descendants(t, n) \subseteq E
  OBVIOUS
<1> HIDE DEF u, lv, left
<1>6. TreeShape(u) /\ \A n \in u.nodes : Ancestors(u, n) = Ancestors(t, n)
  <2>1. u.nodes = t.nodes \ E /\ DOMAIN u.lock_ref = u.nodes
    BY <1>2 DEF left
  <2>2. u \in TreeType /\ DOMAIN u.value = DOMAIN t.value \ ValuesOf(t, E)
    BY <1>2
  <2>3. TreeShape(t) /\ Cuttable(t, E)
    BY <1>1
  <2>4. Pruned(t, E, u)
    BY <2>1, <2>2 DEF Pruned
  <2>5. ShapeKept(t, u)
    BY <2>3, <2>4, DeleteShape
  <2> QED
    BY <2>5 DEF ShapeKept
<1>7. LeavesExact(u)
  <2>1. \A n : n \in t.evictable_leaves
                 <=> n \in t.nodes /\ t.lock_ref[n] = 0 /\ Descendants(t, n) = {}
    BY <1>1 DEF LeavesExact
  <2>2. ASSUME NEW n
        PROVE  Descendants(u, n) = {} <=> Descendants(t, n) \subseteq E
    BY <1>2 DEF Descendants, left
  <2>3. ASSUME NEW n \in left, t.lock_ref[n] = 0, Descendants(t, n) \subseteq E
        PROVE  n \in lv
    <3>1. CASE Descendants(t, n) = {}
      BY <1>4, <1>5, <2>1, <2>3, <3>1
    <3>2. CASE Descendants(t, n) # {}
      <4>1. PICK x \in Descendants(t, n) : Parent(t, x) = n
        BY <1>1, <1>4, <3>2, ParentOfSome
      <4> QED
        BY <1>5, <2>3, <4>1
    <3> QED
      BY <3>1, <3>2
  <2>4. ASSUME NEW n \in lv
        PROVE  n \in left /\ t.lock_ref[n] = 0 /\ Descendants(t, n) \subseteq E
    BY <1>4, <1>5, <2>1
  <2>5. ASSUME NEW n
        PROVE  n \in lv <=> n \in u.nodes /\ u.lock_ref[n] = 0 /\ Descendants(u, n) = {}
    BY <1>2, <2>2, <2>3, <2>4
  <2> QED
    BY <1>2, <2>5 DEF LeavesExact
<1>8. Sized(u)
  <2>1. /\ Loose(u) \in SUBSET left /\ Held(u) \in SUBSET left
        /\ Loose(u) \in SUBSET t.nodes /\ Held(u) \in SUBSET t.nodes
    BY <1>2, <1>4 DEF Loose, Held
  <2>2. Loose(t) = Loose(u) \cup E /\ Loose(u) \cap E = {} /\ Held(t) = Held(u)
    BY <1>2, <1>3, <1>4 DEF Loose, Held
  <2>3. /\ SizeOf(t, Loose(u) \cup E) = SizeOf(t, Loose(u)) + SizeOf(t, E)
        /\ SizeOf(t, Loose(u)) \in Nat /\ SizeOf(t, E) \in Nat
    BY <1>1, <1>3, <2>1, <2>2, SizeUnion
  <2>4. SizeOf(u, Loose(u)) = SizeOf(t, Loose(u))
    <3>1. Loose(u) \in SUBSET u.nodes /\ \A n \in Loose(u) : Ancestors(u, n) = Ancestors(t, n)
      BY <1>2, <1>6, <2>1
    <3> QED
      BY <1>1, <1>6, <2>1, <3>1, SizeBelowSame
  <2>5. SizeOf(u, Held(u)) = SizeOf(t, Held(u))
    <3>1. Held(u) \in SUBSET u.nodes /\ \A n \in Held(u) : Ancestors(u, n) = Ancestors(t, n)
      BY <1>2, <1>6, <2>1
    <3> QED
      BY <1>1, <1>6, <2>1, <3>1, SizeBelowSame
  <2>6. /\ t.evictable_size_ = SizeOf(t, Loose(t)) /\ t.protected_size_ = SizeOf(t, Held(t))
    BY <1>1 DEF Sized
  <2>7. u.evictable_size_ = SizeOf(u, Loose(u))
    BY <1>2, <2>2, <2>3, <2>4, <2>6
  <2>8. u.protected_size_ = SizeOf(u, Held(u))
    BY <1>2, <2>2, <2>5, <2>6
  <2> QED
    BY <2>7, <2>8 DEF Sized
<1>9. Locked(u, hold)
  <2>1. /\ IsFiniteSet(DOMAIN hold)
        /\ \A r \in DOMAIN hold : hold[r] \in t.nodes \cup {Root}
        /\ \A n \in t.nodes :
             t.lock_ref[n] = Cardinality({r \in DOMAIN hold : IsPrefix(n, hold[r])})
    BY <1>1 DEF Locked
  <2>2. ASSUME NEW r \in DOMAIN hold, hold[r] \in E
        PROVE  FALSE
    <3> DEFINE A == {x \in DOMAIN hold : IsPrefix(hold[r], hold[x])}
    <3>1. hold[r] \in t.nodes /\ hold[r] \in Path
      BY <1>3, <2>2
    <3>2. r \in A
      BY <3>1, PrefixOrder
    <3>3. Cardinality(A) = 0
      BY <1>3, <2>1, <2>2, <3>1
    <3>4. IsFiniteSet(A)
      BY <2>1, FS_Subset
    <3> HIDE DEF A
    <3> QED
      BY <3>2, <3>3, <3>4, FS_EmptySet
  <2> QED
    BY <1>2, <1>4, <2>1, <2>2 DEF Locked
<1> QED
  BY <1>2, <1>6, <1>7, <1>8, <1>9 DEF TreeOK, u

\* What the eviction heap may pop can be deleted.
LEMMA EvictChoicesOK ==
  ASSUME NEW t, TreeShape(t), LeavesExact(t)
  PROVE  /\ Cuttable(t, Drained(t))
         /\ \A want : \A E \in EvictChoices(t, want) : Cuttable(t, E)
<1>1. \A n : n \in t.evictable_leaves
               <=> n \in t.nodes /\ t.lock_ref[n] = 0 /\ Descendants(t, n) = {}
  BY DEF LeavesExact
<1>2. t.nodes \in SUBSET Path
  BY ShapeFacts
<1>3. Cuttable(t, Drained(t))
  <2>1. ASSUME NEW n \in Drained(t), NEW m \in Descendants(t, n)
        PROVE  m \in Drained(t)
    <3>1. n \in t.nodes /\ m \in t.nodes /\ IsPrefix(n, m) /\ n # m
      BY DEF Drained, Descendants, IsStrictPrefix
    <3>2. ASSUME NEW x \in {m} \cup Descendants(t, m)
          PROVE  x \in Descendants(t, n)
      <4>1. CASE x = m
        BY <2>1, <4>1
      <4>2. CASE x \in Descendants(t, m)
        <5>1. x \in t.nodes /\ IsPrefix(m, x) /\ m # x
          BY <4>2 DEF Descendants, IsStrictPrefix
        <5>2. IsPrefix(n, x)
          BY <1>2, <3>1, <5>1, PrefixOrder
        <5>3. n # x
          <6>1. SUFFICES ASSUME n = x
                         PROVE  FALSE
            OBVIOUS
          <6>2. Len(m) =< Len(n) /\ m \in Path /\ n \in Path
            BY <1>2, <3>1, <5>1, <6>1, PrefixOrder
          <6> QED
            BY <3>1, <6>2, PrefixOrder
        <5> QED
          BY <5>1, <5>2, <5>3 DEF Descendants, IsStrictPrefix
      <4> QED
        BY <4>1, <4>2
    <3> QED
      BY <3>1, <3>2 DEF Drained
  <2>2. \A n \in Drained(t) : n \in t.nodes /\ t.lock_ref[n] = 0
    BY DEF Drained
  <2> QED
    BY <2>1, <2>2 DEF Cuttable
<1>4. ASSUME NEW want, NEW E \in EvictChoices(t, want)
      PROVE  Cuttable(t, E)
  <2>1. E = {} \/ E = Drained(t) \/ (E \in SUBSET Drained(t) /\ Poppable(t, E))
    BY DEF EvictChoices
  <2>2. ASSUME E \in SUBSET Drained(t), Poppable(t, E)
        PROVE  Cuttable(t, E)
    BY <1>1, <1>3, <2>2 DEF Cuttable, Poppable
  <2>3. Cuttable(t, {})
    BY DEF Cuttable
  <2> QED
    BY <1>3, <2>1, <2>2, <2>3
<1> QED
  BY <1>3, <1>4

\* Eviction can deliver exactly evictable_size_: every node that nobody holds can be
\* popped, since what is below it is not held either.
THEOREM DrainedIsLoose ==
  ASSUME NEW t, NEW hold, TreeOK(t, hold)
  PROVE  Drained(t) = Loose(t) /\ SizeOf(t, Drained(t)) = t.evictable_size_
<1>1. TreeShape(t) /\ LeavesExact(t) /\ Sized(t) /\ Locked(t, hold)
  BY DEF TreeOK
<1>2. t.nodes \in SUBSET Path /\ t.lock_ref \in [t.nodes -> Nat] /\ Root \notin t.nodes
  BY <1>1, ShapeFacts
<1>3. ASSUME NEW n \in t.nodes, t.lock_ref[n] = 0, NEW m \in Descendants(t, n)
      PROVE  t.lock_ref[m] = 0
  <2> DEFINE A == {r \in DOMAIN hold : IsPrefix(n, hold[r])}
             B == {r \in DOMAIN hold : IsPrefix(m, hold[r])}
  <2>1. /\ IsFiniteSet(DOMAIN hold)
        /\ \A r \in DOMAIN hold : hold[r] \in t.nodes \cup {Root}
        /\ t.lock_ref[n] = Cardinality(A)
    BY <1>1 DEF Locked
  <2>2. m \in t.nodes /\ IsPrefix(n, m)
    BY DEF Descendants, IsStrictPrefix
  <2>3. t.lock_ref[m] = Cardinality(B)
    BY <1>1, <2>2 DEF Locked
  <2>4. A = {}
    <3>1. IsFiniteSet(A)
      BY <2>1, FS_Subset
    <3> HIDE DEF A
    <3> QED
      BY <1>3, <2>1, <3>1, FS_EmptySet
  <2>5. \A r \in DOMAIN hold : hold[r] \in Path
    BY <1>2, <2>1, RootFacts
  <2>6. B = {}
    <3>1. ASSUME NEW r \in B
          PROVE  r \in A
      BY <1>2, <2>2, <2>5, PrefixOrder
    <3> QED
      BY <2>4, <3>1
  <2> HIDE DEF A, B
  <2> QED
    BY <2>3, <2>6, FS_EmptySet
<1>4. Drained(t) = Loose(t)
  <2>1. \A n : n \in t.evictable_leaves
                 <=> n \in t.nodes /\ t.lock_ref[n] = 0 /\ Descendants(t, n) = {}
    BY <1>1 DEF LeavesExact
  <2>2. \A n \in t.nodes : \A m \in Descendants(t, n) : m \in t.nodes
    BY DEF Descendants
  <2> QED
    BY <1>3, <2>1, <2>2 DEF Drained, Loose
<1> QED
  BY <1>1, <1>4 DEF Sized

\* The prefixes of a path, as a set.
LEMMA PrefixesAre ==
  ASSUME NEW m \in Path
  PROVE  \A x : x \in Prefixes(m) <=> x \in Path /\ IsPrefix(x, m)
<1>1. ASSUME NEW x, x \in Prefixes(m)
      PROVE  x \in Path /\ IsPrefix(x, m)
  <2>1. PICK l \in 0..Len(m) : x = SubSeq(m, 1, l)
    BY <1>1 DEF Prefixes
  <2> QED
    BY <2>1, Cut
<1>2. ASSUME NEW x \in Path, IsPrefix(x, m)
      PROVE  x \in Prefixes(m)
  <2>1. Len(x) \in 0..Len(m) /\ x = SubSeq(m, 1, Len(x))
    BY <1>2, PrefixIsCut
  <2> QED
    BY <2>1 DEF Prefixes
<1> QED
  BY <1>1, <1>2

\* The pages that two nodes have in common end in a node.
THEOREM BranchesAtNodes ==
  ASSUME NEW t, TreeShape(t), NEW m \in t.nodes, NEW n \in t.nodes
  PROVE  PageAligned(LongestCommonPrefix({m, n})) \in t.nodes \cup {Root}
<1> DEFINE C == CommonPrefixes({m, n})
           g == LongestCommonPrefix({m, n})
           L == {Len(x) : x \in C}
<1>1. m \in Path /\ n \in Path /\ Len(m) \in Nat /\ Len(n) \in Nat
  BY ShapeFacts, PrefixOrder
<1>2. \A x : x \in C <=> x \in Path /\ IsPrefix(x, m) /\ IsPrefix(x, n)
  <2>3. \A x : x \in Prefixes(m) <=> x \in Path /\ IsPrefix(x, m)
    BY <1>1, PrefixesAre
  <2>4. \A x : x \in Prefixes(n) <=> x \in Path /\ IsPrefix(x, n)
    BY <1>1, PrefixesAre
  <2>5. \A x : x \in C <=> /\ x \in Prefixes(m) \/ x \in Prefixes(n)
                           /\ IsPrefix(x, m) /\ IsPrefix(x, n)
    BY DEF CommonPrefixes
  <2> QED
    BY <2>3, <2>4, <2>5
<1> HIDE DEF C
<1>3. \A x \in C : Len(x) \in Nat /\ Len(x) =< Len(m)
  BY <1>1, <1>2, PrefixOrder
<1>4. L \in SUBSET (0..Len(m)) /\ L # {}
  <2>1. Root \in C
    BY <1>1, <1>2, PrefixOrder
  <2>2. \A x \in C : Len(x) \in 0..Len(m)
    BY <1>1, <1>3
  <2> QED
    BY <2>1, <2>2
<1>5. Max(L) \in L /\ \A y \in L : y =< Max(L)
  <2> HIDE DEF L
  <2> QED
    BY <1>1, <1>4, LargestNatural
<1>6. PICK x \in C : Len(x) = Max(L)
  BY <1>5
<1>7. \A y \in C : Len(y) =< Len(x)
  BY <1>5, <1>6
<1>8. g \in C /\ \A y \in C : Len(y) =< Len(g)
  BY <1>6, <1>7 DEF LongestCommonPrefix, C
<1> HIDE DEF g, L
<1>9. g \in Path /\ IsPrefix(g, m) /\ IsPrefix(g, n) /\ Len(g) \in Nat
  BY <1>2, <1>3, <1>8
<1> DEFINE k == Len(g) \div PageSize
           a == PagePrefix(g, k)
<1>10. k \in Nat /\ k \in 0..k /\ PageAligned(g) = a
  BY <1>9, PageDivision DEF PageAligned, FloorAlign, PagePrefix
<1>11. /\ a \in Path /\ Len(a) = k * PageSize /\ Len(a) % PageSize = 0 /\ IsPrefix(a, g)
       /\ Len(a) \in Nat
  BY <1>9, <1>10, PagePrefixFacts, PrefixOrder
<1> HIDE DEF a
<1>12. ASSUME a # Root
       PROVE  a \in t.nodes
  <2>1. a \in DOMAIN t.value /\ IsPrefix(a, m) /\ IsPrefix(a, n)
    <3>1. IsPrefix(a, m) /\ IsPrefix(a, n)
      BY <1>1, <1>9, <1>11, PrefixOrder
    <3>2. IsPagePath(a)
      BY <1>11, <1>12 DEF IsPagePath
    <3> QED
      BY <3>1, <3>2, ShapeFacts
  <2>2. PICK c \in t.nodes : OwnedBy(t.nodes, a, c)
    BY <2>1 DEF TreeShape
  <2>3. /\ c \in Path /\ Len(c) % PageSize = 0 /\ Len(c) \in Nat
        /\ IsPrefix(a, c) /\ IsPrefix(c, m) /\ IsPrefix(c, n)
    BY <2>1, <2>2, ShapeFacts, PrefixOrder DEF OwnedBy, IsPagePath
  <2>4. c \in C
    BY <1>2, <2>3
  <2>5. Len(c) =< Len(g)
    BY <1>8, <2>4
  <2>6. IsPrefix(c, g)
    BY <1>1, <1>9, <2>3, <2>5, PrefixOrder
  <2>7. Len(c) \div PageSize \in 0..k /\ Len(c) = (Len(c) \div PageSize) * PageSize
    BY <1>9, <2>3, <2>6, AlignedPrefix, PageDivision
  <2> DEFINE j == Len(c) \div PageSize
  <2>8. j \in Int /\ k \in Int /\ j =< k /\ Len(c) = j * PageSize
    BY <1>10, <2>7
  <2> HIDE DEF j, k
  <2>9. j * PageSize =< k * PageSize
    BY <2>8, PageMonotone
  <2>10. Len(c) =< Len(a)
    BY <1>11, <2>8, <2>9
  <2>11. c = a
    BY <1>11, <2>3, <2>10, PrefixOrder
  <2> QED
    BY <2>2, <2>11
<1> QED
  BY <1>10, <1>12 DEF g

\* The tree of reset.
LEMMA EmptyOK ==
  ASSUME NEW hold, IsFiniteSet(DOMAIN hold), \A r \in DOMAIN hold : hold[r] = Root
  PROVE  TreeOK(EmptyTree, hold)
<1> DEFINE t == EmptyTree
<1>1. /\ t.nodes = {} /\ t.lock_ref = <<>> /\ t.value = <<>> /\ t.evictable_size_ = 0
      /\ t.protected_size_ = 0 /\ t.evictable_leaves = {}
  BY DEF EmptyTree
<1>2. <<>> \in [{} -> Nat] /\ DOMAIN <<>> = {} /\ {} \in SUBSET Path
  OBVIOUS
<1>3. t \in TreeType
  <2>1. <<>> \in UNION {[N -> Nat] : N \in SUBSET Path}
    BY <1>2
  <2> DEFINE Fun == UNION {[N -> Nat] : N \in SUBSET Path}
  <2>2. <<>> \in Fun
    BY <2>1
  <2>3. TreeType = [nodes : SUBSET Path, lock_ref : Fun, value : Fun, evictable_size_ : Int,
                    protected_size_ : Int, evictable_leaves : SUBSET Path]
    BY DEF TreeType
  <2> HIDE DEF Fun
  <2> QED
    BY <1>2, <2>2, <2>3 DEF EmptyTree
<1> HIDE DEF t
<1>4. PagePaths(t.nodes) = {}
  BY <1>1 DEF PagePaths
<1>5. TreeShape(t)
  BY <1>1, <1>2, <1>3, <1>4, FS_EmptySet DEF TreeShape
<1>6. SizeOf(t, {}) = 0
  BY SumEmpty DEF SizeOf
<1>7. Loose(t) = {} /\ Held(t) = {}
  BY <1>1 DEF Loose, Held
<1>8. Sized(t) /\ LeavesExact(t)
  BY <1>1, <1>6, <1>7 DEF Sized, LeavesExact
<1>9. Locked(t, hold)
  BY <1>1 DEF Locked
<1> QED
  BY <1>5, <1>8, <1>9 DEF TreeOK, t

=============================================================================
