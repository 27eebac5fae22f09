------------------------------- MODULE SetSums -------------------------------
(***************************************************************************)
(* Sums over finite sets, as the community module FiniteSetsExt defines    *)
(* them, are counts: the sum of the sizes of disjoint sets is the size of  *)
(* their union.                                                            *)
(*                                                                         *)
(* A fact about all finite sets is proved by its smallest counterexample.  *)
(***************************************************************************)
EXTENDS Integers, Sequences, FiniteSets, FiniteSetsExt, FiniteSetTheorems, TLAPS

\* Of the subsets of a finite set with some flaw there is a smallest one.
LEMMA SmallestFlawed ==
  ASSUME NEW S, IsFiniteSet(S), NEW Flawed, Flawed \subseteq SUBSET S, Flawed # {}
  PROVE  \E T \in Flawed : \A U \in SUBSET T : U # T => U \notin Flawed
<1>1. IsWellFoundedOn(StrictSubsetOrdering(S), SUBSET S)
  BY FS_StrictSubsetOrderingWellFounded, FS_FiniteSubsetsOfFinite
<1>2. PICK T \in Flawed : \A U \in Flawed : ~(<<U, T>> \in StrictSubsetOrdering(S))
  BY <1>1, WFMin
<1>3. ASSUME NEW U \in SUBSET T, U # T, U \in Flawed
      PROVE  FALSE
  BY <1>2, <1>3 DEF StrictSubsetOrdering
<1> QED
  BY <1>2, <1>3

\* A set of naturals has a least element.
LEMMA LeastNatural ==
  ASSUME NEW S \in SUBSET Nat, S # {}
  PROVE  /\ Min(S) \in S
         /\ \A y \in S : Min(S) =< y
<1>1. PICK x \in S : \A y \in S : ~(<<y, x>> \in OpToRel(<, Nat))
  BY NatLessThanWellFounded, WFMin
<1>2. ASSUME NEW y \in S
      PROVE  x =< y
  <2>1. x \in Nat /\ y \in Nat
    OBVIOUS
  <2>2. ~(<<y, x>> \in OpToRel(<, Nat))
    BY <1>1
  <2>3. ~(y < x)
    BY <2>1, <2>2 DEF OpToRel
  <2> QED
    BY <2>1, <2>3
<1> QED
  BY <1>2 DEF Min

\* A family of finite, pairwise disjoint sets.
Disjoint(P, S) ==
  /\ \A r \in S : IsFiniteSet(P[r])
  /\ \A r, s \in S : r # s => P[r] \cap P[s] = {}

\* What the sets of the family have between them.
Members(P, S) == UNION {P[r] : r \in S}

Count(P, S) == Cardinality(Members(P, S))

\* The union of a disjoint family grows by the size of each member.
LEMMA CountMember ==
  ASSUME NEW S, IsFiniteSet(S), NEW P, Disjoint(P, S), NEW T \in SUBSET S, NEW x \in T,
         IsFiniteSet(Members(P, T \ {x}))
  PROVE  /\ IsFiniteSet(Members(P, T))
         /\ Count(P, T) = Cardinality(P[x]) + Count(P, T \ {x})
<1> DEFINE rest == Members(P, T \ {x})
<1>1. Members(P, T) = P[x] \cup rest
  BY DEF Members
<1>2. P[x] \cap rest = {}
  BY DEF Disjoint, Members
<1>3. IsFiniteSet(P[x])
  BY DEF Disjoint
<1> HIDE DEF rest
<1>4. /\ IsFiniteSet(P[x] \cup rest)
      /\ Cardinality(P[x] \cup rest) = Cardinality(P[x]) + Cardinality(rest) - Cardinality({})
  BY <1>2, <1>3, FS_Union DEF rest
<1>5. Cardinality(P[x]) \in Nat /\ Cardinality(rest) \in Nat /\ Cardinality({}) = 0
  BY <1>3, FS_EmptySet, FS_CardinalityType DEF rest
<1>6. Cardinality(P[x] \cup rest) = Cardinality(P[x]) + Cardinality(rest)
  BY <1>4, <1>5
<1> QED
  BY <1>1, <1>4, <1>6 DEF Count, rest

\* The union of a disjoint family over a finite set is finite.
LEMMA CountFinite ==
  ASSUME NEW S, IsFiniteSet(S), NEW P, Disjoint(P, S), NEW T \in SUBSET S
  PROVE  IsFiniteSet(Members(P, T)) /\ Count(P, T) \in Nat
<1> DEFINE Flawed == {U \in SUBSET S : ~IsFiniteSet(Members(P, U))}
<1>1. ASSUME Flawed # {}
      PROVE  FALSE
  <2>1. PICK U \in Flawed : \A V \in SUBSET U : V # U => V \notin Flawed
    <3>1. Flawed \subseteq SUBSET S
      OBVIOUS
    <3> HIDE DEF Flawed
    <3> QED
      BY <1>1, <3>1, SmallestFlawed
  <2>2. U # {}
    <3>1. Members(P, {}) = {}
      BY DEF Members
    <3> QED
      BY <2>1, <3>1, FS_EmptySet
  <2>3. PICK x \in U : TRUE
    BY <2>2
  <2>4. IsFiniteSet(Members(P, U \ {x}))
    BY <2>1, <2>3
  <2>5. U \in SUBSET S /\ ~IsFiniteSet(Members(P, U))
    BY <2>1
  <2> HIDE DEF Flawed
  <2> QED
    BY <2>3, <2>4, <2>5, CountMember
<1>2. IsFiniteSet(Members(P, T))
  BY <1>1
<1> QED
  BY <1>2, FS_CardinalityType DEF Count

\* The sum of the sizes of a disjoint family is the size of its union.
LEMMA SumIsCount ==
  ASSUME NEW S, IsFiniteSet(S), NEW P, Disjoint(P, S),
         NEW w, \A r \in S : w[r] = Cardinality(P[r])
  PROVE  SumFunctionOnSet(w, S) = Count(P, S)
<1> DEFINE pick(T) == CHOOSE x \in T : TRUE
           Def(g) == [T \in SUBSET S |-> IF T = {} THEN 0
                                        ELSE w[pick(T)] + g[T \ {pick(T)}]]
           count == [T \in SUBSET S |-> Count(P, T)]
           sum == CHOOSE g : g = Def(g)
<1>1. SumFunctionOnSet(w, S) = sum[S]
  BY DEF SumFunctionOnSet, FoldFunctionOnSet, MapThenFoldSet
<1>2. \A T \in SUBSET S : T # {} => pick(T) \in T
  OBVIOUS
<1> HIDE DEF pick
<1>3. count = Def(count)
  <2>1. Count(P, {}) = 0
    <3>1. Members(P, {}) = {}
      BY DEF Members
    <3> QED
      BY <3>1, FS_EmptySet DEF Count
  <2>2. ASSUME NEW T \in SUBSET S, T # {}
        PROVE  Count(P, T) = w[pick(T)] + count[T \ {pick(T)}]
    <3>1. pick(T) \in T /\ T \ {pick(T)} \in SUBSET S
      BY <1>2, <2>2
    <3>2. IsFiniteSet(Members(P, T \ {pick(T)}))
      BY <3>1, CountFinite
    <3>3. Count(P, T) = Cardinality(P[pick(T)]) + Count(P, T \ {pick(T)})
      BY <3>1, <3>2, CountMember
    <3> QED
      BY <3>1, <3>3
  <2>3. \A T \in SUBSET S :
          Count(P, T) = IF T = {} THEN 0 ELSE w[pick(T)] + count[T \ {pick(T)}]
    BY <2>1, <2>2
  <2> QED
    BY <2>3, Zenon
<1>4. sum = Def(sum)
  BY <1>3, Zenon
<1>5. \A T \in SUBSET S : sum[T] = IF T = {} THEN 0 ELSE w[pick(T)] + sum[T \ {pick(T)}]
  BY <1>4, Zenon
<1>6. \A T \in SUBSET S : count[T] = IF T = {} THEN 0 ELSE w[pick(T)] + count[T \ {pick(T)}]
  BY <1>3, Zenon
<1> HIDE DEF sum, count
<1> DEFINE Flawed == {T \in SUBSET S : sum[T] # count[T]}
<1>7. ASSUME Flawed # {}
      PROVE  FALSE
  <2>1. PICK T \in Flawed : \A U \in SUBSET T : U # T => U \notin Flawed
    <3>1. Flawed \subseteq SUBSET S
      OBVIOUS
    <3> HIDE DEF Flawed
    <3> QED
      BY <1>7, <3>1, SmallestFlawed
  <2>2. CASE T = {}
    BY <1>5, <1>6, <2>1, <2>2
  <2>3. CASE T # {}
    <3>1. /\ pick(T) \in T /\ T \ {pick(T)} \in SUBSET T /\ T \ {pick(T)} # T
          /\ T \ {pick(T)} \in SUBSET S
      BY <1>2, <2>1, <2>3
    <3>2. sum[T \ {pick(T)}] = count[T \ {pick(T)}]
      BY <2>1, <3>1
    <3> QED
      BY <1>5, <1>6, <2>1, <2>3, <3>2
  <2> QED
    BY <2>2, <2>3
<1>8. sum[S] = count[S]
  BY <1>7
<1> QED
  BY <1>1, <1>8 DEF count

-----------------------------------------------------------------------------
(* Sums of natural numbers *)

\* Naturals over S as a disjoint family with as many members.
Units(w, S) == [r \in S |-> {r} \X (1..w[r])]

LEMMA UnitsFacts ==
  ASSUME NEW S, NEW w, \A r \in S : w[r] \in Nat
  PROVE  /\ Disjoint(Units(w, S), S)
         /\ \A r \in S : w[r] = Cardinality(Units(w, S)[r])
<1>1. ASSUME NEW r \in S
      PROVE  /\ IsFiniteSet(Units(w, S)[r])
             /\ Cardinality(Units(w, S)[r]) = w[r]
  <2>1. Units(w, S)[r] = {r} \X (1..w[r])
    BY DEF Units
  <2>2. IsFiniteSet({r}) /\ Cardinality({r}) = 1
    BY FS_Singleton
  <2>3. IsFiniteSet(1..w[r]) /\ Cardinality(1..w[r]) = w[r]
    <3>1. w[r] \in Nat /\ 1 \in Int
      OBVIOUS
    <3>2. IsFiniteSet(1..w[r])
          /\ Cardinality(1..w[r]) = IF 1 > w[r] THEN 0 ELSE w[r] - 1 + 1
      <4> DEFINE m == w[r]
      <4>1. m \in Int
        BY <3>1
      <4> HIDE DEF m
      <4>2. IsFiniteSet(1..m) /\ Cardinality(1..m) = IF 1 > m THEN 0 ELSE m - 1 + 1
        BY ONLY <4>1, FS_Interval
      <4> QED
        BY <4>2 DEF m
    <3> QED
      BY <3>1, <3>2
  <2>4. /\ IsFiniteSet({r} \X (1..w[r]))
        /\ Cardinality({r} \X (1..w[r])) = Cardinality({r}) * Cardinality(1..w[r])
    BY <2>2, <2>3, FS_Product
  <2> QED
    BY <2>1, <2>2, <2>3, <2>4
<1>2. ASSUME NEW r \in S, NEW s \in S, r # s
      PROVE  Units(w, S)[r] \cap Units(w, S)[s] = {}
  BY <1>2 DEF Units
<1> QED
  BY <1>1, <1>2 DEF Disjoint

\* The empty sum is 0.
LEMMA SumEmpty ==
  ASSUME NEW w
  PROVE  SumFunctionOnSet(w, {}) = 0
<1> DEFINE none == [r \in {} |-> {}]
<1>1. Members(none, {}) = {}
  BY DEF Members
<1>2. Disjoint(none, {}) /\ IsFiniteSet({})
  BY FS_EmptySet DEF Disjoint
<1>3. SumFunctionOnSet(w, {}) = Count(none, {})
  BY <1>2, SumIsCount
<1> QED
  BY <1>1, <1>3, FS_EmptySet DEF Count

\* A sum of naturals is a natural.
LEMMA SumInNat ==
  ASSUME NEW S, IsFiniteSet(S), NEW w, \A r \in S : w[r] \in Nat
  PROVE  SumFunctionOnSet(w, S) \in Nat
<1>1. /\ Disjoint(Units(w, S), S)
      /\ \A r \in S : w[r] = Cardinality(Units(w, S)[r])
  BY UnitsFacts
<1>2. SumFunctionOnSet(w, S) = Count(Units(w, S), S)
  BY <1>1, SumIsCount
<1>3. Count(Units(w, S), S) \in Nat
  BY <1>1, CountFinite
<1> QED
  BY <1>2, <1>3

\* A sum may be taken apart at any one of its terms.
LEMMA SumMember ==
  ASSUME NEW S, IsFiniteSet(S), NEW w, \A r \in S : w[r] \in Nat,
         NEW T \in SUBSET S, NEW x \in T
  PROVE  SumFunctionOnSet(w, T) = w[x] + SumFunctionOnSet(w, T \ {x})
<1> DEFINE P == Units(w, S)
<1>1. /\ Disjoint(P, S)
      /\ \A r \in S : w[r] = Cardinality(P[r])
  BY UnitsFacts
<1> HIDE DEF P
<1>2. ASSUME NEW U \in SUBSET S
      PROVE  SumFunctionOnSet(w, U) = Count(P, U)
  <2>1. IsFiniteSet(U)
    BY FS_Subset
  <2>2. Disjoint(P, U) /\ \A r \in U : w[r] = Cardinality(P[r])
    BY <1>1 DEF Disjoint
  <2> QED
    BY <2>1, <2>2, SumIsCount
<1>3. T \ {x} \in SUBSET S
  OBVIOUS
<1>4. IsFiniteSet(Members(P, T \ {x}))
  BY <1>1, <1>3, CountFinite
<1>5. Count(P, T) = Cardinality(P[x]) + Count(P, T \ {x})
  BY <1>1, <1>4, CountMember
<1>6. /\ SumFunctionOnSet(w, T) = Count(P, T)
      /\ SumFunctionOnSet(w, T \ {x}) = Count(P, T \ {x})
  BY <1>2, <1>3
<1>7. w[x] = Cardinality(P[x])
  BY <1>1
<1> QED
  BY <1>5, <1>6, <1>7

\* Terms that are 0 may be left out.
LEMMA SumSupport ==
  ASSUME NEW S, IsFiniteSet(S), NEW w, \A r \in S : w[r] \in Nat,
         NEW T \in SUBSET S, \A r \in S \ T : w[r] = 0
  PROVE  SumFunctionOnSet(w, S) = SumFunctionOnSet(w, T)
<1> DEFINE P == Units(w, S)
<1>1. /\ Disjoint(P, S)
      /\ \A r \in S : w[r] = Cardinality(P[r])
  BY UnitsFacts
<1>2. \A r \in S \ T : P[r] = {}
  BY DEF Units
<1> HIDE DEF P
<1>3. Members(P, S) = Members(P, T)
  BY <1>2 DEF Members
<1>4. SumFunctionOnSet(w, S) = Count(P, S)
  BY <1>1, SumIsCount
<1>5. SumFunctionOnSet(w, T) = Count(P, T)
  <2>1. IsFiniteSet(T)
    BY FS_Subset
  <2>2. Disjoint(P, T) /\ \A r \in T : w[r] = Cardinality(P[r])
    BY <1>1 DEF Disjoint
  <2> QED
    BY <2>1, <2>2, SumIsCount
<1> QED
  BY <1>3, <1>4, <1>5 DEF Count

\* A sum over fewer terms is not greater.
LEMMA SumSubset ==
  ASSUME NEW S, IsFiniteSet(S), NEW w, \A r \in S : w[r] \in Nat, NEW T \in SUBSET S
  PROVE  SumFunctionOnSet(w, T) =< SumFunctionOnSet(w, S)
<1> DEFINE P == Units(w, S)
<1>1. /\ Disjoint(P, S)
      /\ \A r \in S : w[r] = Cardinality(P[r])
  BY UnitsFacts
<1> HIDE DEF P
<1>2. SumFunctionOnSet(w, S) = Count(P, S) /\ IsFiniteSet(Members(P, S))
  BY <1>1, SumIsCount, CountFinite
<1>3. SumFunctionOnSet(w, T) = Count(P, T)
  <2>1. IsFiniteSet(T)
    BY FS_Subset
  <2>2. Disjoint(P, T) /\ \A r \in T : w[r] = Cardinality(P[r])
    BY <1>1 DEF Disjoint
  <2> QED
    BY <2>1, <2>2, SumIsCount
<1>4. Members(P, T) \in SUBSET Members(P, S)
  BY DEF Members
<1> QED
  BY <1>2, <1>3, <1>4, FS_Subset DEF Count

\* If every c * w[r] exceeds v[r] by at most d, the sums differ accordingly.
LEMMA SumBound ==
  ASSUME NEW S, IsFiniteSet(S), NEW c \in Nat, NEW d \in Nat,
         NEW w, NEW v, \A r \in S : w[r] \in Nat /\ v[r] \in Nat /\ c * w[r] =< v[r] + d
  PROVE  c * SumFunctionOnSet(w, S) =< SumFunctionOnSet(v, S) + d * Cardinality(S)
<1> DEFINE W(T) == SumFunctionOnSet(w, T)
           V(T) == SumFunctionOnSet(v, T)
           Flawed == {T \in SUBSET S : ~(c * W(T) =< V(T) + d * Cardinality(T))}
<1>1. ASSUME NEW T \in SUBSET S
      PROVE  IsFiniteSet(T) /\ Cardinality(T) \in Nat /\ W(T) \in Nat /\ V(T) \in Nat
  <2>1. IsFiniteSet(T)
    BY FS_Subset
  <2> QED
    BY <2>1, FS_CardinalityType, SumInNat
<1>2. ASSUME NEW T \in SUBSET S, NEW x \in T
      PROVE  /\ W(T) = w[x] + W(T \ {x})
             /\ V(T) = v[x] + V(T \ {x})
             /\ Cardinality(T) = 1 + Cardinality(T \ {x})
  <2>1. W(T) = w[x] + W(T \ {x}) /\ V(T) = v[x] + V(T \ {x})
    BY SumMember
  <2>2. Cardinality(T \ {x}) = Cardinality(T) - 1
    BY <1>1, FS_RemoveElement
  <2>3. Cardinality(T) \in Nat /\ Cardinality(T \ {x}) \in Nat
    BY <1>1
  <2> QED
    BY <2>1, <2>2, <2>3
<1>3. W({}) = 0 /\ V({}) = 0 /\ Cardinality({}) = 0
  BY SumEmpty, FS_EmptySet
<1> HIDE DEF W, V
<1>4. ASSUME Flawed # {}
      PROVE  FALSE
  <2>1. PICK T \in Flawed : \A U \in SUBSET T : U # T => U \notin Flawed
    <3>1. Flawed \subseteq SUBSET S
      OBVIOUS
    <3> HIDE DEF Flawed
    <3> QED
      BY <1>4, <3>1, SmallestFlawed
  <2>2. T # {}
    <3>1. c * 0 =< 0 + d * 0
      OBVIOUS
    <3>2. c * W({}) =< V({}) + d * Cardinality({})
      BY <1>3, <3>1
    <3> QED
      BY <2>1, <3>2
  <2>3. PICK x \in T : TRUE
    BY <2>2
  <2>4. c * W(T \ {x}) =< V(T \ {x}) + d * Cardinality(T \ {x})
    BY <2>1, <2>3
  <2>5. /\ W(T) = w[x] + W(T \ {x})
        /\ V(T) = v[x] + V(T \ {x})
        /\ Cardinality(T) = 1 + Cardinality(T \ {x})
    BY <1>2, <2>1, <2>3
  <2>6. /\ W(T \ {x}) \in Nat /\ V(T \ {x}) \in Nat /\ Cardinality(T \ {x}) \in Nat
    BY <1>1, <2>1
  <2>7. w[x] \in Nat /\ v[x] \in Nat /\ c * w[x] =< v[x] + d
    BY <2>1, <2>3
  <2>8. ASSUME NEW a \in Nat, NEW b \in Nat, NEW n \in Nat
        PROVE  c * (a + b) = c * a + c * b /\ d * (1 + n) = d + d * n
               /\ c * a \in Nat /\ c * b \in Nat /\ d * n \in Nat
    OBVIOUS
  <2>9. /\ c * W(T) = c * w[x] + c * W(T \ {x})
        /\ d * Cardinality(T) = d + d * Cardinality(T \ {x})
        /\ c * w[x] \in Nat /\ c * W(T \ {x}) \in Nat /\ d * Cardinality(T \ {x}) \in Nat
    BY <2>5, <2>6, <2>7, <2>8
  <2>10. c * W(T) =< V(T) + d * Cardinality(T)
    BY <2>4, <2>5, <2>6, <2>7, <2>9
  <2> QED
    BY <2>1, <2>10
<1> QED
  BY <1>4 DEF W, V

-----------------------------------------------------------------------------
(* Sums over 1..n, as torch.cumsum has them *)

\* A finite sum without one of its terms.
LEMMA SumRemove ==
  ASSUME NEW S, IsFiniteSet(S), NEW w, \A r \in S : w[r] \in Nat, NEW x \in S
  PROVE  SumFunctionOnSet(w, S) = w[x] + SumFunctionOnSet(w, S \ {x})
<1>1. S \in SUBSET S
  OBVIOUS
<1> QED
  BY <1>1, SumMember

\* Each term raises the running sum by itself.
LEMMA PrefixSum ==
  ASSUME NEW n \in Nat, NEW w, \A b \in 1..n : w[b] \in Nat
  PROVE  /\ SumFunctionOnSet(w, 1..0) = 0
         /\ \A b \in 0..n : SumFunctionOnSet(w, 1..b) \in Nat
         /\ \A b \in 1..n :
              SumFunctionOnSet(w, 1..b) = w[b] + SumFunctionOnSet(w, 1..(b - 1))
         /\ \A a, b \in 0..n :
              a =< b => SumFunctionOnSet(w, 1..a) =< SumFunctionOnSet(w, 1..b)
<1>1. IsFiniteSet(1..n)
  BY FS_Interval
<1>2. SumFunctionOnSet(w, 1..0) = 0
  <2>1. 1..0 = {}
    OBVIOUS
  <2> QED
    BY <2>1, SumEmpty
<1>3. ASSUME NEW b \in 0..n
      PROVE  SumFunctionOnSet(w, 1..b) \in Nat
  <2>1. IsFiniteSet(1..b) /\ \A r \in 1..b : w[r] \in Nat
    BY FS_Interval
  <2> QED
    BY <2>1, SumInNat
<1>4. ASSUME NEW b \in 1..n
      PROVE  SumFunctionOnSet(w, 1..b) = w[b] + SumFunctionOnSet(w, 1..(b - 1))
  <2>1. 1..b \in SUBSET (1..n) /\ b \in 1..b /\ (1..b) \ {b} = 1..(b - 1)
    OBVIOUS
  <2> DEFINE T == 1..b
  <2>2. IsFiniteSet(T) /\ b \in T /\ \A r \in T : w[r] \in Nat
    BY <2>1, FS_Interval
  <2> HIDE DEF T
  <2>3. SumFunctionOnSet(w, T) = w[b] + SumFunctionOnSet(w, T \ {b})
    BY <2>2, SumRemove
  <2> QED
    BY <2>1, <2>3 DEF T
<1>5. ASSUME NEW a \in 0..n, NEW b \in 0..n, a =< b
      PROVE  SumFunctionOnSet(w, 1..a) =< SumFunctionOnSet(w, 1..b)
  <2>1. IsFiniteSet(1..b) /\ (\A r \in 1..b : w[r] \in Nat) /\ 1..a \in SUBSET (1..b)
    BY <1>5, FS_Interval
  <2> QED
    BY <2>1, SumSubset
<1> QED
  BY <1>2, <1>3, <1>4, <1>5

\* torch.searchsorted in the running sums: every j below the whole sum lies
\* in the stretch of exactly one term.
LEMMA PrefixSumOwner ==
  ASSUME NEW n \in Nat, NEW w, \A b \in 1..n : w[b] \in Nat,
         NEW j \in Nat, j < SumFunctionOnSet(w, 1..n),
         NEW o, o = Min({b \in 1..n : SumFunctionOnSet(w, 1..b) > j})
  PROVE  /\ o \in 1..n
         /\ SumFunctionOnSet(w, 1..(o - 1)) =< j
         /\ j < SumFunctionOnSet(w, 1..o)
         /\ \A b \in 1..n :
              /\ SumFunctionOnSet(w, 1..(b - 1)) =< j
              /\ j < SumFunctionOnSet(w, 1..b)
              => b = o
<1> DEFINE Sum(b) == SumFunctionOnSet(w, 1..b)
           After == {b \in 1..n : Sum(b) > j}
<1>1. /\ Sum(0) = 0
      /\ \A b \in 0..n : Sum(b) \in Nat
      /\ \A a, b \in 0..n : a =< b => Sum(a) =< Sum(b)
  BY PrefixSum
<1>2. j < Sum(n)
  OBVIOUS
<1> HIDE DEF Sum
<1>3. n \in After
  <2>1. n # 0
    BY <1>1, <1>2
  <2> QED
    BY <1>1, <1>2, <2>1
<1>4. After \in SUBSET Nat /\ After # {}
  BY <1>3
<1>5. Min(After) \in After /\ \A b \in After : Min(After) =< b
  BY <1>4, LeastNatural
<1>6. o = Min(After)
  BY DEF Sum
<1>7. o \in 1..n /\ j < Sum(o) /\ \A b \in 1..n : Sum(b) > j => o =< b
  BY <1>1, <1>5, <1>6
<1>8. Sum(o - 1) =< j
  <2>1. CASE o = 1
    BY <1>1, <2>1
  <2>2. CASE o # 1
    <3>1. o - 1 \in 1..n /\ ~(o =< o - 1)
      BY <1>7, <2>2
    <3> QED
      BY <1>1, <1>7, <3>1
  <2> QED
    BY <2>1, <2>2
<1>9. ASSUME NEW b \in 1..n, Sum(b - 1) =< j, j < Sum(b)
      PROVE  b = o
  <2>1. o =< b
    BY <1>1, <1>7, <1>9
  <2>2. ~(o =< b - 1)
    <3>1. ASSUME o =< b - 1
          PROVE  FALSE
      <4>1. Sum(o) =< Sum(b - 1)
        BY <1>1, <1>7, <3>1
      <4>2. Sum(o) \in Nat /\ Sum(b - 1) \in Nat
        BY <1>1, <1>7
      <4> QED
        BY <1>7, <1>9, <4>1, <4>2
    <3> QED
      BY <3>1
  <2> QED
    BY <1>7, <2>1, <2>2
<1> QED
  BY <1>7, <1>8, <1>9 DEF Sum

\* Numbers all scaled by c add up to the scaled sum.
LEMMA SumScale ==
  ASSUME NEW S, IsFiniteSet(S), NEW c \in Nat, NEW w, NEW v,
         \A r \in S : w[r] \in Nat /\ v[r] \in Nat /\ v[r] = w[r] * c
  PROVE  SumFunctionOnSet(v, S) = SumFunctionOnSet(w, S) * c
<1> DEFINE W(T) == SumFunctionOnSet(w, T)
           V(T) == SumFunctionOnSet(v, T)
           Flawed == {T \in SUBSET S : V(T) # W(T) * c}
<1>1. ASSUME NEW T \in SUBSET S
      PROVE  W(T) \in Nat /\ V(T) \in Nat
  <2>1. IsFiniteSet(T)
    BY FS_Subset
  <2> QED
    BY <2>1, SumInNat
<1>2. SUFFICES ASSUME Flawed # {}
               PROVE  FALSE
  <2>1. S \in SUBSET S
    OBVIOUS
  <2> QED
    BY <2>1
<1>3. PICK T \in Flawed : \A U \in SUBSET T : U # T => U \notin Flawed
  <2>1. Flawed \subseteq SUBSET S
    OBVIOUS
  <2> HIDE DEF Flawed
  <2> QED
    BY <1>2, <2>1, SmallestFlawed
<1>4. T \in SUBSET S /\ V(T) # W(T) * c
  BY <1>3
<1>5. CASE T = {}
  <2>1. W(T) = 0 /\ V(T) = 0
    BY <1>5, SumEmpty
  <2> HIDE DEF W, V
  <2> QED
    BY <1>4, <2>1
<1>6. CASE T # {}
  <2>1. PICK x \in T : TRUE
    BY <1>6
  <2> DEFINE U == T \ {x}
  <2>2. U \in SUBSET T /\ U # T /\ U \in SUBSET S /\ x \in S
    BY <1>4, <2>1
  <2>3. V(U) = W(U) * c
    BY <1>3, <2>2
  <2>4. W(T) = w[x] + W(U) /\ V(T) = v[x] + V(U)
    BY <1>4, <2>1, SumMember
  <2>5. /\ W(U) \in Nat /\ V(U) \in Nat /\ w[x] \in Nat /\ v[x] = w[x] * c
    BY <1>1, <2>2
  <2> HIDE DEF W, V
  <2>6. ASSUME NEW m \in Nat, NEW n \in Nat
        PROVE  m * c + n * c = (m + n) * c
    OBVIOUS
  <2>7. v[x] + V(U) = (w[x] + W(U)) * c
    BY <2>3, <2>5, <2>6
  <2> QED
    BY <1>4, <2>4, <2>7
<1> QED
  BY <1>5, <1>6

-----------------------------------------------------------------------------
(* Folds *)

\* g folds the sets of dom: it takes the members in the order c has them, and
\* applies F to each and to the result so far.
IsFold(g, dom, X, base, F, c) ==
  /\ g \in [dom -> X]
  /\ \A T \in dom : g[T] = IF T = {} THEN base ELSE F[<<c[T], g[T \ {c[T]}]>>]

\* A fold over a finite set exists.
LEMMA FoldExists ==
  ASSUME NEW S, IsFiniteSet(S), NEW X, NEW base \in X, NEW F \in [S \X X -> X],
         NEW c, \A T \in SUBSET S : T # {} => c[T] \in T
  PROVE  \E g : IsFold(g, SUBSET S, X, base, F, c)
\* Two folds agree where both are defined.
<1>0. ASSUME NEW A \in SUBSET S, NEW V \in SUBSET A,
             NEW g, IsFold(g, SUBSET A, X, base, F, c),
             NEW h, IsFold(h, SUBSET V, X, base, F, c)
      PROVE  g[V] = h[V]
  <2> DEFINE Flawed == {T \in SUBSET V : g[T] # h[T]}
  <2>1. SUFFICES ASSUME Flawed # {}
                 PROVE  FALSE
    OBVIOUS
  <2>2. PICK T \in Flawed : \A U \in SUBSET T : U # T => U \notin Flawed
    <3>1. Flawed \subseteq SUBSET S
      OBVIOUS
    <3> HIDE DEF Flawed
    <3> QED
      BY <2>1, <3>1, SmallestFlawed
  <2>3. T \in SUBSET V /\ g[T] # h[T] /\ T \in SUBSET A /\ T \in SUBSET S
    BY <2>2
  <2>4. /\ g[T] = IF T = {} THEN base ELSE F[<<c[T], g[T \ {c[T]}]>>]
        /\ h[T] = IF T = {} THEN base ELSE F[<<c[T], h[T \ {c[T]}]>>]
    BY <1>0, <2>3 DEF IsFold
  <2>5. CASE T = {}
    BY <2>3, <2>4, <2>5
  <2>6. CASE T # {}
    <3>1. c[T] \in T
      BY <2>3, <2>6
    <3>2. T \ {c[T]} \in SUBSET T /\ T \ {c[T]} # T /\ T \ {c[T]} \in SUBSET V
      BY <2>3, <3>1
    <3>3. g[T \ {c[T]}] = h[T \ {c[T]}]
      BY <2>2, <3>2
    <3> QED
      BY <2>3, <2>4, <2>6, <3>3
  <2> QED
    BY <2>5, <2>6
<1> DEFINE Flawed == {T \in SUBSET S : ~\E g : IsFold(g, SUBSET T, X, base, F, c)}
<1>1. SUFFICES ASSUME Flawed # {}
               PROVE  FALSE
  OBVIOUS
<1>2. PICK T \in Flawed : \A U \in SUBSET T : U # T => U \notin Flawed
  <2>1. Flawed \subseteq SUBSET S
    OBVIOUS
  <2> HIDE DEF Flawed
  <2> QED
    BY <1>1, <2>1, SmallestFlawed
<1>3. T \in SUBSET S /\ ~\E g : IsFold(g, SUBSET T, X, base, F, c)
  BY <1>2
<1> DEFINE fold(U) == CHOOSE g : IsFold(g, SUBSET U, X, base, F, c)
           last == T \ {c[T]}
           h == [U \in SUBSET T |-> IF U = {} THEN base
                                    ELSE IF U = T THEN F[<<c[T], fold(last)[last]>>]
                                    ELSE fold(U)[U]]
<1>4. ASSUME NEW U \in SUBSET T, U # T
      PROVE  IsFold(fold(U), SUBSET U, X, base, F, c) /\ fold(U)[U] \in X
  <2>1. \E g : IsFold(g, SUBSET U, X, base, F, c)
    BY <1>2, <1>3, <1>4
  <2>2. IsFold(fold(U), SUBSET U, X, base, F, c)
    BY <2>1
  <2> HIDE DEF fold
  <2> QED
    BY <2>2 DEF IsFold
<1> HIDE DEF fold
<1>5. ASSUME NEW U \in SUBSET T, U # {}
      PROVE  c[U] \in U /\ c[U] \in S /\ U \ {c[U]} \in SUBSET T /\ U \ {c[U]} # T
  <2>1. U \in SUBSET S
    BY <1>3
  <2>2. c[U] \in U
    BY <1>5, <2>1
  <2> QED
    BY <1>3, <2>2
<1>6. h \in [SUBSET T -> X]
  <2>1. ASSUME NEW U \in SUBSET T, U = T, U # {}
        PROVE  F[<<c[T], fold(last)[last]>>] \in X
    BY <1>4, <1>5, <2>1
  <2> QED
    BY <1>4, <2>1
<1>7. ASSUME NEW U \in SUBSET T
      PROVE  h[U] = IF U = {} THEN base ELSE F[<<c[U], h[U \ {c[U]}]>>]
  <2>1. CASE U = {}
    BY <2>1
  <2>2. CASE U # {}
    <3> DEFINE W == U \ {c[U]}
    <3>1. c[U] \in U /\ W \in SUBSET T /\ W # T /\ W \in SUBSET U
      BY <1>5, <2>2
    <3>2. IsFold(fold(W), SUBSET W, X, base, F, c)
      BY <1>4, <3>1
    <3>3. h[W] = fold(W)[W]
      <4>1. CASE W = {}
        <5>1. fold(W)[W] = base
          BY <3>2, <4>1 DEF IsFold
        <5> HIDE DEF W
        <5>2. h[W] = base
          BY <3>1, <4>1
        <5> QED
          BY <5>1, <5>2
      <4>2. CASE W # {}
        <5> HIDE DEF W
        <5> QED
          BY <3>1, <4>2
      <4> QED
        BY <4>1, <4>2
    <3>4. CASE U = T
      <4>1. h[U] = F[<<c[T], fold(last)[last]>>] /\ W = last
        BY <2>2, <3>4
      <4> HIDE DEF h, W, last
      <4>2. h[U] = F[<<c[U], h[W]>>]
        BY <3>3, <3>4, <4>1
      <4> QED
        BY <2>2, <4>2 DEF W
    <3>5. CASE U # T
      <4>1. h[U] = fold(U)[U]
        BY <2>2, <3>5
      <4>2. IsFold(fold(U), SUBSET U, X, base, F, c)
        BY <1>4, <3>5
      <4>3. fold(U)[U] = F[<<c[U], fold(U)[W]>>]
        BY <2>2, <4>2 DEF IsFold
      <4> HIDE DEF h, W
      <4>4. fold(U)[W] = fold(W)[W]
        <5>1. U \in SUBSET S /\ W \in SUBSET U
          BY <1>3, <3>1
        <5> QED
          BY <1>0, <3>2, <4>2, <5>1
      <4>5. h[U] = F[<<c[U], h[W]>>]
        BY <3>3, <4>1, <4>3, <4>4
      <4> QED
        BY <2>2, <4>5 DEF W
    <3> QED
      BY <3>4, <3>5
  <2> QED
    BY <2>1, <2>2
<1>8. IsFold(h, SUBSET T, X, base, F, c)
  <2> HIDE DEF h
  <2> QED
    BY <1>6, <1>7 DEF IsFold
<1> QED
  BY <1>3, <1>8

\* Functions that agree on a set have the same sum there.
LEMMA SumAgree ==
  ASSUME NEW S, IsFiniteSet(S), NEW w, NEW v, \A r \in S : w[r] \in Nat /\ v[r] = w[r]
  PROVE  SumFunctionOnSet(v, S) = SumFunctionOnSet(w, S)
<1>1. \A r \in S : w[r] \in Nat /\ v[r] \in Nat /\ v[r] = w[r] * 1
  OBVIOUS
<1>2. SumFunctionOnSet(v, S) = SumFunctionOnSet(w, S) * 1
  BY <1>1, SumScale
<1>3. SumFunctionOnSet(w, S) \in Nat
  BY <1>1, SumInNat
<1> QED
  BY <1>2, <1>3

\* Sums of terms add up.
LEMMA SumPlus ==
  ASSUME NEW S, IsFiniteSet(S), NEW u, NEW w, NEW v,
         \A r \in S : u[r] \in Nat /\ w[r] \in Nat /\ v[r] = u[r] + w[r]
  PROVE  SumFunctionOnSet(v, S) = SumFunctionOnSet(u, S) + SumFunctionOnSet(w, S)
<1> DEFINE U(T) == SumFunctionOnSet(u, T)
           W(T) == SumFunctionOnSet(w, T)
           V(T) == SumFunctionOnSet(v, T)
           Flawed == {T \in SUBSET S : V(T) # U(T) + W(T)}
<1>0. \A r \in S : v[r] \in Nat
  OBVIOUS
<1>1. ASSUME NEW T \in SUBSET S
      PROVE  U(T) \in Nat /\ W(T) \in Nat /\ V(T) \in Nat
  <2>1. IsFiniteSet(T)
    BY FS_Subset
  <2> QED
    BY <1>0, <2>1, SumInNat
<1>2. SUFFICES ASSUME Flawed # {}
               PROVE  FALSE
  <2>1. S \in SUBSET S
    OBVIOUS
  <2> QED
    BY <2>1
<1>3. PICK T \in Flawed : \A X \in SUBSET T : X # T => X \notin Flawed
  <2>1. Flawed \subseteq SUBSET S
    OBVIOUS
  <2> HIDE DEF Flawed
  <2> QED
    BY <1>2, <2>1, SmallestFlawed
<1>4. T \in SUBSET S /\ V(T) # U(T) + W(T)
  BY <1>3
<1>5. CASE T = {}
  <2>1. U(T) = 0 /\ W(T) = 0 /\ V(T) = 0
    BY <1>5, SumEmpty
  <2> HIDE DEF U, W, V
  <2> QED
    BY <1>4, <2>1
<1>6. CASE T # {}
  <2>1. PICK x \in T : TRUE
    BY <1>6
  <2> DEFINE X == T \ {x}
  <2>2. X \in SUBSET T /\ X # T /\ X \in SUBSET S /\ x \in S
    BY <1>4, <2>1
  <2>3. V(X) = U(X) + W(X)
    BY <1>3, <2>2
  <2>4. U(T) = u[x] + U(X) /\ W(T) = w[x] + W(X)
    BY <1>4, <2>1, SumMember
  <2>5. V(T) = v[x] + V(X)
    BY <1>0, <1>4, <2>1, SumMember
  <2>6. /\ U(X) \in Nat /\ W(X) \in Nat
        /\ u[x] \in Nat /\ w[x] \in Nat /\ v[x] = u[x] + w[x]
    BY <1>1, <2>2
  <2> HIDE DEF U, W, V, X
  <2> QED
    BY <1>4, <2>3, <2>4, <2>5, <2>6
<1> QED
  BY <1>5, <1>6

\* Larger terms have a larger sum.
LEMMA SumMonotone ==
  ASSUME NEW S, IsFiniteSet(S), NEW w, NEW v,
         \A r \in S : w[r] \in Nat /\ v[r] \in Nat /\ w[r] =< v[r]
  PROVE  SumFunctionOnSet(w, S) =< SumFunctionOnSet(v, S)
<1>1. \A r \in S : w[r] \in Nat /\ v[r] \in Nat /\ 1 * w[r] =< v[r] + 0
  OBVIOUS
<1>2. 1 * SumFunctionOnSet(w, S) =< SumFunctionOnSet(v, S) + 0 * Cardinality(S)
  BY <1>1, SumBound
<1>3. SumFunctionOnSet(w, S) \in Nat /\ SumFunctionOnSet(v, S) \in Nat /\ Cardinality(S) \in Nat
  BY <1>1, SumInNat, FS_CardinalityType
<1> QED
  BY <1>2, <1>3

\* A sum of the same term over a part of a set.
LEMMA SumConstant ==
  ASSUME NEW S, IsFiniteSet(S), NEW T \in SUBSET S, NEW c \in Nat,
         NEW w, \A r \in S : w[r] = IF r \in T THEN c ELSE 0
  PROVE  SumFunctionOnSet(w, S) =< Cardinality(T) * c
<1> DEFINE one == [r \in S |-> IF r \in T THEN 1 ELSE 0]
           none == [r \in S |-> 0]
<1>1. IsFiniteSet(T) /\ Cardinality(T) \in Nat
  BY FS_Subset, FS_CardinalityType
<1>2. SumFunctionOnSet(w, S) = SumFunctionOnSet(one, S) * c
  <2>1. \A r \in S : one[r] \in Nat /\ w[r] \in Nat /\ w[r] = one[r] * c
    OBVIOUS
  <2> HIDE DEF one
  <2> QED
    BY <2>1, SumScale
<1>3. SumFunctionOnSet(one, S) = SumFunctionOnSet(one, T)
  <2>1. (\A r \in S : one[r] \in Nat) /\ \A r \in S \ T : one[r] = 0
    OBVIOUS
  <2> HIDE DEF one
  <2> QED
    BY <2>1, SumSupport
<1>4. SumFunctionOnSet(none, T) = 0
  <2>1. (\A r \in T : none[r] \in Nat) /\ \A r \in T \ {} : none[r] = 0
    OBVIOUS
  <2> HIDE DEF none
  <2>2. SumFunctionOnSet(none, T) = SumFunctionOnSet(none, {})
    BY <1>1, <2>1, SumSupport
  <2> QED
    BY <2>2, SumEmpty
<1>5. SumFunctionOnSet(one, T) =< Cardinality(T) /\ SumFunctionOnSet(one, T) \in Nat
  <2>1. \A r \in T : one[r] \in Nat /\ none[r] \in Nat /\ 1 * one[r] =< none[r] + 1
    OBVIOUS
  <2> HIDE DEF one, none
  <2>2. 1 * SumFunctionOnSet(one, T) =< SumFunctionOnSet(none, T) + 1 * Cardinality(T)
    BY <1>1, <2>1, SumBound
  <2>3. SumFunctionOnSet(one, T) \in Nat
    BY <1>1, <2>1, SumInNat
  <2> QED
    BY <1>1, <1>4, <2>2, <2>3
<1> HIDE DEF one
<1>6. ASSUME NEW m \in Nat, NEW n \in Nat, m =< n
      PROVE  m * c =< n * c
  <2>1. PICK d \in Nat : n = m + d
    <3>1. n - m \in Nat /\ n = m + (n - m)
      BY <1>6
    <3> QED
      BY <3>1
  <2>2. n * c = m * c + d * c /\ d * c \in Nat /\ m * c \in Nat
    BY <2>1
  <2> QED
    BY <2>2
<1> QED
  BY <1>1, <1>2, <1>3, <1>5, <1>6

\* The latest of some positions.
LEMMA MaxIn ==
  ASSUME NEW n \in Nat, NEW T \in SUBSET (1..n), T # {}
  PROVE  Max(T) \in T
<1>1. IsFiniteSet(T)
  <2>1. IsFiniteSet(1..n)
    BY FS_Interval
  <2> QED
    BY <2>1, FS_Subset
<1> DEFINE Flawed == {U \in SUBSET T : U # {} /\ ~\E x \in U : \A y \in U : x >= y}
<1>2. Flawed = {}
  <2>1. SUFFICES ASSUME Flawed # {}
                 PROVE  FALSE
    OBVIOUS
  <2>2. PICK U \in Flawed : \A V \in SUBSET U : V # U => V \notin Flawed
    <3>1. Flawed \subseteq SUBSET T
      OBVIOUS
    <3> HIDE DEF Flawed
    <3> QED
      BY <1>1, <2>1, <3>1, SmallestFlawed
  <2>3. U \in SUBSET T /\ U # {} /\ ~\E x \in U : \A y \in U : x >= y
    BY <2>2
  <2>4. PICK z \in U : TRUE
    BY <2>3
  <2> DEFINE V == U \ {z}
  <2>5. V \in SUBSET U /\ V # U /\ V \in SUBSET T
    BY <2>3, <2>4
  <2>6. \A x \in U : x \in Int
    BY <2>3
  <2>7. CASE V = {}
    <3>1. \A y \in U : z >= y
      BY <2>4, <2>6, <2>7
    <3> QED
      BY <2>3, <2>4, <3>1
  <2>8. CASE V # {}
    <3>1. PICK x \in V : \A y \in V : x >= y
      BY <2>2, <2>5, <2>8
    <3>2. CASE x >= z
      <4>1. \A y \in U : x >= y
        BY <3>1, <3>2
      <4> QED
        BY <2>3, <3>1, <4>1
    <3>3. CASE ~(x >= z)
      <4>1. x \in Int /\ z \in Int
        BY <2>4, <2>6, <3>1
      <4>2. \A y \in U : z >= y
        BY <2>6, <3>1, <3>3, <4>1
      <4> QED
        BY <2>3, <2>4, <4>2
    <3> QED
      BY <3>2, <3>3
  <2> QED
    BY <2>7, <2>8
<1>3. \E x \in T : \A y \in T : x >= y
  <2>1. T \notin Flawed
    BY <1>2
  <2> QED
    BY <2>1
<1> QED
  BY <1>3 DEF Max

\* A prefix of 1..n ends where it ends.
LEMMA PrefixLast ==
  ASSUME NEW n \in Nat, NEW i \in 1..n
  PROVE  /\ 1..i \in SUBSET (1..n) /\ 1..i # {}
         /\ Max(1..i) = i /\ (1..i) \ {i} = 1..(i - 1)
<1>1. 1..i \in SUBSET (1..n) /\ i \in 1..i /\ (1..i) \ {i} = 1..(i - 1)
  OBVIOUS
<1>2. \E x \in 1..i : \A y \in 1..i : x >= y
  <2>1. \A y \in 1..i : i >= y
    OBVIOUS
  <2> QED
    BY <1>1, <2>1
<1>3. Max(1..i) \in 1..i /\ \A y \in 1..i : Max(1..i) >= y
  BY <1>2 DEF Max
<1>4. Max(1..i) >= i /\ Max(1..i) =< i
  BY <1>1, <1>3
<1> QED
  BY <1>1, <1>3, <1>4

\* g folds every set of positions of a list of length n from base, with F.
IsListFold(g, n, X, base, F) ==
  /\ g \in [SUBSET (1..n) -> X]
  /\ \A T \in SUBSET (1..n) :
       /\ T = {} => g[T] = base
       /\ T # {} => /\ Max(T) \in 1..n /\ g[T \ {Max(T)}] \in X
                    /\ g[T] = F[<<Max(T), g[T \ {Max(T)}]>>]

\* The fold over a list has a value for every set of positions.
LEMMA ListFoldExists ==
  ASSUME NEW n \in Nat, NEW X, NEW base \in X, NEW F \in [(1..n) \X X -> X]
  PROVE  \E g : IsListFold(g, n, X, base, F)
<1> DEFINE S == 1..n
           c == [T \in SUBSET S |-> Max(T)]
<1>1. IsFiniteSet(S)
  BY FS_Interval
<1>2. \A T \in SUBSET S : T # {} => c[T] \in T
  BY MaxIn
<1>3. F \in [S \X X -> X]
  OBVIOUS
<1>4. \A T \in SUBSET S : c[T] = Max(T)
  OBVIOUS
<1> HIDE DEF S, c
<1>5. PICK g : IsFold(g, SUBSET S, X, base, F, c)
  BY <1>1, <1>2, <1>3, FoldExists
<1>6. ASSUME NEW T \in SUBSET S, T # {}
      PROVE  Max(T) \in S /\ g[T \ {Max(T)}] \in X /\ g[T] = F[<<Max(T), g[T \ {Max(T)}]>>]
  <2>1. c[T] = Max(T) /\ c[T] \in S /\ T \ {c[T]} \in SUBSET S
    BY <1>2, <1>4, <1>6
  <2> QED
    BY <1>5, <1>6, <2>1 DEF IsFold
<1>7. g \in [SUBSET S -> X] /\ (\A T \in SUBSET S : T = {} => g[T] = base)
  BY <1>5 DEF IsFold
<1>8. IsListFold(g, n, X, base, F)
  BY <1>6, <1>7 DEF S, IsListFold
<1> QED
  BY <1>8

-----------------------------------------------------------------------------
(* Ranks *)

\* The members of S that come after r in the order L.
After(L, S, r) == {x \in S : <<r, x>> \in L}

\* L orders S strictly and totally.
Orders(L, S) ==
  /\ \A x \in S : <<x, x>> \notin L
  /\ \A x, y \in S : x # y => <<x, y>> \in L \/ <<y, x>> \in L
  /\ \A x, y, z \in S : <<x, y>> \in L /\ <<y, z>> \in L => <<x, z>> \in L

\* Counting what comes after a member numbers a finite set from 0.
LEMMA Ranking ==
  ASSUME NEW S, IsFiniteSet(S), NEW L, Orders(L, S)
  PROVE  /\ \A x \in S : Cardinality(After(L, S, x)) \in 0..(Cardinality(S) - 1)
         /\ \A x, y \in S : Cardinality(After(L, S, x)) = Cardinality(After(L, S, y)) => x = y
         /\ \A i \in 0..(Cardinality(S) - 1) : \E x \in S : Cardinality(After(L, S, x)) = i
<1> DEFINE n == Cardinality(S)
           rk == [x \in S |-> Cardinality(After(L, S, x))]
<1>1. n \in Nat
  BY FS_CardinalityType
<1>2. ASSUME NEW x \in S
      PROVE  rk[x] \in 0..(n - 1)
  <2>1. After(L, S, x) \subseteq S /\ x \notin After(L, S, x) /\ After(L, S, x) # S
    BY DEF After, Orders
  <2>2. /\ Cardinality(After(L, S, x)) \in Nat
        /\ Cardinality(After(L, S, x)) =< n
        /\ Cardinality(After(L, S, x)) # n
    BY <2>1, FS_Subset, FS_CardinalityType
  <2> QED
    BY <1>1, <2>2
<1>3. ASSUME NEW x \in S, NEW y \in S, <<x, y>> \in L
      PROVE  rk[y] < rk[x]
  <2>1. After(L, S, y) \subseteq After(L, S, x) /\ After(L, S, y) # After(L, S, x)
    <3>1. y \in After(L, S, x) /\ y \notin After(L, S, y)
      BY <1>3 DEF After, Orders
    <3>2. After(L, S, y) \subseteq After(L, S, x)
      BY <1>3 DEF After, Orders
    <3> QED
      BY <3>1, <3>2
  <2>2. IsFiniteSet(After(L, S, x))
    <3>1. After(L, S, x) \subseteq S
      BY DEF After
    <3> QED
      BY <3>1, FS_Subset
  <2>3. /\ Cardinality(After(L, S, y)) =< Cardinality(After(L, S, x))
        /\ Cardinality(After(L, S, y)) # Cardinality(After(L, S, x))
    BY <2>1, <2>2, FS_Subset
  <2>4. rk[x] \in Nat /\ rk[y] \in Nat
    BY <1>1, <1>2
  <2> QED
    BY <2>3, <2>4
<1>4. ASSUME NEW x \in S, NEW y \in S, rk[x] = rk[y]
      PROVE  x = y
  <2>1. rk[x] \in Nat /\ rk[y] \in Nat
    BY <1>1, <1>2
  <2> HIDE DEF rk
  <2>2. <<x, y>> \notin L /\ <<y, x>> \notin L
    BY <1>3, <1>4, <2>1
  <2> QED
    BY <2>2 DEF Orders
<1>5. \A i \in 0..(n - 1) : \E x \in S : rk[x] = i
  <2> DEFINE I == {rk[x] : x \in S}
  <2>1. I \subseteq 0..(n - 1)
    BY <1>2
  <2>2. IsFiniteSet(0..(n - 1)) /\ Cardinality(0..(n - 1)) = n
    <3> HIDE DEF n
    <3>1. 0 \in Int /\ n - 1 \in Int
      BY <1>1
    <3> QED
      BY <1>1, <3>1, FS_Interval
  <2>3. Cardinality(I) = n
    <3>1. rk \in Bijection(S, I)
      <4>1. rk \in [S -> I]
        OBVIOUS
      <4>2. \A x, y \in S : rk[x] = rk[y] => x = y
        BY <1>4
      <4>3. \A i \in I : \E x \in S : rk[x] = i
        OBVIOUS
      <4> HIDE DEF rk, I
      <4> QED
        BY <4>1, <4>2, <4>3 DEF Bijection, Injection, Surjection, IsInjective
    <3>2. ExistsBijection(S, I)
      BY <3>1 DEF ExistsBijection
    <3> QED
      BY <3>2, FS_Bijection
  <2>4. I = 0..(n - 1)
    <3> HIDE DEF I, n
    <3> QED
      BY <2>1, <2>2, <2>3, FS_Subset
  <2> QED
    BY <2>4
<1> QED
  BY <1>2, <1>4, <1>5
=============================================================================
