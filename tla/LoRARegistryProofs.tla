------------------------- MODULE LoRARegistryProofs -------------------------
(***************************************************************************)
(* Proofs about LoRARegistry: what is registered is loaded on every rank,  *)
(* for all requests and answers, and an adapter that a request uses stays  *)
(* loaded, for those of Counted.                                           *)
(*                                                                         *)
(* The invariant of the second relates four parts: what is registered or   *)
(* being drained has a counter, what has a counter is loaded on every      *)
(* rank, the counter of an adapter that can be removed is at least the     *)
(* number of requests that use it, and a request uses only what has a      *)
(* counter.  The first condition of Counted is there because an acquire by *)
(* list counts in a later step than it looks up, and a request with        *)
(* several samples counts once and releases several times; the second      *)
(* because an output that carries a status is released twice.  The first   *)
(* result, in the last section, counts nothing and needs neither.          *)
(***************************************************************************)
EXTENDS LoRARegistry, SequenceTheorems, SetSums

---------------------------------------------------------------------------
(* Sequences *)

\* Appending adds one element.
LEMMA RangeAppend ==
  ASSUME NEW A, NEW s \in Seq(A), NEW x \in A
  PROVE  Append(s, x) \in Seq(A) /\ Range(Append(s, x)) = Range(s) \cup {x}
<1> DEFINE m == Len(s)
           z == Append(s, x)
<1>1. /\ m \in Nat /\ DOMAIN z = 1..(m + 1) /\ DOMAIN s = 1..m /\ z \in Seq(A)
      /\ z[m + 1] = x /\ \A j \in 1..m : z[j] = s[j]
  OBVIOUS
<1> HIDE DEF z, m
<1>2. Range(z) = Range(s) \cup {x}
  BY <1>1 DEF Range
<1> QED
  BY <1>1, <1>2 DEF z

\* The empty sequence has no elements.
LEMMA RangeEmpty == Range(<<>>) = {}
<1>1. DOMAIN <<>> = {}
  OBVIOUS
<1> QED
  BY <1>1 DEF Range

\* The part of a sequence that S has.
LEMMA OnlyFacts ==
  ASSUME NEW A, NEW s \in Seq(A), NEW S
  PROVE  Only(s, S) \in Seq(A) /\ Range(Only(s, S)) = Range(s) \cap S
<1> DEFINE n == Len(s)
           X == Seq(A)
           op(kept, x) == IF x \in S THEN Append(kept, x) ELSE kept
           Def(g) == [T \in SUBSET (1..n) |-> IF T = {} THEN <<>>
                                              ELSE op(g[T \ {Max(T)}], s[Max(T)])]
           fold == CHOOSE g : g = Def(g)
           F == [z \in (1..n) \X X |-> op(z[2], s[z[1]])]
           at(i) == fold[1..i]
<1>1. n \in Nat /\ DOMAIN s = 1..n /\ \A i \in 1..n : s[i] \in A
  OBVIOUS
<1>2. Only(s, S) = at(n)
  <2>1. Only(s, S) = (CHOOSE g : g = [T \in SUBSET (DOMAIN s) |->
           IF T = {} THEN <<>> ELSE op(g[T \ {Max(T)}], s[Max(T)])])[DOMAIN s]
    BY DEF Only, FoldLeft, MapThenFoldSet
  <2> QED
    BY <1>1, <2>1
<1>3. \A y \in X, x \in A : op(y, x) \in X
  OBVIOUS
<1>4. F \in [(1..n) \X X -> X] /\ \A i \in 1..n, y \in X : F[<<i, y>>] = op(y, s[i])
  BY <1>1, <1>3
<1> DEFINE none == <<>>
<1>5. none \in X
  OBVIOUS
<1> HIDE DEF n, X, op, F, none
<1>6. PICK g : IsListFold(g, n, X, none, F)
  BY <1>1, <1>4, <1>5, ListFoldExists
<1>7. g = Def(g)
  <2>1. \A T \in SUBSET (1..n) : g[T] = IF T = {} THEN <<>>
                                        ELSE op(g[T \ {Max(T)}], s[Max(T)])
    BY <1>4, <1>6 DEF none, IsListFold
  <2> QED
    BY <1>6, <2>1 DEF IsListFold
<1>8. fold = Def(fold)
  <2> HIDE DEF Def
  <2> QED
    BY <1>7
<1>9. \A T \in SUBSET (1..n) : fold[T] = IF T = {} THEN <<>>
                                         ELSE op(fold[T \ {Max(T)}], s[Max(T)])
  <2> HIDE DEF fold
  <2>1. fold = [T \in SUBSET (1..n) |-> IF T = {} THEN <<>>
                                        ELSE op(fold[T \ {Max(T)}], s[Max(T)])]
    BY <1>8
  <2> QED
    BY <2>1
<1> HIDE DEF fold
<1>10. at(0) = <<>>
  <2>1. 1..0 = {}
    OBVIOUS
  <2> QED
    BY <1>9, <2>1
<1>11. \A i \in 1..n : at(i) = op(at(i - 1), s[i])
  <2>1. TAKE i \in 1..n
  <2>2. 1..i \in SUBSET (1..n) /\ 1..i # {} /\ Max(1..i) = i /\ (1..i) \ {i} = 1..(i - 1)
    BY <1>1, PrefixLast
  <2> QED
    BY <1>9, <2>2
<1> HIDE DEF at
<1> DEFINE OK(i) == at(i) \in Seq(A) /\ Range(at(i)) = {s[j] : j \in 1..i} \cap S
           Flawed == {i \in 0..n : ~OK(i)}
<1>12. OK(0)
  <2>1. at(0) = <<>> /\ <<>> \in Seq(A) /\ Range(<<>>) = {}
    BY <1>10, RangeEmpty
  <2>2. {s[j] : j \in 1..0} = {}
    OBVIOUS
  <2> QED
    BY ONLY <2>1, <2>2
<1>13. ASSUME NEW i \in 1..n, OK(i - 1)
       PROVE  OK(i)
  <2> DEFINE y == at(i - 1)
             x == s[i]
             B(k) == {s[j] : j \in 1..k}
  <2>1. x \in A /\ y \in Seq(A) /\ at(i) = IF x \in S THEN Append(y, x) ELSE y
    BY <1>1, <1>11, <1>13 DEF op
  <2>2. B(i) = B(i - 1) \cup {x}
    <3>1. i \in 1..i /\ \A j \in 1..i : j = i \/ j \in 1..(i - 1)
      BY <1>1
    <3>2. \A j \in 1..(i - 1) : j \in 1..i
      BY <1>1
    <3> QED
      BY <3>1, <3>2
  <2>3. Range(y) = B(i - 1) \cap S
    BY <1>13
  <2>4. Append(y, x) \in Seq(A) /\ Range(Append(y, x)) = Range(y) \cup {x}
    BY <2>1, RangeAppend
  <2> HIDE DEF y, x, B
  <2>5. at(i) \in Seq(A) /\ Range(at(i)) = B(i) \cap S
    BY <2>1, <2>2, <2>3, <2>4
  <2> QED
    BY <2>5 DEF B
<1> HIDE DEF OK
<1>14. Flawed = {}
  <2>1. SUFFICES ASSUME Flawed # {} PROVE FALSE
    OBVIOUS
  <2>2. Flawed \in SUBSET Nat
    OBVIOUS
  <2> DEFINE i == Min(Flawed)
  <2>3. i \in Flawed /\ \A j \in Flawed : i =< j
    BY <2>1, <2>2, LeastNatural
  <2> HIDE DEF i
  <2>4. i \in 0..n /\ ~OK(i) /\ i # 0
    BY <1>12, <2>3
  <2>5. i - 1 \in 0..n /\ i \in 1..n
    BY <1>1, <2>4
  <2>6. OK(i - 1)
    BY <2>3, <2>4, <2>5
  <2> QED
    BY <1>13, <2>4, <2>5, <2>6
<1>15. OK(n)
  BY <1>1, <1>14
<1>16. at(n) \in Seq(A) /\ Range(at(n)) = {s[j] : j \in 1..n} \cap S
  BY <1>15 DEF OK
<1> QED
  BY <1>1, <1>2, <1>16 DEF Range

\* Unregistering takes one id out.
LEMMA UnregisterFacts ==
  ASSUME NEW A, NEW reg \in Seq(A), NEW i
  PROVE  Unregister(reg, i) \in Seq(A) /\ Range(Unregister(reg, i)) = Range(reg) \ {i}
<1>1. /\ Only(reg, Range(reg) \ {i}) \in Seq(A)
      /\ Range(Only(reg, Range(reg) \ {i})) = Range(reg) \cap (Range(reg) \ {i})
  BY OnlyFacts
<1> QED
  BY <1>1 DEF Unregister

\* The id of a registered name.
LEMMA IdOfFacts ==
  ASSUME NEW reg, NEW name, IsRegistered(reg, name)
  PROVE  IdOf(reg, name) \in Range(reg) /\ refs[IdOf(reg, name)] = name
  BY DEF IsRegistered, IdOf

\* A lookup keeps the ids.
LEMMA TouchFacts ==
  ASSUME NEW A, NEW reg \in Seq(A), NEW name
  PROVE  Touch(reg, name) \in Seq(A) /\ Range(Touch(reg, name)) = Range(reg)
<1>1. CASE ~IsRegistered(reg, name)
  BY <1>1 DEF Touch
<1>2. CASE IsRegistered(reg, name)
  <2> DEFINE i == IdOf(reg, name)
             u == Unregister(reg, i)
  <2>1. i \in Range(reg)
    BY <1>2, IdOfFacts
  <2>2. i \in A
    BY <2>1 DEF Range
  <2>3. u \in Seq(A) /\ Range(u) = Range(reg) \ {i}
    BY UnregisterFacts
  <2>4. Touch(reg, name) = Append(u, i)
    BY <1>2 DEF Touch
  <2> HIDE DEF i, u
  <2>5. Append(u, i) \in Seq(A) /\ Range(Append(u, i)) = Range(u) \cup {i}
    BY <2>2, <2>3, RangeAppend
  <2> QED
    BY <2>1, <2>3, <2>4, <2>5
<1> QED
  BY <1>1, <1>2

\* ... and so do several.
LEMMA TouchAllFacts ==
  ASSUME NEW A, NEW reg \in Seq(A), NEW B, NEW names \in Seq(B)
  PROVE  TouchAll(reg, names) \in Seq(A) /\ Range(TouchAll(reg, names)) = Range(reg)
<1> DEFINE n == Len(names)
           X == {y \in Seq(A) : Range(y) = Range(reg)}
           Def(g) == [T \in SUBSET (1..n) |-> IF T = {} THEN reg
                                              ELSE Touch(g[T \ {Max(T)}], names[Max(T)])]
           fold == CHOOSE g : g = Def(g)
           F == [z \in (1..n) \X X |-> Touch(z[2], names[z[1]])]
           at(i) == fold[1..i]
<1>1. n \in Nat /\ DOMAIN names = 1..n
  OBVIOUS
<1>2. TouchAll(reg, names) = at(n)
  <2>1. TouchAll(reg, names) = (CHOOSE g : g = [T \in SUBSET (DOMAIN names) |->
           IF T = {} THEN reg ELSE Touch(g[T \ {Max(T)}], names[Max(T)])])[DOMAIN names]
    BY DEF TouchAll, FoldLeft, MapThenFoldSet
  <2> QED
    BY <1>1, <2>1
<1>3. \A y \in X : \A x : Touch(y, x) \in X
  BY TouchFacts
<1>4. F \in [(1..n) \X X -> X] /\ \A i \in 1..n, y \in X : F[<<i, y>>] = Touch(y, names[i])
  BY <1>1, <1>3
<1>5. reg \in X
  OBVIOUS
<1> HIDE DEF n, X, F
<1>6. PICK g : IsListFold(g, n, X, reg, F)
  BY <1>1, <1>4, <1>5, ListFoldExists
<1>7. g = Def(g)
  <2>1. \A T \in SUBSET (1..n) : g[T] = IF T = {} THEN reg
                                        ELSE Touch(g[T \ {Max(T)}], names[Max(T)])
    BY <1>4, <1>6 DEF IsListFold
  <2> QED
    BY <1>6, <2>1 DEF IsListFold
<1>8. fold = Def(fold)
  <2> HIDE DEF Def
  <2> QED
    BY <1>7
<1>9. \A T \in SUBSET (1..n) : fold[T] = IF T = {} THEN reg
                                         ELSE Touch(fold[T \ {Max(T)}], names[Max(T)])
  <2> HIDE DEF fold
  <2>1. fold = [T \in SUBSET (1..n) |-> IF T = {} THEN reg
                                        ELSE Touch(fold[T \ {Max(T)}], names[Max(T)])]
    BY <1>8
  <2> QED
    BY <2>1
<1> HIDE DEF fold
<1>10. at(0) = reg
  <2>1. 1..0 = {}
    OBVIOUS
  <2> QED
    BY <1>9, <2>1
<1>11. \A i \in 1..n : at(i) = Touch(at(i - 1), names[i])
  <2>1. TAKE i \in 1..n
  <2>2. 1..i \in SUBSET (1..n) /\ 1..i # {} /\ Max(1..i) = i /\ (1..i) \ {i} = 1..(i - 1)
    BY <1>1, PrefixLast
  <2> QED
    BY <1>9, <2>2
<1> HIDE DEF at
<1> DEFINE Flawed == {i \in 0..n : at(i) \notin X}
<1>12. Flawed = {}
  <2>1. SUFFICES ASSUME Flawed # {} PROVE FALSE
    OBVIOUS
  <2>2. Flawed \in SUBSET Nat
    OBVIOUS
  <2> DEFINE i == Min(Flawed)
  <2>3. i \in Flawed /\ \A j \in Flawed : i =< j
    BY <2>1, <2>2, LeastNatural
  <2> HIDE DEF i
  <2>4. i \in 0..n /\ at(i) \notin X /\ i # 0
    BY <1>5, <1>10, <2>3
  <2>5. i - 1 \in 0..n /\ i \in 1..n
    BY <1>1, <2>4
  <2>6. at(i - 1) \in X
    BY <2>3, <2>4, <2>5
  <2> QED
    BY <1>3, <1>11, <2>4, <2>5, <2>6
<1>13. at(n) \in X
  BY <1>1, <1>12
<1> QED
  BY <1>2, <1>13 DEF X

---------------------------------------------------------------------------
(* The invariant.                                                          *)

\* A request by name for one adapter and one sample: one increment, one job, one release.
Single(r) == ~Sent[r].list /\ Len(Sent[r].paths) = 1 /\ Sent[r].samples = 1

\* A request for adapters that are neither evicted nor unloaded.
Fixed(r) == Range(Sent[r].paths) \subseteq Pinned \ Updatable

\* A request for more adapters than may be loaded.
Refused(r) == Cardinality(Range(Sent[r].paths)) > MaxLoaded

\* The requests and answers for which the counters keep an adapter until the last job
\* that uses it is over.
Counted ==
  /\ \A r \in Requests : Single(r) \/ Fixed(r) \/ Refused(r)
  /\ "output_status" \notin Answers

\* The ref i is one that no update removes.
Lasting(rf, i) == rf[i] \in Pinned \ Updatable

\* The records of the model.
JobType == [at : {"waiting", "running", "over"} \cup AllAnswers, due : Nat]
ReqType ==
  [phase : {"new", "loading", "counting", "acquired", "sent", "failed"},
   todo : Seq(Names), ids : Seq(Nat), jobs : Seq(JobType)]
UpdateType == [op : {"load", "unload"}, name : Names, by : Requests \cup {Client}]
StageType == [at : {"idle", "loading", "draining", "unloading"}, id : Nat, woken : BOOLEAN]

\* The request q, by name, holds one count of the adapter i.
Using(q, i) ==
  \/ q.phase = "acquired" /\ q.ids[1] = i
  \/ q.phase = "sent" /\ q.ids[1] = i /\ (q.jobs[1].at = "over" => q.jobs[1].due > 0)

\* A request by name has at most one job, which releases at most once and at its end.
SingleOK(q) ==
  /\ q.phase # "counting"
  /\ q.phase # "sent" => q.jobs = <<>>
  /\ q.phase \in {"acquired", "sent"} => Len(q.ids) = 1
  /\ q.phase = "sent" =>
       /\ Len(q.jobs) = 1 /\ q.jobs[1].due <= 1
       /\ q.jobs[1].at # "over" => q.jobs[1].due = 0
       /\ q.jobs[1].at # "output_status"

\* A request for lasting adapters has ids that stay registered.
FixedOK(r, q, rf, R) ==
  /\ q.phase \in {"new", "loading"} => q.jobs = <<>>
  /\ (q.phase \in {"counting", "acquired", "sent"} \/ q.jobs # <<>>) =>
       /\ Len(q.ids) = Len(Sent[r].paths)
       /\ \A k \in DOMAIN q.ids : q.ids[k] \in R /\ Lasting(rf, q.ids[k])

\* A request for too many adapters never has a job.
RefusedOK(q) == q.phase \in {"new", "failed"} /\ q.jobs = <<>>

\* One request, with R the registered ids and D those that have a counter.
RequestOK(r, q, rf, R, D) ==
  /\ q \in ReqType
  /\ Refused(r) => RefusedOK(q)
  /\ Single(r) => SingleOK(q) /\ \A i : Using(q, i) => i \in D
  /\ (~Single(r) /\ ~Refused(r)) => FixedOK(r, q, rf, R)

\* The requests that hold a count of the adapter i.
Users(rq, i) == {r \in Requests : Single(r) /\ Using(rq[r], i)}

\* The registry, the counters and the ranks agree: an id has a counter as long as it is
\* registered or drained, every rank has it loaded, and the counter of an adapter that
\* can be removed is at least the number of its users.
BooksOK(rf, reg, cnt, drain, ld, rq) ==
  /\ rf \in Seq(Names) /\ reg \in Seq(DOMAIN rf)
  /\ drain \subseteq DOMAIN rf /\ drain \cap Range(reg) = {}
  /\ \A i \in drain : ~Lasting(rf, i)
  /\ DOMAIN cnt = Range(reg) \cup drain /\ cnt \in [DOMAIN cnt -> Int]
  /\ \A i \in DOMAIN cnt, k \in Ranks : i \in ld[k]
  /\ rq = [r \in Requests |-> rq[r]]
  /\ \A r \in Requests : RequestOK(r, rq[r], rf, Range(reg), DOMAIN cnt)
  /\ \A i \in DOMAIN cnt : ~Lasting(rf, i) => cnt[i] >= Cardinality(Users(rq, i))

\* The updates: unloads are of updatable names, and a request that is loading has
\* asked for one update, the others for none.
QueueOK(queue, rq) ==
  /\ queue \in Seq(UpdateType)
  /\ \A i \in DOMAIN queue :
       /\ queue[i].op = "unload" => queue[i].name \in Updatable
       /\ queue[i].by \in Requests => rq[queue[i].by].phase = "loading"
  /\ \A i, j \in DOMAIN queue :
       (queue[i].by \in Requests /\ queue[i].by = queue[j].by) => i = j

\* No update of the queue is for r.
Absent(queue, r) == \A i \in DOMAIN queue : queue[i].by # r

\* The id of an adapter that is waited for.
Draining(st) == IF st.at = "draining" THEN {st.id} ELSE {}

\* The holder of the lock: an adapter that is being loaded or unloaded has no counter.
StageOK(st, queue, rf, D) ==
  /\ st \in StageType
  /\ st.at # "idle" => queue # <<>>
  /\ st.at \in {"loading", "unloading"} => st.id \in DOMAIN rf \ D

\* The inductive invariant.
CountedInv ==
  /\ BooksOK(refs, registry, counters, Draining(stage), loaded, req)
  /\ QueueOK(updates, req)
  /\ StageOK(stage, updates, refs, DOMAIN counters)


\* There are finitely many requests.
LEMMA RequestsFinite == IsFiniteSet(Requests)
<1>1. Sent \in Seq([paths : Seq(Names) \ {<<>>}, list : BOOLEAN, samples : Nat \ {0}])
  BY LoRAAssumption
<1>2. Requests = 1..Len(Sent) /\ Len(Sent) \in Nat
  BY <1>1 DEF Requests
<1>3. IsFiniteSet(1..Len(Sent))
  BY <1>2, FS_Interval
<1> QED
  BY <1>2, <1>3

\* What a request is made of.
LEMMA SentType ==
  ASSUME NEW r \in Requests
  PROVE  /\ Sent[r].paths \in Seq(Names) /\ Sent[r].paths # <<>> /\ Len(Sent[r].paths) \in Nat \ {0}
         /\ DOMAIN Sent[r].paths = 1..Len(Sent[r].paths)
         /\ Sent[r].list \in BOOLEAN /\ Sent[r].samples \in Nat \ {0}
<1> DEFINE T == [paths : Seq(Names) \ {<<>>}, list : BOOLEAN, samples : Nat \ {0}]
<1>1. Sent \in Seq(T)
  BY LoRAAssumption
<1> HIDE DEF T
<1>2. Sent[r] \in T
  BY <1>1 DEF Requests
<1>3. /\ Sent[r].paths \in Seq(Names) /\ Sent[r].paths # <<>>
      /\ Sent[r].list \in BOOLEAN /\ Sent[r].samples \in Nat \ {0}
  BY <1>2 DEF T
<1> QED
  BY <1>3

\* The path of a job is one of the request's.
LEMMA PathOfRange ==
  ASSUME NEW r \in Requests, NEW k \in Nat \ {0}
  PROVE  PathOf(r, k) \in 1..Len(Sent[r].paths)
<1>1. ASSUME NEW n \in Nat \ {0}, NEW x \in Nat
      PROVE  (x % n) + 1 \in 1..n
  <2>1. x % n \in 0..(n - 1)
    OBVIOUS
  <2> QED
    BY <2>1
<1>2. k - 1 \in Nat
  OBVIOUS
<1> QED
  BY <1>1, <1>2, SentType DEF PathOf

\* There are finitely many users.
LEMMA UsersFinite ==
  ASSUME NEW rq, NEW i
  PROVE  IsFiniteSet(Users(rq, i)) /\ Cardinality(Users(rq, i)) \in Nat
<1>1. Users(rq, i) \subseteq Requests
  BY DEF Users
<1>2. IsFiniteSet(Users(rq, i))
  BY <1>1, RequestsFinite, FS_Subset
<1> QED
  BY <1>2, FS_CardinalityType

\* A step of r that adds no use leaves no more users.
LEMMA UsersKept ==
  ASSUME NEW rq, rq = [r \in Requests |-> rq[r]], NEW r \in Requests, NEW q, NEW i,
         (Single(r) /\ Using(q, i)) => Using(rq[r], i)
  PROVE  Cardinality(Users([rq EXCEPT ![r] = q], i)) <= Cardinality(Users(rq, i))
<1>1. Users([rq EXCEPT ![r] = q], i) \subseteq Users(rq, i)
  <2> SUFFICES ASSUME NEW p \in Users([rq EXCEPT ![r] = q], i)
               PROVE  p \in Users(rq, i)
    OBVIOUS
  <2>1. p \in Requests /\ Single(p) /\ Using([rq EXCEPT ![r] = q][p], i)
    BY DEF Users
  <2>2. CASE p = r
    <3>1. [rq EXCEPT ![r] = q][p] = q
      BY <2>2
    <3> QED
      BY <2>1, <2>2, <3>1 DEF Users
  <2>3. CASE p # r
    <3>1. [rq EXCEPT ![r] = q][p] = rq[p]
      BY <2>3, <2>1
    <3> QED
      BY <2>1, <3>1 DEF Users
  <2> QED
    BY <2>2, <2>3
<1> QED
  BY <1>1, UsersFinite, FS_Subset

\* A step of r adds at most one user.
LEMMA UsersPlus ==
  ASSUME NEW rq, rq = [r \in Requests |-> rq[r]], NEW r \in Requests, NEW q, NEW i
  PROVE  Cardinality(Users([rq EXCEPT ![r] = q], i)) <= Cardinality(Users(rq, i)) + 1
<1> DEFINE U == Users(rq, i)
           V == Users([rq EXCEPT ![r] = q], i)
<1>1. V \subseteq U \cup {r}
  <2> SUFFICES ASSUME NEW p \in V, p # r
               PROVE  p \in U
    OBVIOUS
  <2>1. p \in Requests /\ Single(p) /\ Using([rq EXCEPT ![r] = q][p], i)
    BY DEF Users
  <2>2. [rq EXCEPT ![r] = q][p] = rq[p]
    BY <2>1
  <2> QED
    BY <2>1, <2>2 DEF Users
<1>2. IsFiniteSet(U) /\ Cardinality(U) \in Nat /\ Cardinality(V) \in Nat
  BY UsersFinite
<1> HIDE DEF U, V
<1>3. /\ IsFiniteSet(U \cup {r})
      /\ Cardinality(U \cup {r}) = Cardinality(U) \/ Cardinality(U \cup {r}) = Cardinality(U) + 1
  BY <1>2, FS_AddElement
<1>4. Cardinality(V) <= Cardinality(U \cup {r})
  BY <1>1, <1>3, FS_Subset
<1>5. Cardinality(V) <= Cardinality(U) + 1
  BY <1>2, <1>3, <1>4
<1> QED
  BY <1>5 DEF U, V

\* A user that leaves makes the users one less.
LEMMA UsersMinus ==
  ASSUME NEW rq, rq = [r \in Requests |-> rq[r]], NEW r \in Requests, NEW q, NEW i,
         Single(r), Using(rq[r], i), ~Using(q, i)
  PROVE  Cardinality(Users([rq EXCEPT ![r] = q], i)) = Cardinality(Users(rq, i)) - 1
<1> DEFINE U == Users(rq, i)
           V == Users([rq EXCEPT ![r] = q], i)
<1>1. V \subseteq U \ {r}
  <2> SUFFICES ASSUME NEW p \in V
               PROVE  p \in U \ {r}
    OBVIOUS
  <2>1. p \in Requests /\ Single(p) /\ Using([rq EXCEPT ![r] = q][p], i)
    BY DEF Users
  <2>2. p # r
    <3> SUFFICES ASSUME p = r PROVE FALSE
      OBVIOUS
    <3>1. [rq EXCEPT ![r] = q][p] = q
      OBVIOUS
    <3> QED
      BY <2>1, <3>1
  <2>3. [rq EXCEPT ![r] = q][p] = rq[p]
    BY <2>1, <2>2
  <2> QED
    BY <2>1, <2>2, <2>3 DEF Users
<1>2. U \ {r} \subseteq V
  <2> SUFFICES ASSUME NEW p \in U, p # r
               PROVE  p \in V
    OBVIOUS
  <2>1. p \in Requests /\ Single(p) /\ Using(rq[p], i)
    BY DEF Users
  <2>2. [rq EXCEPT ![r] = q][p] = rq[p]
    BY <2>1
  <2> QED
    BY <2>1, <2>2 DEF Users
<1>3. r \in U
  BY DEF Users
<1>4. IsFiniteSet(U)
  BY UsersFinite
<1> HIDE DEF U, V
<1>5. Cardinality(U \ {r}) = Cardinality(U) - 1
  BY <1>3, <1>4, FS_RemoveElement
<1>6. V = U \ {r}
  BY <1>1, <1>2
<1> QED
  BY <1>5, <1>6 DEF U, V

---------------------------------------------------------------------------
(* One request moves: books and queue.                                     *)

\* A step of r that leaves the registered ids and the counters' domain.
LEMMA BooksMove ==
  ASSUME NEW rf, NEW reg, NEW cnt, NEW drain, NEW ld, NEW rq,
         BooksOK(rf, reg, cnt, drain, ld, rq),
         NEW r \in Requests, NEW q, RequestOK(r, q, rf, Range(reg), DOMAIN cnt),
         NEW reg2 \in Seq(DOMAIN rf), Range(reg2) = Range(reg),
         NEW cnt2 \in [DOMAIN cnt -> Int],
         \A i \in DOMAIN cnt : ~Lasting(rf, i) =>
            cnt2[i] >= Cardinality(Users([rq EXCEPT ![r] = q], i))
  PROVE  BooksOK(rf, reg2, cnt2, drain, ld, [rq EXCEPT ![r] = q])
<1> DEFINE rq2 == [rq EXCEPT ![r] = q]
<1>1. rq = [p \in Requests |-> rq[p]]
  BY DEF BooksOK
<1>2. rq2 = [p \in Requests |-> rq2[p]] /\ rq2[r] = q /\ \A p \in Requests \ {r} : rq2[p] = rq[p]
  BY <1>1
<1>3. \A i \in DOMAIN cnt : ~Lasting(rf, i) => cnt2[i] >= Cardinality(Users(rq2, i))
  OBVIOUS
<1> HIDE DEF rq2
<1>4. \A p \in Requests : RequestOK(p, rq2[p], rf, Range(reg2), DOMAIN cnt2)
  <2> SUFFICES ASSUME NEW p \in Requests
               PROVE  RequestOK(p, rq2[p], rf, Range(reg), DOMAIN cnt)
    OBVIOUS
  <2>1. CASE p = r
    BY <1>2, <2>1
  <2>2. CASE p # r
    BY <1>2, <2>2 DEF BooksOK
  <2> QED
    BY <2>1, <2>2
<1>5. DOMAIN cnt2 = DOMAIN cnt
  OBVIOUS
<1>6. /\ rf \in Seq(Names) /\ drain \subseteq DOMAIN rf /\ drain \cap Range(reg2) = {}
      /\ \A i \in drain : ~Lasting(rf, i)
      /\ DOMAIN cnt2 = Range(reg2) \cup drain /\ cnt2 \in [DOMAIN cnt2 -> Int]
      /\ \A i \in DOMAIN cnt2, k \in Ranks : i \in ld[k]
  BY <1>5 DEF BooksOK
<1>7. BooksOK(rf, reg2, cnt2, drain, ld, rq2)
  BY <1>2, <1>3, <1>4, <1>5, <1>6 DEF BooksOK
<1> QED
  BY <1>7 DEF rq2

\* A step of r that starts no use and takes nothing from a counter that matters.
LEMMA BooksQuiet ==
  ASSUME NEW rf, NEW reg, NEW cnt, NEW drain, NEW ld, NEW rq,
         BooksOK(rf, reg, cnt, drain, ld, rq),
         NEW r \in Requests, NEW q, RequestOK(r, q, rf, Range(reg), DOMAIN cnt),
         NEW reg2 \in Seq(DOMAIN rf), Range(reg2) = Range(reg),
         NEW cnt2 \in [DOMAIN cnt -> Int],
         \A i \in DOMAIN cnt : ~Lasting(rf, i) => cnt2[i] >= cnt[i],
         \A i : (Single(r) /\ Using(q, i)) => Using(rq[r], i)
  PROVE  BooksOK(rf, reg2, cnt2, drain, ld, [rq EXCEPT ![r] = q])
<1>1. rq = [p \in Requests |-> rq[p]] /\ cnt \in [DOMAIN cnt -> Int]
  BY DEF BooksOK
<1>2. \A i \in DOMAIN cnt : ~Lasting(rf, i) =>
            cnt2[i] >= Cardinality(Users([rq EXCEPT ![r] = q], i))
  <2> SUFFICES ASSUME NEW i \in DOMAIN cnt, ~Lasting(rf, i)
               PROVE  cnt2[i] >= Cardinality(Users([rq EXCEPT ![r] = q], i))
    OBVIOUS
  <2> DEFINE a == Cardinality(Users(rq, i))
             b == Cardinality(Users([rq EXCEPT ![r] = q], i))
  <2>1. b <= a
    BY <1>1, UsersKept
  <2>2. a \in Nat /\ b \in Nat
    BY UsersFinite
  <2>3. cnt[i] >= a
    BY DEF BooksOK
  <2>4. cnt2[i] >= cnt[i] /\ cnt[i] \in Int /\ cnt2[i] \in Int
    BY <1>1
  <2> HIDE DEF a, b
  <2>5. cnt2[i] >= b
    BY <2>1, <2>2, <2>3, <2>4
  <2> QED
    BY <2>5 DEF b
<1> QED
  BY <1>2, BooksMove

\* A request that is not in the queue may go on, and one that is may stay.
LEMMA QueueMove ==
  ASSUME NEW queue, NEW rq, QueueOK(queue, rq), rq = [p \in Requests |-> rq[p]],
         NEW r \in Requests, NEW q, Absent(queue, r) \/ q.phase = "loading"
  PROVE  QueueOK(queue, [rq EXCEPT ![r] = q])
<1> DEFINE rq2 == [rq EXCEPT ![r] = q]
<1>1. rq2[r] = q /\ \A p \in Requests \ {r} : rq2[p] = rq[p]
  OBVIOUS
<1> HIDE DEF rq2
<1>2. ASSUME NEW i \in DOMAIN queue, queue[i].by \in Requests
      PROVE  rq2[queue[i].by].phase = "loading"
  <2>1. CASE queue[i].by = r
    BY <1>1, <2>1 DEF Absent
  <2>2. CASE queue[i].by # r
    BY <1>1, <1>2, <2>2 DEF QueueOK
  <2> QED
    BY <2>1, <2>2
<1>3. QueueOK(queue, rq2)
  BY <1>2 DEF QueueOK
<1> QED
  BY <1>3 DEF rq2

\* Only a request that is loading is in the queue.
LEMMA QueueAbsent ==
  ASSUME NEW queue, NEW rq, QueueOK(queue, rq), NEW r \in Requests, rq[r].phase # "loading"
  PROVE  Absent(queue, r)
  BY DEF QueueOK, Absent

\* The holder leaves the queue.
LEMMA QueueTail ==
  ASSUME NEW queue, NEW rq, QueueOK(queue, rq), queue # <<>>
  PROVE  /\ QueueOK(Tail(queue), rq) /\ Head(queue) \in UpdateType
         /\ Head(queue).op = "unload" => Head(queue).name \in Updatable
         /\ Head(queue).by \in Requests =>
              rq[Head(queue).by].phase = "loading" /\ Absent(Tail(queue), Head(queue).by)
<1>1. queue \in Seq(UpdateType)
  BY DEF QueueOK
<1> DEFINE t == Tail(queue)
           n == Len(queue)
<1>2. /\ n \in Nat /\ n > 0 /\ DOMAIN queue = 1..n /\ DOMAIN t = 1..(n - 1)
      /\ t \in Seq(UpdateType) /\ Head(queue) = queue[1]
      /\ Head(queue) \in UpdateType /\ \A i \in 1..(n - 1) : t[i] = queue[i + 1]
  BY <1>1
<1> HIDE DEF t, n
<1>3. \A i \in DOMAIN t : i + 1 \in DOMAIN queue /\ i + 1 # 1 /\ t[i] = queue[i + 1]
  BY <1>2
<1>4. 1 \in DOMAIN queue
  BY <1>2
<1>5. \A i \in DOMAIN t :
       /\ t[i].op = "unload" => t[i].name \in Updatable
       /\ t[i].by \in Requests => rq[t[i].by].phase = "loading"
  BY <1>3 DEF QueueOK
<1>6. ASSUME NEW i \in DOMAIN t, NEW j \in DOMAIN t, t[i].by \in Requests, t[i].by = t[j].by
      PROVE  i = j
  <2>1. i + 1 = j + 1
    BY <1>3, <1>6 DEF QueueOK
  <2> QED
    BY <2>1, <1>2
<1>7. QueueOK(t, rq)
  BY <1>2, <1>5, <1>6 DEF QueueOK
<1>8. ASSUME Head(queue).by \in Requests
      PROVE  rq[Head(queue).by].phase = "loading" /\ Absent(t, Head(queue).by)
  <2>1. rq[queue[1].by].phase = "loading"
    BY <1>8, <1>2, <1>4 DEF QueueOK
  <2>2. ASSUME NEW i \in DOMAIN t, t[i].by = queue[1].by
        PROVE  FALSE
    BY <2>2, <1>3, <1>4, <1>8, <1>2 DEF QueueOK
  <2> QED
    BY <2>1, <2>2, <1>2 DEF Absent
<1>9. Head(queue).op = "unload" => Head(queue).name \in Updatable
  BY <1>2, <1>4 DEF QueueOK
<1> QED
  BY <1>2, <1>7, <1>8, <1>9 DEF t

\* An update is asked for by the client, or by a request that loads and has none.
LEMMA QueueAppend ==
  ASSUME NEW queue, NEW rq, QueueOK(queue, rq), NEW u \in UpdateType,
         u.op = "unload" => u.name \in Updatable,
         u.by \in Requests => rq[u.by].phase = "loading" /\ Absent(queue, u.by)
  PROVE  QueueOK(Append(queue, u), rq) /\ Append(queue, u) # <<>>
<1>1. queue \in Seq(UpdateType)
  BY DEF QueueOK
<1> DEFINE t == Append(queue, u)
           n == Len(queue)
<1>2. /\ n \in Nat /\ DOMAIN queue = 1..n /\ DOMAIN t = 1..(n + 1)
      /\ t \in Seq(UpdateType) /\ t[n + 1] = u /\ t # <<>> /\ \A i \in 1..n : t[i] = queue[i]
  BY <1>1
<1> HIDE DEF t, n
<1>3. \A i \in DOMAIN t : (i = n + 1 /\ t[i] = u) \/ (i \in DOMAIN queue /\ t[i] = queue[i])
  BY <1>2
<1>4. \A i \in DOMAIN t :
       /\ t[i].op = "unload" => t[i].name \in Updatable
       /\ t[i].by \in Requests => rq[t[i].by].phase = "loading"
  BY <1>3 DEF QueueOK
<1>5. ASSUME NEW i \in DOMAIN t, NEW j \in DOMAIN t, t[i].by \in Requests, t[i].by = t[j].by
      PROVE  i = j
  BY <1>3, <1>5 DEF QueueOK, Absent
<1>6. QueueOK(t, rq)
  BY <1>2, <1>4, <1>5 DEF QueueOK
<1> QED
  BY <1>2, <1>6 DEF t

\* What the books say of one request.
LEMMA BooksRequest ==
  ASSUME NEW rf, NEW reg, NEW cnt, NEW drain, NEW ld, NEW rq,
         BooksOK(rf, reg, cnt, drain, ld, rq), NEW r \in Requests
  PROVE  /\ rq[r] \in ReqType /\ RequestOK(r, rq[r], rf, Range(reg), DOMAIN cnt)
         /\ rq = [p \in Requests |-> rq[p]] /\ DOMAIN rq = Requests
         /\ cnt \in [DOMAIN cnt -> Int] /\ reg \in Seq(DOMAIN rf) /\ Range(reg) \subseteq DOMAIN cnt
         /\ rf \in Seq(Names) /\ Range(reg) \subseteq DOMAIN rf /\ DOMAIN rf \subseteq Nat
<1>1. rq[r] \in ReqType /\ RequestOK(r, rq[r], rf, Range(reg), DOMAIN cnt)
  BY DEF BooksOK, RequestOK
<1>2. rq = [p \in Requests |-> rq[p]]
  BY DEF BooksOK
<1>3. DOMAIN rq = Requests
  BY <1>2
<1>4. /\ cnt \in [DOMAIN cnt -> Int] /\ reg \in Seq(DOMAIN rf)
      /\ Range(reg) \subseteq DOMAIN cnt /\ rf \in Seq(Names)
  BY DEF BooksOK
<1>5. Range(reg) \subseteq DOMAIN rf
  BY <1>4 DEF Range
<1>6. DOMAIN rf \subseteq Nat
  BY <1>4
<1> QED
  BY <1>1, <1>2, <1>3, <1>4, <1>5, <1>6

\* A request that has not sent all its jobs may fail.
LEMMA FailKeeps ==
  ASSUME NEW reg, NEW cnt, NEW drain, NEW ld, BooksOK(refs, reg, cnt, drain, ld, req),
         NEW r \in Requests, req[r].phase # "sent", Fail(r),
         NEW reg2 \in Seq(DOMAIN refs), Range(reg2) = Range(reg)
  PROVE  BooksOK(refs, reg2, cnt, drain, ld, req')
<1> DEFINE q == [req[r] EXCEPT !.phase = "failed"]
           o == req[r]
<1>1. /\ o \in ReqType /\ RequestOK(r, o, refs, Range(reg), DOMAIN cnt)
      /\ req = [p \in Requests |-> req[p]] /\ DOMAIN req = Requests /\ cnt \in [DOMAIN cnt -> Int]
  BY BooksRequest
<1>2. req' = [req EXCEPT ![r] = q]
  BY <1>1 DEF Fail
<1>3. q \in ReqType /\ q.phase = "failed" /\ q.ids = o.ids /\ q.jobs = o.jobs
  BY <1>1 DEF ReqType
<1>4. o.phase # "sent"
  OBVIOUS
<1> HIDE DEF q, o
<1>5. \A i : ~Using(q, i)
  BY <1>3 DEF Using
<1>6. Refused(r) => RefusedOK(q)
  BY <1>1, <1>3 DEF RequestOK, RefusedOK
<1>7. Single(r) => SingleOK(q)
  BY <1>1, <1>3, <1>4 DEF RequestOK, SingleOK
<1>8. (~Single(r) /\ ~Refused(r)) => FixedOK(r, q, refs, Range(reg))
  BY <1>1, <1>3 DEF RequestOK, FixedOK
<1>9. RequestOK(r, q, refs, Range(reg), DOMAIN cnt)
  BY <1>3, <1>5, <1>6, <1>7, <1>8 DEF RequestOK
<1>10. \A i \in DOMAIN cnt : cnt[i] >= cnt[i]
  BY <1>1
<1>11. BooksOK(refs, reg2, cnt, drain, ld, [req EXCEPT ![r] = q])
  BY <1>1, <1>5, <1>9, <1>10, BooksQuiet
<1> QED
  BY <1>2, <1>11

\* The ids that an acquire finds for the names of r.
FoundIds(r, reg, ids) ==
  /\ ids \in Seq(Nat) /\ Len(ids) = Len(Sent[r].paths) /\ Len(ids) \in Nat \ {0}
  /\ DOMAIN ids = 1..Len(ids)
  /\ \A k \in DOMAIN ids : ids[k] \in Range(reg) /\ refs[ids[k]] = Sent[r].paths[k]

\* The ids of registered names.
LEMMA AcquiredIds ==
  ASSUME NEW reg, NEW r \in Requests, Range(reg) \subseteq DOMAIN refs, DOMAIN refs \subseteq Nat,
         \A k \in DOMAIN Sent[r].paths : IsRegistered(reg, Sent[r].paths[k]),
         NEW ids, ids = [k \in DOMAIN Sent[r].paths |-> IdOf(reg, Sent[r].paths[k])]
  PROVE  FoundIds(r, reg, ids)
<1> DEFINE p == Sent[r].paths
           n == Len(p)
<1>0. ids = [k \in DOMAIN p |-> IdOf(reg, p[k])]
  OBVIOUS
<1>1. n \in Nat \ {0} /\ DOMAIN p = 1..n
  BY SentType
<1>2. \A k \in DOMAIN p : IdOf(reg, p[k]) \in Range(reg) /\ refs[IdOf(reg, p[k])] = p[k]
  BY IdOfFacts
<1> HIDE DEF p, n
<1>3. /\ DOMAIN ids = 1..n
      /\ \A k \in 1..n : ids[k] \in Range(reg) /\ refs[ids[k]] = p[k] /\ ids[k] \in Nat
  BY <1>0, <1>1, <1>2
<1>4. ids \in [1..n -> Nat]
  BY <1>0, <1>1, <1>3
<1>5. ids \in Seq(Nat) /\ Len(ids) = n
  BY <1>4, <1>1
<1> QED
  BY <1>1, <1>3, <1>5 DEF p, n, FoundIds

\* One more at i.
LEMMA IncrementFacts ==
  ASSUME NEW cnt, cnt \in [DOMAIN cnt -> Int], NEW i, NEW d \in Int
  PROVE  /\ Increment(cnt, i, d) \in [DOMAIN cnt -> Int]
         /\ \A j \in DOMAIN cnt :
              Increment(cnt, i, d)[j] = IF j = i THEN cnt[j] + d ELSE cnt[j]
  BY DEF Increment

\* A request that is new or loading has no job.
LEMMA EarlyHasNoJob ==
  ASSUME NEW r \in Requests, NEW q, NEW rf, NEW R, NEW D, RequestOK(r, q, rf, R, D),
         q.phase \in {"new", "loading"}
  PROVE  q.jobs = <<>>
<1>1. CASE Refused(r)
  BY <1>1 DEF RequestOK, RefusedOK
<1>2. CASE Single(r)
  BY <1>2 DEF RequestOK, SingleOK
<1>3. CASE ~Single(r) /\ ~Refused(r)
  BY <1>3 DEF RequestOK, FixedOK
<1> QED
  BY <1>1, <1>2, <1>3

\* The request r, with the ids of its names, after an acquire.
LEMMA AcquiredRequest ==
  ASSUME Counted, NEW reg, NEW D, Range(reg) \subseteq D,
         NEW r \in Requests, ~Refused(r), NEW o \in ReqType, NEW q,
         RequestOK(r, o, refs, Range(reg), D), o.phase \in {"new", "loading"},
         NEW ids, FoundIds(r, reg, ids),
         NEW ph \in {"counting", "acquired"}, ph = "counting" => Sent[r].list,
         q = [o EXCEPT !.phase = ph, !.ids = ids]
  PROVE  RequestOK(r, q, refs, Range(reg), D)
<1>0. /\ ids \in Seq(Nat) /\ Len(ids) = Len(Sent[r].paths) /\ Len(ids) \in Nat \ {0}
      /\ DOMAIN ids = 1..Len(ids)
      /\ \A k \in DOMAIN ids : ids[k] \in Range(reg) /\ refs[ids[k]] = Sent[r].paths[k]
  BY DEF FoundIds
<1>1. q \in ReqType /\ q.phase = ph /\ q.ids = ids /\ q.jobs = o.jobs
  BY <1>0 DEF ReqType
<1>2. q.jobs = <<>>
  BY <1>1, EarlyHasNoJob
<1>3. Single(r) => SingleOK(q)
  BY <1>0, <1>1, <1>2 DEF SingleOK, Single
<1>4. ids[1] \in Range(reg)
  BY <1>0
<1>5. \A i : Using(q, i) => i = ids[1]
  BY <1>1 DEF Using
<1>6. (~Single(r)) => FixedOK(r, q, refs, Range(reg))
  <2> SUFFICES ASSUME ~Single(r) PROVE FixedOK(r, q, refs, Range(reg))
    OBVIOUS
  <2>1. Range(Sent[r].paths) \subseteq Pinned \ Updatable
    BY DEF Counted, Fixed
  <2>2. DOMAIN Sent[r].paths = 1..Len(Sent[r].paths)
    BY SentType
  <2>3. \A k \in DOMAIN ids : Sent[r].paths[k] \in Pinned \ Updatable
    BY <1>0, <2>1, <2>2 DEF Range
  <2>4. \A k \in DOMAIN ids : Lasting(refs, ids[k])
    BY <1>0, <2>3 DEF Lasting
  <2> QED
    BY <1>0, <1>1, <2>4 DEF FixedOK
<1> QED
  BY <1>1, <1>3, <1>4, <1>5, <1>6 DEF RequestOK

\* Bookkeeping of a step that r alone makes.
Moves(r) == req' = [req EXCEPT ![r] = req'[r]]

\* acquire keeps the books: what it counts is at least what becomes a user.
LEMMA AcquireKeeps ==
  ASSUME Counted, NEW reg, NEW cnt, NEW drain, NEW ld, BooksOK(refs, reg, cnt, drain, ld, req),
         NEW r \in Requests, ~Refused(r), req[r].phase \in {"new", "loading"},
         Acquire(r, reg, cnt)
  PROVE  BooksOK(refs, registry', counters', drain, ld, req') /\ Moves(r)
         /\ DOMAIN counters' = DOMAIN cnt
<1> DEFINE p == Sent[r].paths
           missing == {k \in DOMAIN p : ~IsRegistered(reg, p[k])}
           ids == [k \in DOMAIN p |-> IdOf(reg, p[k])]
           o == req[r]
<1>1. /\ o \in ReqType /\ RequestOK(r, o, refs, Range(reg), DOMAIN cnt)
      /\ req = [s \in Requests |-> req[s]] /\ DOMAIN req = Requests
      /\ cnt \in [DOMAIN cnt -> Int] /\ reg \in Seq(DOMAIN refs)
      /\ Range(reg) \subseteq DOMAIN cnt /\ Range(reg) \subseteq DOMAIN refs
      /\ DOMAIN refs \subseteq Nat /\ refs \in Seq(Names)
  BY BooksRequest
<1>2. p \in Seq(Names) /\ Len(p) \in Nat \ {0} /\ DOMAIN p = 1..Len(p)
  BY SentType
<1>3. ASSUME missing # {}, registry' = TouchAll(reg, SubSeq(p, 1, Min(missing) - 1)),
             counters' = cnt, Fail(r)
      PROVE  BooksOK(refs, registry', counters', drain, ld, req') /\ Moves(r)
             /\ DOMAIN counters' = DOMAIN cnt
  <2>1. PICK k \in missing : TRUE
    BY <1>3
  <2>2. missing \subseteq Nat /\ missing # {}
    BY <1>2, <1>3
  <2>3. Min(missing) \in missing
    <3>1. \E x \in missing : \A y \in missing : x =< y
      BY <2>2, LeastNatural
    <3> QED
      BY <3>1 DEF Min
  <2>4. Min(missing) \in 1..Len(p)
    BY <2>3, <1>2
  <2> HIDE DEF missing, p
  <2>5. SubSeq(p, 1, Min(missing) - 1) \in Seq(Names)
    BY <2>4, <1>2
  <2>6. registry' \in Seq(DOMAIN refs) /\ Range(registry') = Range(reg)
    BY <1>1, <1>3, <2>5, TouchAllFacts
  <2>7. BooksOK(refs, registry', cnt, drain, ld, req')
    BY <1>3, <2>6, FailKeeps
  <2>8. Moves(r)
    BY <1>1, <1>3 DEF Fail, Moves
  <2> QED
    BY <1>3, <2>7, <2>8
<1>4. ASSUME missing = {}, registry' = TouchAll(reg, p),
             \/ /\ ~Sent[r].list /\ counters' = Increment(cnt, ids[1], 1)
                /\ req' = [req EXCEPT ![r].phase = "acquired", ![r].ids = ids]
             \/ /\ Sent[r].list /\ counters' = cnt
                /\ req' = [req EXCEPT ![r].phase = "counting", ![r].ids = ids]
      PROVE  BooksOK(refs, registry', counters', drain, ld, req') /\ Moves(r)
             /\ DOMAIN counters' = DOMAIN cnt
  <2>1. registry' \in Seq(DOMAIN refs) /\ Range(registry') = Range(reg)
    BY <1>1, <1>2, <1>4, TouchAllFacts
  <2>2. \A k \in DOMAIN p : IsRegistered(reg, p[k])
    BY <1>4
  <2>3. FoundIds(r, reg, ids)
    <3>1. ids = [k \in DOMAIN p |-> IdOf(reg, p[k])]
      OBVIOUS
    <3> HIDE DEF ids
    <3> QED
      BY <1>1, <2>2, <3>1, AcquiredIds
  <2> DEFINE q1 == [o EXCEPT !.phase = "acquired", !.ids = ids]
             q2 == [o EXCEPT !.phase = "counting", !.ids = ids]
  <2> HIDE DEF ids, missing
  <2>4. CASE ~Sent[r].list /\ counters' = Increment(cnt, ids[1], 1)
             /\ req' = [req EXCEPT ![r].phase = "acquired", ![r].ids = ids]
    <3>1. req' = [req EXCEPT ![r] = q1]
      BY <1>1, <2>4
    <3>2. RequestOK(r, q1, refs, Range(reg), DOMAIN cnt) /\ \A i : Using(q1, i) => i = ids[1]
      <4>1. q1 = [o EXCEPT !.phase = "acquired", !.ids = ids]
        OBVIOUS
      <4>2. /\ o.phase \in {"new", "loading"} /\ "acquired" \in {"counting", "acquired"}
            /\ "acquired" = "counting" => Sent[r].list
        OBVIOUS
      <4>3. q1.ids = ids
        BY <1>1 DEF ReqType
      <4> HIDE DEF q1, o
      <4>4. RequestOK(r, q1, refs, Range(reg), DOMAIN cnt)
        BY <1>1, <2>3, <4>1, <4>2, AcquiredRequest
      <4> QED
        BY <4>3, <4>4 DEF Using
    <3>3. /\ counters' \in [DOMAIN cnt -> Int]
          /\ \A j \in DOMAIN cnt : counters'[j] = IF j = ids[1] THEN cnt[j] + 1 ELSE cnt[j]
      BY <1>1, <2>4, IncrementFacts
    <3> HIDE DEF q1
    <3>4. ASSUME NEW i \in DOMAIN cnt, ~Lasting(refs, i)
          PROVE  counters'[i] >= Cardinality(Users([req EXCEPT ![r] = q1], i))
      <4> DEFINE a == Cardinality(Users(req, i))
                 b == Cardinality(Users([req EXCEPT ![r] = q1], i))
      <4>1. a \in Nat /\ b \in Nat
        BY UsersFinite
      <4>2. b <= a + 1
        BY <1>1, UsersPlus
      <4>3. i # ids[1] => b <= a
        BY <1>1, <3>2, UsersKept
      <4>4. cnt[i] >= a /\ cnt[i] \in Int
        BY <1>1, <3>4 DEF BooksOK
      <4> HIDE DEF a, b
      <4>5. counters'[i] >= b
        BY <3>3, <4>1, <4>2, <4>3, <4>4
      <4> QED
        BY <4>5 DEF b
    <3>5. BooksOK(refs, registry', counters', drain, ld, [req EXCEPT ![r] = q1])
      BY <2>1, <3>2, <3>3, <3>4, BooksMove
    <3>6. Moves(r)
      BY <3>1, <1>1 DEF Moves
    <3> QED
      BY <3>1, <3>3, <3>5, <3>6
  <2>5. CASE Sent[r].list /\ counters' = cnt
             /\ req' = [req EXCEPT ![r].phase = "counting", ![r].ids = ids]
    <3>1. req' = [req EXCEPT ![r] = q2]
      BY <1>1, <2>5
    <3>2. RequestOK(r, q2, refs, Range(reg), DOMAIN cnt)
      <4>1. q2 = [o EXCEPT !.phase = "counting", !.ids = ids]
        OBVIOUS
      <4>2. o.phase \in {"new", "loading"} /\ "counting" \in {"counting", "acquired"}
        OBVIOUS
      <4> HIDE DEF q2, o
      <4> QED
        BY <1>1, <2>3, <2>5, <4>1, <4>2, AcquiredRequest
    <3>3. q2.phase = "counting"
      BY <1>1 DEF ReqType
    <3> HIDE DEF q2
    <3>4. \A i : ~Using(q2, i)
      BY <3>3 DEF Using
    <3>5. \A i \in DOMAIN cnt : cnt[i] >= cnt[i]
      BY <1>1
    <3>6. BooksOK(refs, registry', cnt, drain, ld, [req EXCEPT ![r] = q2])
      BY <1>1, <2>1, <3>2, <3>4, <3>5, BooksQuiet
    <3>7. Moves(r)
      BY <3>1, <1>1 DEF Moves
    <3> QED
      BY <2>5, <3>1, <3>6, <3>7
  <2> QED
    BY <1>4, <2>4, <2>5 DEF ids
<1> QED
  BY <1>3, <1>4 DEF Acquire

\* The loop of _resolve_lora_path keeps the books and the queue.
LEMMA ResolvingKeeps ==
  ASSUME Counted, NEW reg, NEW cnt, NEW drain, NEW ld, BooksOK(refs, reg, cnt, drain, ld, req),
         NEW queue, QueueOK(queue, req), NEW r \in Requests, Absent(queue, r),
         ~Refused(r), req[r].phase \in {"new", "loading"}, NEW todo \in Seq(Names),
         Resolving(r, todo, queue, reg, cnt)
  PROVE  /\ BooksOK(refs, registry', counters', drain, ld, req') /\ QueueOK(updates', req')
         /\ queue # <<>> => updates' # <<>>
         /\ DOMAIN counters' = DOMAIN cnt
<1> DEFINE o == req[r]
<1>1. /\ o \in ReqType /\ RequestOK(r, o, refs, Range(reg), DOMAIN cnt)
      /\ req = [s \in Requests |-> req[s]] /\ DOMAIN req = Requests
      /\ cnt \in [DOMAIN cnt -> Int] /\ reg \in Seq(DOMAIN refs)
  BY BooksRequest
<1>2. ASSUME Moves(r) PROVE QueueOK(queue, req')
  <2>1. QueueOK(queue, [req EXCEPT ![r] = req'[r]])
    BY <1>1, QueueMove
  <2> QED
    BY <1>2, <2>1 DEF Moves
<1>3. CASE todo = <<>> /\ updates' = queue /\ Acquire(r, reg, cnt)
  BY <1>2, <1>3, AcquireKeeps
<1>4. CASE updates' = queue /\ registry' = reg /\ counters' = cnt /\ Fail(r)
  <2>1. BooksOK(refs, reg, cnt, drain, ld, req')
    BY <1>1, <1>4, FailKeeps
  <2>2. Moves(r)
    BY <1>1, <1>4 DEF Fail, Moves
  <2> QED
    BY <1>2, <1>4, <2>1, <2>2
<1>5. CASE /\ todo # <<>>
           /\ updates' = Append(queue, LoadFor(r, Head(todo)))
           /\ registry' = reg /\ counters' = cnt
           /\ req' = [req EXCEPT ![r].phase = "loading", ![r].todo = Tail(todo)]
  <2> DEFINE q == [o EXCEPT !.phase = "loading", !.todo = Tail(todo)]
             u == LoadFor(r, Head(todo))
  <2>1. req' = [req EXCEPT ![r] = q]
    BY <1>1, <1>5
  <2>2. Tail(todo) \in Seq(Names) /\ Head(todo) \in Names
    BY <1>5
  <2>3. q \in ReqType /\ q.phase = "loading" /\ q.jobs = o.jobs
    BY <1>1, <2>2 DEF ReqType
  <2>4. o.jobs = <<>>
    BY <1>1, EarlyHasNoJob
  <2>5. u \in UpdateType /\ u.op = "load" /\ u.by = r
    BY <2>2 DEF UpdateType, LoadFor
  <2> HIDE DEF q, u, o
  <2>6. SingleOK(q) /\ FixedOK(r, q, refs, Range(reg)) /\ \A i : ~Using(q, i)
    BY <2>3, <2>4 DEF SingleOK, FixedOK, Using
  <2>7. RequestOK(r, q, refs, Range(reg), DOMAIN cnt)
    BY <2>3, <2>6 DEF RequestOK
  <2>8. \A i \in DOMAIN cnt : cnt[i] >= cnt[i]
    BY <1>1
  <2>9. BooksOK(refs, reg, cnt, drain, ld, [req EXCEPT ![r] = q])
    BY <1>1, <2>6, <2>7, <2>8, BooksQuiet
  <2>10. QueueOK(queue, req')
    BY <1>1, <2>1, QueueMove
  <2>11. req'[r].phase = "loading"
    BY <2>1, <1>1, <2>3
  <2>12. QueueOK(Append(queue, u), req') /\ Append(queue, u) # <<>>
    BY <2>5, <2>10, <2>11, QueueAppend
  <2> QED
    BY <1>5, <2>1, <2>9, <2>12 DEF u
<1> QED
  BY <1>3, <1>4, <1>5 DEF Resolving

---------------------------------------------------------------------------
(* The registry, the counters and the ranks move.                          *)

\* A request is right as long as the lasting adapters stay, and the ones it uses.
LEMMA RequestStays ==
  ASSUME NEW r, NEW q, NEW rf, NEW R, NEW D, RequestOK(r, q, rf, R, D),
         NEW rf2, NEW R2, NEW D2,
         \A i \in R : Lasting(rf, i) => i \in R2 /\ Lasting(rf2, i),
         \A i \in D : (Single(r) /\ Using(q, i)) => i \in D2
  PROVE  RequestOK(r, q, rf2, R2, D2)
<1>1. FixedOK(r, q, rf, R) => FixedOK(r, q, rf2, R2)
  BY DEF FixedOK
<1> QED
  BY <1>1 DEF RequestOK

\* An adapter that is unregistered keeps its counter until it is drained.
LEMMA BooksUnregister ==
  ASSUME NEW rf, NEW reg, NEW cnt, NEW ld, NEW rq, BooksOK(rf, reg, cnt, {}, ld, rq),
         NEW i \in Range(reg), ~Lasting(rf, i)
  PROVE  BooksOK(rf, Unregister(reg, i), cnt, {i}, ld, rq)
<1> DEFINE u == Unregister(reg, i)
<1>1. rf \in Seq(Names) /\ reg \in Seq(DOMAIN rf) /\ DOMAIN cnt = Range(reg)
  BY DEF BooksOK
<1>2. u \in Seq(DOMAIN rf) /\ Range(u) = Range(reg) \ {i}
  BY <1>1, UnregisterFacts
<1>3. i \in DOMAIN rf
  BY <1>1 DEF Range
<1> HIDE DEF u
<1>4. ASSUME NEW r \in Requests
      PROVE  RequestOK(r, rq[r], rf, Range(u), DOMAIN cnt)
  <2>1. RequestOK(r, rq[r], rf, Range(reg), DOMAIN cnt)
    BY DEF BooksOK
  <2>2. \A j \in Range(reg) : Lasting(rf, j) => j \in Range(u) /\ Lasting(rf, j)
    BY <1>2
  <2> QED
    BY <2>1, <2>2, RequestStays
<1>5. {i} \subseteq DOMAIN rf /\ {i} \cap Range(u) = {} /\ DOMAIN cnt = Range(u) \cup {i}
  BY <1>1, <1>2, <1>3
<1>6. BooksOK(rf, u, cnt, {i}, ld, rq)
  BY <1>2, <1>4, <1>5 DEF BooksOK
<1> QED
  BY <1>6 DEF u

\* An adapter whose counter is zero has no user: its counter may go.
LEMMA BooksDrained ==
  ASSUME NEW rf, NEW reg, NEW cnt, NEW ld, NEW rq, NEW i, BooksOK(rf, reg, cnt, {i}, ld, rq),
         cnt[i] = 0
  PROVE  /\ BooksOK(rf, reg, Without(cnt, i), {}, ld, rq)
         /\ i \in DOMAIN rf \ DOMAIN Without(cnt, i)
<1> DEFINE w == Without(cnt, i)
<1>1. /\ DOMAIN cnt = Range(reg) \cup {i} /\ i \notin Range(reg) /\ ~Lasting(rf, i)
      /\ cnt \in [DOMAIN cnt -> Int] /\ i \in DOMAIN rf /\ i \in DOMAIN cnt
  BY DEF BooksOK
<1>2. DOMAIN w = Range(reg) /\ \A j \in DOMAIN w : w[j] = cnt[j]
  BY <1>1 DEF Without
<1>3. w \in [DOMAIN w -> Int]
  BY <1>1 DEF Without
<1>4. Users(rq, i) = {}
  <2>1. cnt[i] >= Cardinality(Users(rq, i))
    BY <1>1 DEF BooksOK
  <2>2. IsFiniteSet(Users(rq, i)) /\ Cardinality(Users(rq, i)) \in Nat
    BY UsersFinite
  <2>3. Cardinality(Users(rq, i)) = 0
    BY <2>1, <2>2
  <2> QED
    BY <2>2, <2>3, FS_EmptySet
<1> HIDE DEF w
<1>5. ASSUME NEW r \in Requests
      PROVE  RequestOK(r, rq[r], rf, Range(reg), DOMAIN w)
  <2>1. RequestOK(r, rq[r], rf, Range(reg), DOMAIN cnt)
    BY DEF BooksOK
  <2>2. ~(Single(r) /\ Using(rq[r], i))
    BY <1>4 DEF Users
  <2>3. \A j \in DOMAIN cnt : (Single(r) /\ Using(rq[r], j)) => j \in DOMAIN w
    BY <1>1, <1>2, <2>2
  <2> QED
    BY <2>1, <2>3, RequestStays
<1>6. \A j \in DOMAIN w : j \in DOMAIN cnt /\ w[j] = cnt[j]
  BY <1>1, <1>2
<1>7. \A j \in DOMAIN w : ~Lasting(rf, j) => w[j] >= Cardinality(Users(rq, j))
  BY <1>6 DEF BooksOK
<1>8. \A j \in DOMAIN w, k \in Ranks : j \in ld[k]
  BY <1>6 DEF BooksOK
<1>9. DOMAIN w = Range(reg) \cup {}
  BY <1>2
<1>10. BooksOK(rf, reg, w, {}, ld, rq)
  BY <1>3, <1>5, <1>7, <1>8, <1>9 DEF BooksOK
<1>11. i \notin DOMAIN w
  BY <1>1, <1>2
<1> QED
  BY <1>1, <1>10, <1>11 DEF w

\* A new adapter that every rank has loaded is registered, with a counter of zero.
LEMMA BooksRegister ==
  ASSUME NEW rf, NEW reg, NEW cnt, NEW ld, NEW rq, BooksOK(rf, reg, cnt, {}, ld, rq),
         NEW i \in DOMAIN rf \ DOMAIN cnt, \A k \in Ranks : i \in ld[k]
  PROVE  BooksOK(rf, Append(reg, i), With(cnt, i), {}, ld, rq)
<1> DEFINE w == With(cnt, i)
           a == Append(reg, i)
<1>1. /\ DOMAIN cnt = Range(reg) /\ reg \in Seq(DOMAIN rf)
      /\ cnt \in [DOMAIN cnt -> Int] /\ i \in DOMAIN rf /\ i \notin DOMAIN cnt
  BY DEF BooksOK
<1>2. /\ DOMAIN w = DOMAIN cnt \cup {i} /\ w[i] = 0
      /\ \A j \in DOMAIN cnt : w[j] = cnt[j]
  BY <1>1 DEF With
<1>3. w \in [DOMAIN w -> Int]
  BY <1>1 DEF With
<1>4. a \in Seq(DOMAIN rf) /\ Range(a) = Range(reg) \cup {i}
  BY <1>1, RangeAppend
<1>5. Users(rq, i) = {}
  <2> SUFFICES ASSUME NEW r \in Users(rq, i) PROVE FALSE
    OBVIOUS
  <2>1. r \in Requests /\ Single(r) /\ Using(rq[r], i)
    BY DEF Users
  <2>2. i \in DOMAIN cnt
    BY <2>1 DEF BooksOK, RequestOK
  <2> QED
    BY <2>2
<1>6. Cardinality(Users(rq, i)) = 0
  BY <1>5, FS_EmptySet
<1> HIDE DEF w, a
<1>7. ASSUME NEW r \in Requests
      PROVE  RequestOK(r, rq[r], rf, Range(a), DOMAIN w)
  <2>1. RequestOK(r, rq[r], rf, Range(reg), DOMAIN cnt)
    BY DEF BooksOK
  <2> QED
    BY <1>2, <1>4, <2>1, RequestStays
<1>8. \A j \in DOMAIN w : ~Lasting(rf, j) => w[j] >= Cardinality(Users(rq, j))
  <2> SUFFICES ASSUME NEW j \in DOMAIN w, ~Lasting(rf, j)
               PROVE  w[j] >= Cardinality(Users(rq, j))
    OBVIOUS
  <2>1. CASE j = i
    BY <1>2, <1>6, <2>1
  <2>2. CASE j # i
    BY <1>2, <2>2 DEF BooksOK
  <2> QED
    BY <2>1, <2>2
<1>9. \A j \in DOMAIN w, k \in Ranks : j \in ld[k]
  BY <1>2 DEF BooksOK
<1>10. DOMAIN w = Range(a) \cup {}
  BY <1>1, <1>2, <1>4
<1>11. BooksOK(rf, a, w, {}, ld, rq)
  BY <1>3, <1>4, <1>7, <1>8, <1>9, <1>10 DEF BooksOK
<1> QED
  BY <1>11 DEF w, a

\* The ranks keep what has a counter.
LEMMA BooksRanks ==
  ASSUME NEW rf, NEW reg, NEW cnt, NEW drain, NEW ld, NEW rq,
         BooksOK(rf, reg, cnt, drain, ld, rq),
         NEW ld2, \A i \in DOMAIN cnt, k \in Ranks : i \in ld[k] => i \in ld2[k]
  PROVE  BooksOK(rf, reg, cnt, drain, ld2, rq)
  BY DEF BooksOK

\* A new ref.
LEMMA BooksRefs ==
  ASSUME NEW rf, NEW reg, NEW cnt, NEW drain, NEW ld, NEW rq,
         BooksOK(rf, reg, cnt, drain, ld, rq), NEW name \in Names
  PROVE  BooksOK(Append(rf, name), reg, cnt, drain, ld, rq)
<1> DEFINE a == Append(rf, name)
<1>1. /\ rf \in Seq(Names) /\ reg \in Seq(DOMAIN rf) /\ drain \subseteq DOMAIN rf
      /\ DOMAIN cnt = Range(reg) \cup drain
  BY DEF BooksOK
<1>2. Range(reg) \subseteq DOMAIN rf
  BY <1>1 DEF Range
<1>3. a \in Seq(Names) /\ DOMAIN rf \subseteq DOMAIN a /\ \A i \in DOMAIN rf : a[i] = rf[i]
  BY <1>1
<1> HIDE DEF a
<1>4. reg \in Seq(DOMAIN a)
  BY <1>1, <1>3
<1>5. \A i \in DOMAIN rf : Lasting(a, i) <=> Lasting(rf, i)
  BY <1>3 DEF Lasting
<1>6. ASSUME NEW r \in Requests
      PROVE  RequestOK(r, rq[r], a, Range(reg), DOMAIN cnt)
  <2>1. RequestOK(r, rq[r], rf, Range(reg), DOMAIN cnt)
    BY DEF BooksOK
  <2> QED
    BY <1>2, <1>5, <2>1, RequestStays
<1>7. \A i \in DOMAIN cnt : ~Lasting(a, i) => cnt[i] >= Cardinality(Users(rq, i))
  BY <1>1, <1>2, <1>5 DEF BooksOK
<1>8. \A i \in drain : ~Lasting(a, i)
  BY <1>1, <1>5 DEF BooksOK
<1>9. BooksOK(a, reg, cnt, drain, ld, rq)
  BY <1>1, <1>3, <1>4, <1>6, <1>7, <1>8 DEF BooksOK
<1> QED
  BY <1>9 DEF a

\* The invariant after a step that leaves the refs and makes ld of loaded.
Restored(ld) ==
  /\ BooksOK(refs, registry', counters', Draining(stage'), ld, req')
  /\ QueueOK(updates', req')
  /\ StageOK(stage', updates', refs, DOMAIN counters')

\* A stage that holds nothing.
LEMMA IdleStage ==
  ASSUME NEW queue, NEW rf, NEW D
  PROVE  StageOK(Idle, queue, rf, D) /\ Draining(Idle) = {}
  BY DEF StageOK, StageType, Idle, Draining

\* The holder gives the lock back, and a request it loaded for goes on.
LEMMA FinishKeeps ==
  ASSUME Counted, NEW reg, NEW cnt, NEW ld, BooksOK(refs, reg, cnt, {}, ld, req),
         QueueOK(updates, req), updates # <<>>, NEW result, Finish(result, reg, cnt)
  PROVE  Restored(ld)
<1> DEFINE by == Head(updates).by
<1>1. /\ QueueOK(Tail(updates), req) /\ Head(updates) \in UpdateType
      /\ by \in Requests =>
           req[by].phase = "loading" /\ Absent(Tail(updates), by)
  BY QueueTail
<1>2. stage' = Idle
  BY DEF Finish
<1>3. SUFFICES BooksOK(refs, registry', counters', {}, ld, req') /\ QueueOK(updates', req')
  BY <1>2, IdleStage DEF Restored
<1>4. CASE /\ updates' = Tail(updates) /\ registry' = reg /\ counters' = cnt
           /\ UNCHANGED req
  BY <1>1, <1>4
<1>5. CASE by \in Requests
  <2>1. req[by].phase = "loading" /\ Absent(Tail(updates), by)
    BY <1>1, <1>5
  <2>2. /\ req[by] \in ReqType /\ RequestOK(by, req[by], refs, Range(reg), DOMAIN cnt)
        /\ req = [s \in Requests |-> req[s]] /\ DOMAIN req = Requests
        /\ reg \in Seq(DOMAIN refs)
    BY <1>5, BooksRequest
  <2>3. ~Refused(by)
    BY <2>1, <2>2 DEF RequestOK, RefusedOK
  <2>4. req[by].todo \in Seq(Names)
    BY <2>2 DEF ReqType
  <2> HIDE DEF by
  <2>5. CASE updates' = Tail(updates) /\ registry' = reg /\ counters' = cnt /\ Fail(by)
    <3>1. BooksOK(refs, reg, cnt, {}, ld, req')
      BY <1>5, <2>1, <2>2, <2>5, FailKeeps
    <3>2. req' = [req EXCEPT ![by] = [req[by] EXCEPT !.phase = "failed"]]
      BY <2>2, <2>5, <1>5 DEF Fail
    <3>3. QueueOK(Tail(updates), req')
      BY <1>1, <1>5, <2>1, <2>2, <3>2, QueueMove
    <3> QED
      BY <2>5, <3>1, <3>3
  <2>6. CASE Resolving(by, req[by].todo, Tail(updates), reg, cnt)
    BY <1>1, <1>5, <2>1, <2>3, <2>4, <2>6, ResolvingKeeps
  <2> QED
    BY <1>4, <1>5, <2>5, <2>6 DEF Finish, by
<1> QED
  BY <1>4, <1>5 DEF Finish

\* An unload starts: unregistered, the adapter is drained or, unused, asked of the ranks.
LEMMA StartUnloadKeeps ==
  ASSUME NEW reg, NEW cnt, NEW ld, BooksOK(refs, reg, cnt, {}, ld, req),
         QueueOK(updates, req), updates # <<>>,
         NEW i \in Range(reg), ~Lasting(refs, i), StartUnload(i, reg, cnt)
  PROVE  Restored(ld)
<1>1. BooksOK(refs, registry', cnt, {i}, ld, req)
  BY BooksUnregister DEF StartUnload
<1>2. updates' = updates /\ req' = req
  BY DEF StartUnload
<1>3. i \in Nat
  <2>1. reg \in Seq(DOMAIN refs) /\ refs \in Seq(Names)
    BY DEF BooksOK
  <2>2. i \in DOMAIN refs
    BY <2>1 DEF Range
  <2> QED
    BY <2>1, <2>2
<1>4. CASE /\ cnt[i] = 0 /\ counters' = Without(cnt, i)
           /\ stage' = [at |-> "unloading", id |-> i, woken |-> FALSE]
  <2>1. /\ BooksOK(refs, registry', counters', {}, ld, req)
        /\ i \in DOMAIN refs \ DOMAIN counters'
    BY <1>1, <1>4, BooksDrained
  <2>2. Draining(stage') = {}
    BY <1>4 DEF Draining
  <2>3. StageOK(stage', updates', refs, DOMAIN counters')
    BY <1>2, <1>3, <1>4, <2>1 DEF StageOK, StageType
  <2> QED
    BY <1>2, <2>1, <2>2, <2>3 DEF Restored
<1>5. CASE /\ cnt[i] # 0 /\ counters' = cnt
           /\ stage' = [at |-> "draining", id |-> i, woken |-> FALSE]
  <2>1. Draining(stage') = {i}
    BY <1>5 DEF Draining
  <2>2. StageOK(stage', updates', refs, DOMAIN counters')
    BY <1>2, <1>3, <1>5 DEF StageOK, StageType
  <2> QED
    BY <1>1, <1>2, <1>5, <2>1, <2>2 DEF Restored
<1> QED
  BY <1>4, <1>5 DEF StartUnload

\* What is evicted is not pinned.
LEMMA EvictableFacts ==
  ASSUME NEW A, NEW reg \in Seq(A), Evictable(reg) # <<>>
  PROVE  Head(Evictable(reg)) \in Range(reg) /\ refs[Head(Evictable(reg))] \notin Pinned
<1> DEFINE S == {i \in Range(reg) : refs[i] \notin Pinned}
           e == Evictable(reg)
<1>1. e \in Seq(A) /\ Range(e) = Range(reg) \cap S
  BY OnlyFacts DEF Evictable
<1>2. e # <<>>
  OBVIOUS
<1> HIDE DEF e
<1>3. Head(e) = e[1] /\ 1 \in DOMAIN e
  BY <1>1, <1>2
<1>4. Head(e) \in Range(e)
  BY <1>3 DEF Range
<1> QED
  BY <1>1, <1>4 DEF e

\* The eviction loop.
LEMMA EvictKeeps ==
  ASSUME Counted, NEW reg, NEW cnt, NEW ld, BooksOK(refs, reg, cnt, {}, ld, req),
         QueueOK(updates, req), updates # <<>>, NEW result, Evict(result, reg, cnt)
  PROVE  Restored(ld)
<1>1. reg \in Seq(DOMAIN refs)
  BY DEF BooksOK
<1>2. CASE Evictable(reg) # <<>> /\ StartUnload(Head(Evictable(reg)), reg, cnt)
  <2>1. Head(Evictable(reg)) \in Range(reg) /\ refs[Head(Evictable(reg))] \notin Pinned
    BY <1>1, <1>2, EvictableFacts
  <2>2. ~Lasting(refs, Head(Evictable(reg)))
    BY <2>1 DEF Lasting
  <2> QED
    BY <1>2, <2>1, <2>2, StartUnloadKeeps
<1>3. CASE Finish(IF OverLimit(reg) THEN "failed" ELSE result, reg, cnt)
  BY <1>3, FinishKeeps
<1> QED
  BY <1>2, <1>3 DEF Evict

---------------------------------------------------------------------------
(* The actions.                                                            *)

\* The registry may be reordered.
LEMMA BooksTouch ==
  ASSUME NEW rf, NEW reg, NEW cnt, NEW drain, NEW ld, NEW rq,
         BooksOK(rf, reg, cnt, drain, ld, rq),
         NEW reg2 \in Seq(DOMAIN rf), Range(reg2) = Range(reg)
  PROVE  BooksOK(rf, reg2, cnt, drain, ld, rq)
  BY DEF BooksOK

\* A step that leaves refs, loaded and stage.
LEMMA StageStays ==
  ASSUME NEW st, NEW queue, NEW rf, NEW D, StageOK(st, queue, rf, D),
         NEW queue2, queue # <<>> => queue2 # <<>>
  PROVE  StageOK(st, queue2, rf, D)
  BY DEF StageOK

\* Ask: a client's update waits for the lock.
LEMMA AskKeeps ==
  ASSUME CountedInv, NEW op \in {"load", "unload"}, NEW name \in Updatable, Ask(op, name)
  PROVE  CountedInv'
<1> DEFINE u == [op |-> op, name |-> name, by |-> Client]
<1>1. u \in UpdateType /\ u.op = op /\ u.name = name /\ u.by = Client
  BY LoRAAssumption DEF UpdateType
<1>2. u.by \notin Requests
  BY <1>1, LoRAAssumption
<1>3. updates' = Append(updates, u)
  BY DEF Ask
<1> HIDE DEF u
<1>4. QueueOK(updates', req) /\ updates' # <<>>
  BY <1>1, <1>2, <1>3, QueueAppend DEF CountedInv
<1>5. UNCHANGED <<refs, registry, counters, loaded, stage, req>>
  BY DEF Ask
<1>6. StageOK(stage, updates', refs, DOMAIN counters)
  BY <1>4, StageStays DEF CountedInv
<1> QED
  BY <1>4, <1>5, <1>6 DEF CountedInv

\* Start: a load makes a new ref, an unload unregisters.
LEMMA StartKeeps ==
  ASSUME CountedInv, Start
  PROVE  CountedInv'
<1> DEFINE u == Head(updates)
<1>1. updates # <<>> /\ stage.at = "idle" /\ UNCHANGED loaded
  BY DEF Start
<1>2. Draining(stage) = {}
  BY <1>1 DEF Draining
<1>3. BooksOK(refs, registry, counters, {}, loaded, req) /\ QueueOK(updates, req)
      /\ StageOK(stage, updates, refs, DOMAIN counters)
  BY <1>2 DEF CountedInv
<1>4. /\ QueueOK(Tail(updates), req) /\ u \in UpdateType
      /\ u.op = "unload" => u.name \in Updatable
  BY <1>1, <1>3, QueueTail
<1>5. u.name \in Names
  BY <1>4 DEF UpdateType
<1> HIDE DEF u
<1>6. CASE /\ refs' = Append(refs, u.name)
           /\ stage' = [at |-> "loading", id |-> Len(refs) + 1, woken |-> FALSE]
           /\ UNCHANGED <<registry, counters, updates, req>>
  <2>1. BooksOK(refs', registry, counters, {}, loaded, req)
    BY <1>3, <1>5, <1>6, BooksRefs
  <2>2. Draining(stage') = {}
    BY <1>6 DEF Draining
  <2>3. refs \in Seq(Names) /\ registry \in Seq(DOMAIN refs) /\ DOMAIN counters = Range(registry)
    BY <1>3 DEF BooksOK
  <2>4. DOMAIN counters \subseteq DOMAIN refs
    BY <2>3 DEF Range
  <2>5. Len(refs) + 1 \in Nat /\ Len(refs) + 1 \in DOMAIN refs' /\ Len(refs) + 1 \notin DOMAIN refs
    BY <2>3, <1>5, <1>6
  <2>6. StageOK(stage', updates, refs', DOMAIN counters)
    BY <1>1, <1>6, <2>4, <2>5 DEF StageOK, StageType
  <2> QED
    BY <1>1, <1>3, <1>6, <2>1, <2>2, <2>6 DEF CountedInv
<1>7. CASE /\ u.op = "unload" /\ IsRegistered(registry, u.name) /\ UNCHANGED refs
           /\ StartUnload(IdOf(registry, u.name), registry, counters)
  <2> DEFINE i == IdOf(registry, u.name)
  <2>1. i \in Range(registry) /\ refs[i] = u.name
    BY <1>7, IdOfFacts
  <2>2. ~Lasting(refs, i)
    BY <1>4, <1>7, <2>1 DEF Lasting
  <2>3. Restored(loaded)
    BY <1>1, <1>3, <1>7, <2>1, <2>2, StartUnloadKeeps
  <2> QED
    BY <1>1, <1>7, <2>3 DEF CountedInv, Restored
<1>8. CASE updates' = Tail(updates) /\ UNCHANGED <<refs, registry, counters, stage, req>>
  <2>1. StageOK(stage, updates', refs, DOMAIN counters)
    BY <1>1, <1>3 DEF StageOK
  <2> QED
    BY <1>1, <1>3, <1>4, <1>8, <2>1, <1>2 DEF CountedInv
<1> QED
  BY <1>6, <1>7, <1>8 DEF Start, u

\* LoadReply: only what every rank loaded is registered.
LEMMA LoadReplyKeeps ==
  ASSUME Counted, CountedInv, LoadReply
  PROVE  CountedInv'
<1> DEFINE i == stage.id
           name == refs[stage.id]
           able == {k \in Ranks : CanLoad(k, name)}
<1>1. stage.at = "loading" /\ UNCHANGED refs
  BY DEF LoadReply
<1>2. PICK good \in SUBSET able :
          /\ loaded' = [k \in Ranks |-> loaded[k] \union IF k \in good THEN {i} ELSE {}]
          /\ \/ /\ Merged(good, name) = "ok"
                /\ Evict(Merged(good, name), Append(registry, i), With(counters, i))
             \/ Evict(Merged(good, name), registry, counters)
  BY DEF LoadReply
<1>3. Draining(stage) = {}
  BY <1>1 DEF Draining
<1>4. /\ BooksOK(refs, registry, counters, {}, loaded, req) /\ QueueOK(updates, req)
      /\ updates # <<>> /\ i \in DOMAIN refs \ DOMAIN counters
  BY <1>1, <1>3 DEF CountedInv, StageOK
<1>5. BooksOK(refs, registry, counters, {}, loaded', req)
  <2>1. \A j \in DOMAIN counters, k \in Ranks : j \in loaded[k] => j \in loaded'[k]
    BY <1>2
  <2> QED
    BY <1>4, <2>1, BooksRanks
<1> HIDE DEF i, name
<1>6. CASE Evict(Merged(good, name), registry, counters)
  <2>1. Restored(loaded')
    BY <1>4, <1>5, <1>6, EvictKeeps
  <2> QED
    BY <1>1, <2>1 DEF Restored, CountedInv
<1>7. CASE /\ Merged(good, name) = "ok"
           /\ Evict(Merged(good, name), Append(registry, i), With(counters, i))
  <2>1. good = Ranks
    BY <1>7 DEF Merged
  <2>2. \A k \in Ranks : i \in loaded'[k]
    BY <1>2, <2>1
  <2>3. BooksOK(refs, Append(registry, i), With(counters, i), {}, loaded', req)
    BY <1>4, <1>5, <2>2, BooksRegister
  <2>4. Restored(loaded')
    BY <1>4, <1>7, <2>3, EvictKeeps
  <2> QED
    BY <1>1, <2>4 DEF Restored, CountedInv
<1> QED
  BY <1>2, <1>6, <1>7

\* Wake: the counter goes when it is zero, that is, without users.
LEMMA WakeKeeps ==
  ASSUME CountedInv, Wake
  PROVE  CountedInv'
<1> DEFINE i == stage.id
<1>1. /\ stage.at = "draining"
      /\ UNCHANGED <<refs, registry, loaded, updates, req>>
  BY DEF Wake
<1>2. Draining(stage) = {i}
  BY <1>1 DEF Draining
<1>3. /\ BooksOK(refs, registry, counters, {i}, loaded, req) /\ QueueOK(updates, req)
      /\ stage \in StageType /\ updates # <<>>
  BY <1>1, <1>2 DEF CountedInv, StageOK
<1>4. CASE /\ counters[i] = 0 /\ counters' = Without(counters, i)
           /\ stage' = [stage EXCEPT !.at = "unloading", !.woken = FALSE]
  <2>1. /\ BooksOK(refs, registry, counters', {}, loaded, req)
        /\ i \in DOMAIN refs \ DOMAIN counters'
    BY <1>3, <1>4, BooksDrained
  <2>2. stage' \in StageType /\ stage'.at = "unloading" /\ stage'.id = i
    BY <1>3, <1>4 DEF StageType
  <2>3. Draining(stage') = {} /\ StageOK(stage', updates, refs, DOMAIN counters')
    BY <1>3, <2>1, <2>2 DEF Draining, StageOK
  <2> QED
    BY <1>1, <1>3, <2>1, <2>3 DEF CountedInv
<1>5. CASE stage' = [stage EXCEPT !.woken = FALSE] /\ UNCHANGED counters
  <2>1. stage' \in StageType /\ stage'.at = "draining" /\ stage'.id = i
    BY <1>1, <1>3, <1>5 DEF StageType
  <2>2. Draining(stage') = {i} /\ StageOK(stage', updates, refs, DOMAIN counters)
    BY <1>3, <2>1 DEF Draining, StageOK
  <2> QED
    BY <1>1, <1>3, <1>5, <2>2 DEF CountedInv
<1> QED
  BY <1>4, <1>5 DEF Wake

\* UnloadReply: the ranks drop an adapter that has no counter.
LEMMA UnloadReplyKeeps ==
  ASSUME Counted, CountedInv, UnloadReply
  PROVE  CountedInv'
<1>1. stage.at = "unloading" /\ UNCHANGED refs
  BY DEF UnloadReply
<1>2. PICK gone \in SUBSET Ranks :
       /\ loaded' = [k \in Ranks |-> loaded[k] \ IF k \in gone THEN {stage.id} ELSE {}]
       /\ \/ Evict("ok", registry, counters)
          \/ Finish(IF gone = Ranks THEN "ok" ELSE "failed", registry, counters)
  BY DEF UnloadReply
<1>3. Draining(stage) = {}
  BY <1>1 DEF Draining
<1>4. /\ BooksOK(refs, registry, counters, {}, loaded, req) /\ QueueOK(updates, req)
      /\ updates # <<>> /\ stage.id \notin DOMAIN counters
  BY <1>1, <1>3 DEF CountedInv, StageOK
<1>5. BooksOK(refs, registry, counters, {}, loaded', req)
  <2>1. \A j \in DOMAIN counters, k \in Ranks : j \in loaded[k] => j \in loaded'[k]
    BY <1>2, <1>4
  <2> QED
    BY <1>4, <2>1, BooksRanks
<1>6. Restored(loaded')
  <2>1. CASE Evict("ok", registry, counters)
    BY <1>4, <1>5, <2>1, EvictKeeps
  <2>2. CASE Finish(IF gone = Ranks THEN "ok" ELSE "failed", registry, counters)
    BY <1>4, <1>5, <2>2, FinishKeeps
  <2> QED
    BY <1>2, <2>1, <2>2
<1> QED
  BY <1>1, <1>6 DEF Restored, CountedInv

\* Resolve: a new request looks its names up and loads or acquires.
LEMMA ResolveKeeps ==
  ASSUME Counted, CountedInv, NEW r \in Requests, Resolve(r)
  PROVE  CountedInv'
<1> DEFINE names == Range(Sent[r].paths)
           drain == Draining(stage)
<1>1. req[r].phase = "new" /\ UNCHANGED <<refs, loaded, stage>>
  BY DEF Resolve
<1>2. /\ BooksOK(refs, registry, counters, drain, loaded, req) /\ QueueOK(updates, req)
      /\ StageOK(stage, updates, refs, DOMAIN counters)
  BY DEF CountedInv
<1>3. Absent(updates, r)
  BY <1>1, <1>2, QueueAbsent
<1>4. /\ req = [s \in Requests |-> req[s]] /\ DOMAIN req = Requests
      /\ registry \in Seq(DOMAIN refs)
  BY <1>2, BooksRequest
<1>5. Draining(stage') = drain
  BY <1>1
<1> HIDE DEF drain
<1>6. CASE Fail(r) /\ UNCHANGED <<registry, counters, updates>>
  <2>1. BooksOK(refs, registry, counters, drain, loaded, req')
    BY <1>1, <1>2, <1>4, <1>6, FailKeeps
  <2>2. req' = [req EXCEPT ![r] = [req[r] EXCEPT !.phase = "failed"]]
    BY <1>4, <1>6 DEF Fail
  <2>3. QueueOK(updates, req')
    BY <1>2, <1>3, <1>4, <2>2, QueueMove
  <2> QED
    BY <1>1, <1>2, <1>5, <1>6, <2>1, <2>3 DEF CountedInv
<1>7. CASE /\ Cardinality(names) <= MaxLoaded
           /\ \E order \in SetToSeqs(names) :
                Resolving(r, Only(order, {n \in names : ~IsRegistered(registry, n)}),
                          updates, TouchAll(registry, order), counters)
  <2>1. names \subseteq Names /\ IsFiniteSet(Names)
    <3>1. Sent[r].paths \in Seq(Names)
      BY SentType
    <3> QED
      BY <3>1, LoRAAssumption DEF Range
  <2>2. IsFiniteSet(names) /\ Cardinality(names) \in Nat
    BY <2>1, FS_Subset, FS_CardinalityType
  <2>3. ~Refused(r)
    BY <1>7, <2>2, LoRAAssumption DEF Refused
  <2> HIDE DEF names
  <2>4. PICK order \in SetToSeqs(names) :
                Resolving(r, Only(order, {n \in names : ~IsRegistered(registry, n)}),
                          updates, TouchAll(registry, order), counters)
    BY <1>7
  <2>5. order \in [1..Cardinality(names) -> names]
    BY <2>4 DEF SetToSeqs
  <2>6. order \in Seq(Names)
    BY <2>1, <2>2, <2>5
  <2> DEFINE todo == Only(order, {n \in names : ~IsRegistered(registry, n)})
             reg == TouchAll(registry, order)
  <2>7. todo \in Seq(Names)
    BY <2>6, OnlyFacts
  <2>8. reg \in Seq(DOMAIN refs) /\ Range(reg) = Range(registry)
    BY <1>4, <2>6, TouchAllFacts
  <2>9. Resolving(r, todo, updates, reg, counters)
    BY <2>4
  <2> HIDE DEF todo, reg
  <2>10. BooksOK(refs, reg, counters, drain, loaded, req)
    BY <1>2, <2>8, BooksTouch
  <2>11. /\ BooksOK(refs, registry', counters', drain, loaded, req') /\ QueueOK(updates', req')
         /\ updates # <<>> => updates' # <<>>
         /\ DOMAIN counters' = DOMAIN counters
    BY <1>1, <1>2, <1>3, <2>3, <2>7, <2>9, <2>10, ResolvingKeeps
  <2>12. StageOK(stage, updates', refs, DOMAIN counters')
    BY <1>2, <2>11, StageStays
  <2> QED
    BY <1>1, <1>5, <2>11, <2>12 DEF CountedInv
<1> QED
  BY <1>6, <1>7 DEF Resolve

\* A step of r that leaves the registry and the updates, and no more than counts.
LEMMA RequestStep ==
  ASSUME CountedInv, NEW r \in Requests, NEW q, req' = [req EXCEPT ![r] = q],
         RequestOK(r, q, refs, Range(registry), DOMAIN counters),
         \A i : (Single(r) /\ Using(q, i)) => Using(req[r], i),
         req[r].phase = "loading" => q.phase = "loading",
         UNCHANGED <<refs, registry, loaded, updates>>,
         counters' \in [DOMAIN counters -> Int],
         \A i \in DOMAIN counters : ~Lasting(refs, i) => counters'[i] >= counters[i],
         Draining(stage') = Draining(stage), StageOK(stage', updates, refs, DOMAIN counters)
  PROVE  CountedInv'
<1>1. BooksOK(refs, registry, counters, Draining(stage), loaded, req) /\ QueueOK(updates, req)
  BY DEF CountedInv
<1>2. req = [s \in Requests |-> req[s]] /\ registry \in Seq(DOMAIN refs)
  BY <1>1, BooksRequest
<1>3. Absent(updates, r) \/ q.phase = "loading"
  BY <1>1, QueueAbsent
<1>4. BooksOK(refs, registry, counters', Draining(stage), loaded, req')
  BY <1>1, <1>2, BooksQuiet
<1>5. QueueOK(updates, req')
  BY <1>1, <1>2, <1>3, QueueMove
<1>6. DOMAIN counters' = DOMAIN counters
  OBVIOUS
<1> QED
  BY <1>4, <1>5, <1>6 DEF CountedInv

\* What the invariant says of one request.
LEMMA InvRequest ==
  ASSUME CountedInv, NEW r \in Requests
  PROVE  /\ req[r] \in ReqType
         /\ RequestOK(r, req[r], refs, Range(registry), DOMAIN counters)
         /\ req = [p \in Requests |-> req[p]] /\ DOMAIN req = Requests
         /\ counters \in [DOMAIN counters -> Int]
         /\ \A i \in DOMAIN counters : counters[i] >= counters[i]
         /\ StageOK(stage, updates, refs, DOMAIN counters)
<1>1. /\ BooksOK(refs, registry, counters, Draining(stage), loaded, req)
      /\ StageOK(stage, updates, refs, DOMAIN counters)
  BY DEF CountedInv
<1>2. /\ req[r] \in ReqType
      /\ RequestOK(r, req[r], refs, Range(registry), DOMAIN counters)
      /\ req = [p \in Requests |-> req[p]] /\ DOMAIN req = Requests
      /\ counters \in [DOMAIN counters -> Int]
  BY <1>1, BooksRequest
<1>3. \A i \in DOMAIN counters : counters[i] >= counters[i]
  BY <1>2
<1> QED
  BY <1>1, <1>2, <1>3

\* CountUses: the increments of a list only add.
LEMMA CountUsesKeeps ==
  ASSUME CountedInv, NEW r \in Requests, CountUses(r)
  PROVE  CountedInv'
<1> DEFINE o == req[r]
           q == [o EXCEPT !.phase = "acquired"]
<1>1. /\ o \in ReqType /\ RequestOK(r, o, refs, Range(registry), DOMAIN counters)
      /\ req = [p \in Requests |-> req[p]] /\ DOMAIN req = Requests
      /\ counters \in [DOMAIN counters -> Int]
      /\ StageOK(stage, updates, refs, DOMAIN counters)
  BY InvRequest
<1>2. o.phase = "counting" /\ UNCHANGED <<refs, registry, loaded, updates, stage>>
  BY DEF CountUses
<1>3. req' = [req EXCEPT ![r] = q]
  BY <1>1 DEF CountUses
<1>4. q \in ReqType /\ q.phase = "acquired" /\ q.ids = o.ids /\ q.jobs = o.jobs
  BY <1>1 DEF ReqType
<1> DEFINE n == [i \in DOMAIN counters |-> Cardinality({k \in DOMAIN o.ids : o.ids[k] = i})]
           m == [i \in DOMAIN counters |-> Sent[r].samples * n[i]]
<1>5. counters' = [i \in DOMAIN counters |-> counters[i] + m[i]]
  BY DEF CountUses
<1>6. Sent[r].samples \in Nat
  BY SentType
<1>7. \A i \in DOMAIN counters : n[i] \in Nat
  <2> SUFFICES ASSUME NEW i \in DOMAIN counters PROVE n[i] \in Nat
    OBVIOUS
  <2>1. o.ids \in Seq(Nat)
    BY <1>1 DEF ReqType
  <2>2. DOMAIN o.ids = 1..Len(o.ids) /\ Len(o.ids) \in Nat
    BY <2>1
  <2>3. IsFiniteSet(DOMAIN o.ids)
    BY <2>2, FS_Interval
  <2>4. IsFiniteSet({k \in DOMAIN o.ids : o.ids[k] = i})
    BY <2>3, FS_Subset
  <2>5. Cardinality({k \in DOMAIN o.ids : o.ids[k] = i}) \in Nat
    BY <2>4, FS_CardinalityType
  <2> QED
    BY <2>5
<1> HIDE DEF n
<1>8. \A i \in DOMAIN counters : m[i] \in Nat
  BY <1>6, <1>7
<1> HIDE DEF m
<1>9. /\ counters' \in [DOMAIN counters -> Int]
      /\ \A i \in DOMAIN counters : counters'[i] >= counters[i]
  BY <1>1, <1>5, <1>8
<1> HIDE DEF q
<1>10. ~Single(r) /\ ~Refused(r) /\ FixedOK(r, q, refs, Range(registry))
  BY <1>1, <1>2, <1>4 DEF RequestOK, SingleOK, RefusedOK, FixedOK
<1>11. RequestOK(r, q, refs, Range(registry), DOMAIN counters)
  BY <1>4, <1>10 DEF RequestOK
<1>12. req[r].phase # "loading"
  BY <1>2
<1> HIDE DEF o
<1> QED
  BY <1>1, <1>2, <1>3, <1>9, <1>10, <1>11, <1>12, RequestStep

\* TokenizeFails: the counts stay, the request uses nothing.
LEMMA TokenizeFailsKeeps ==
  ASSUME CountedInv, NEW r \in Requests, TokenizeFails(r)
  PROVE  CountedInv'
<1>1. /\ req = [p \in Requests |-> req[p]] /\ DOMAIN req = Requests
  BY InvRequest
<1>2. /\ req[r].phase = "acquired" /\ Fail(r)
      /\ UNCHANGED <<refs, registry, counters, loaded, updates, stage>>
  BY DEF TokenizeFails
<1>3. /\ BooksOK(refs, registry, counters, Draining(stage), loaded, req)
      /\ QueueOK(updates, req) /\ registry \in Seq(DOMAIN refs)
  BY DEF CountedInv, BooksOK
<1>4. BooksOK(refs, registry, counters, Draining(stage), loaded, req')
  BY <1>2, <1>3, FailKeeps
<1>5. req' = [req EXCEPT ![r] = [req[r] EXCEPT !.phase = "failed"]]
  BY <1>1, <1>2 DEF Fail
<1>6. QueueOK(updates, req')
  BY <1>1, <1>2, <1>3, <1>5, QueueMove, QueueAbsent
<1> QED
  BY <1>2, <1>4, <1>6 DEF CountedInv

\* Dispatch: a request by name sends its one job.
LEMMA DispatchKeeps ==
  ASSUME CountedInv, NEW r \in Requests, Dispatch(r)
  PROVE  CountedInv'
<1> DEFINE o == req[r]
           j == [at |-> "waiting", due |-> 0]
           ph == IF Len(o.jobs) + 1 = NumJobs(r) THEN "sent" ELSE "acquired"
           q == [o EXCEPT !.jobs = Append(o.jobs, j), !.phase = ph]
<1>1. /\ o \in ReqType /\ RequestOK(r, o, refs, Range(registry), DOMAIN counters)
      /\ req = [p \in Requests |-> req[p]] /\ DOMAIN req = Requests
      /\ counters \in [DOMAIN counters -> Int]
      /\ \A i \in DOMAIN counters : counters[i] >= counters[i]
      /\ StageOK(stage, updates, refs, DOMAIN counters)
  BY InvRequest
<1>2. o.phase = "acquired" /\ UNCHANGED <<refs, registry, counters, loaded, updates, stage>>
  BY DEF Dispatch
<1>3. req' = [req EXCEPT ![r] = q]
  BY <1>1, <1>2 DEF Dispatch
<1>4. j \in JobType
  BY DEF JobType
<1>5. o.jobs \in Seq(JobType)
  BY <1>1 DEF ReqType
<1>6. Append(o.jobs, j) \in Seq(JobType)
  BY <1>4, <1>5
<1>7. ph \in {"acquired", "sent"}
  OBVIOUS
<1>8. Single(r) => ph = "sent" /\ o.jobs = <<>>
  <2> SUFFICES ASSUME Single(r) PROVE ph = "sent" /\ o.jobs = <<>>
    OBVIOUS
  <2>1. o.jobs = <<>>
    BY <1>1, <1>2 DEF RequestOK, SingleOK
  <2>2. Len(o.jobs) = 0 /\ NumJobs(r) = 1
    BY <2>1 DEF NumJobs, Single
  <2> QED
    BY <2>1, <2>2
<1> DEFINE js == Append(o.jobs, j)
<1>9. Single(r) => Len(js) = 1 /\ js[1].at = "waiting" /\ js[1].due = 0
  BY <1>8
<1> HIDE DEF ph, js
<1>10. q \in ReqType /\ q.phase = ph /\ q.ids = o.ids /\ q.jobs = js
  BY <1>1, <1>6, <1>7 DEF ReqType, js
<1> HIDE DEF q, o
<1>11. Single(r) => SingleOK(q) /\ \A i : Using(q, i) => Using(o, i)
  <2> SUFFICES ASSUME Single(r) PROVE SingleOK(q) /\ \A i : Using(q, i) => Using(o, i)
    OBVIOUS
  <2>1. Len(o.ids) = 1
    BY <1>1, <1>2 DEF RequestOK, SingleOK
  <2> QED
    BY <1>2, <1>8, <1>9, <1>10, <2>1 DEF SingleOK, Using
<1>12. (~Single(r) /\ ~Refused(r)) => FixedOK(r, q, refs, Range(registry))
  BY <1>1, <1>2, <1>7, <1>10 DEF RequestOK, FixedOK
<1>13. ~Refused(r)
  BY <1>1, <1>2 DEF RequestOK, RefusedOK
<1>14. RequestOK(r, q, refs, Range(registry), DOMAIN counters)
  BY <1>1, <1>10, <1>11, <1>12, <1>13 DEF RequestOK
<1>15. Draining(stage') = Draining(stage) /\ StageOK(stage', updates, refs, DOMAIN counters)
       /\ counters' = counters
  BY <1>1, <1>2
<1>16. req[r] = o
  BY DEF o
<1>17. \A i : (Single(r) /\ Using(q, i)) => Using(req[r], i)
  BY <1>11, <1>16
<1>18. req[r].phase # "loading"
  BY <1>2, <1>16
<1> QED
  BY <1>1, <1>2, <1>3, <1>14, <1>15, <1>17, <1>18, RequestStep

\* A job of r changes: a use may end with it, none starts.
JobOK(r, q) ==
  /\ q \in ReqType /\ q.phase = req[r].phase /\ q.ids = req[r].ids
  /\ RequestOK(r, q, refs, Range(registry), DOMAIN counters)
  /\ \A i : (Single(r) /\ Using(q, i)) => Using(req[r], i)

\* The job k of r, which is not over or still to be released, becomes j.
JobBecomes(r, k, j, q) ==
  /\ q = [req[r] EXCEPT !.jobs = [req[r].jobs EXCEPT ![k] = j]]
  /\ j \in JobType /\ (req[r].jobs[k].at # "over" \/ req[r].jobs[k].due > 0)
  /\ Single(r) => /\ j.due <= 1 /\ j.at # "output_status"
                  /\ j.at # "over" => j.due = 0

\* What a request is after a step of one of its jobs.
LEMMA JobKeeps ==
  ASSUME CountedInv, NEW r \in Requests, NEW k \in DOMAIN req[r].jobs, NEW j, NEW q,
         JobBecomes(r, k, j, q)
  PROVE  /\ JobOK(r, q)
         /\ Single(r) => /\ k = 1 /\ q.jobs[1] = j
                         /\ req[r].phase = "sent" /\ Using(req[r], req[r].ids[1])
<1> DEFINE o == req[r]
           js == [o.jobs EXCEPT ![k] = j]
<1>0. /\ j \in JobType
      /\ Single(r) => /\ j.due <= 1 /\ j.at # "output_status"
                      /\ j.at # "over" => j.due = 0
  BY DEF JobBecomes
<1>1. /\ o \in ReqType /\ RequestOK(r, o, refs, Range(registry), DOMAIN counters)
  BY InvRequest
<1>2. o.jobs \in Seq(JobType)
  BY <1>1 DEF ReqType
<1>3. /\ js \in Seq(JobType) /\ Len(js) = Len(o.jobs) /\ js # <<>> /\ o.jobs # <<>>
      /\ k \in 1..Len(o.jobs) /\ js[k] = j
  BY <1>0, <1>2
<1>4. q = [o EXCEPT !.jobs = js] /\ (o.jobs[k].at # "over" \/ o.jobs[k].due > 0)
  BY DEF JobBecomes
<1> HIDE DEF js
<1>5. q \in ReqType /\ q.phase = o.phase /\ q.ids = o.ids /\ q.jobs = js
  BY <1>1, <1>3, <1>4 DEF ReqType
<1>6. ASSUME Single(r)
      PROVE  /\ k = 1 /\ o.phase = "sent" /\ Using(o, o.ids[1]) /\ SingleOK(q)
             /\ js[1] = j /\ \A i : Using(q, i) => Using(o, i)
  <2>1. SingleOK(o)
    BY <1>1, <1>6 DEF RequestOK
  <2> HIDE DEF o
  <2>2. o.phase = "sent"
    BY <2>1, <1>3 DEF SingleOK
  <2>3. Len(o.jobs) = 1 /\ Len(o.ids) = 1
    BY <2>1, <2>2 DEF SingleOK
  <2>4. k = 1
    BY <1>3, <2>3
  <2>5. \A i : o.ids[1] = i => Using(o, i)
    BY <1>4, <2>2, <2>4 DEF Using
  <2>6. SingleOK(q)
    BY <1>0, <1>3, <1>5, <1>6, <2>2, <2>3, <2>4 DEF SingleOK
  <2>7. \A i : Using(q, i) => o.ids[1] = i
    BY <1>5 DEF Using
  <2> QED
    BY <1>3, <2>2, <2>4, <2>5, <2>6, <2>7
<1>7. ~Refused(r)
  BY <1>1, <1>3 DEF RequestOK, RefusedOK
<1>8. (~Single(r)) => FixedOK(r, q, refs, Range(registry))
  <2> SUFFICES ASSUME ~Single(r) PROVE FixedOK(r, q, refs, Range(registry))
    OBVIOUS
  <2>1. FixedOK(r, o, refs, Range(registry))
    BY <1>1, <1>7 DEF RequestOK
  <2> HIDE DEF o
  <2> QED
    BY <1>3, <1>5, <2>1 DEF FixedOK
<1>9. RequestOK(r, q, refs, Range(registry), DOMAIN counters)
  BY <1>1, <1>5, <1>6, <1>7, <1>8 DEF RequestOK
<1> QED
  BY <1>5, <1>6, <1>9 DEF JobOK

\* A step that changes one job and nothing else.
LEMMA JobStep ==
  ASSUME CountedInv, NEW r \in Requests, NEW q, JobOK(r, q), req' = [req EXCEPT ![r] = q],
         UNCHANGED <<refs, registry, counters, loaded, updates, stage>>
  PROVE  CountedInv'
<1>1. /\ counters \in [DOMAIN counters -> Int]
      /\ \A i \in DOMAIN counters : counters[i] >= counters[i]
      /\ StageOK(stage, updates, refs, DOMAIN counters)
  BY InvRequest
<1>2. /\ counters' \in [DOMAIN counters -> Int]
      /\ \A i \in DOMAIN counters : ~Lasting(refs, i) => counters'[i] >= counters[i]
      /\ Draining(stage') = Draining(stage) /\ StageOK(stage', updates, refs, DOMAIN counters)
      /\ UNCHANGED <<refs, registry, loaded, updates>>
  BY <1>1
<1>3. /\ RequestOK(r, q, refs, Range(registry), DOMAIN counters)
      /\ \A i : (Single(r) /\ Using(q, i)) => Using(req[r], i)
      /\ req[r].phase = "loading" => q.phase = "loading"
  BY DEF JobOK
<1> QED
  BY <1>2, <1>3, RequestStep

\* A job of a request.
LEMMA JobFacts ==
  ASSUME CountedInv, NEW r \in Requests, NEW k \in DOMAIN req[r].jobs
  PROVE  /\ req[r].jobs[k] \in JobType /\ req[r] \in ReqType
         /\ req = [p \in Requests |-> req[p]] /\ DOMAIN req = Requests
         /\ ~Refused(r)
         /\ Single(r) => /\ k = 1 /\ req[r].jobs[k].due <= 1 /\ req[r].jobs[k].at # "output_status"
                         /\ req[r].jobs[k].at # "over" => req[r].jobs[k].due = 0
<1> DEFINE o == req[r]
<1>1. /\ o \in ReqType /\ RequestOK(r, o, refs, Range(registry), DOMAIN counters)
      /\ req = [p \in Requests |-> req[p]] /\ DOMAIN req = Requests
  BY InvRequest
<1>2. o.jobs \in Seq(JobType) /\ k \in DOMAIN o.jobs
  BY <1>1 DEF ReqType
<1> HIDE DEF o
<1>3. o.jobs[k] \in JobType /\ o.jobs # <<>> /\ k \in 1..Len(o.jobs)
  BY <1>2
<1>4. ~Refused(r)
  BY <1>1, <1>3 DEF RequestOK, RefusedOK
<1>5. Single(r) => /\ k = 1 /\ o.jobs[k].due <= 1 /\ o.jobs[k].at # "output_status"
                   /\ o.jobs[k].at # "over" => o.jobs[k].due = 0
  <2> SUFFICES ASSUME Single(r)
               PROVE  /\ k = 1 /\ o.jobs[k].due <= 1 /\ o.jobs[k].at # "output_status"
                      /\ o.jobs[k].at # "over" => o.jobs[k].due = 0
    OBVIOUS
  <2>1. SingleOK(o)
    BY <1>1 DEF RequestOK
  <2>2. o.phase = "sent" /\ Len(o.jobs) = 1
    BY <2>1, <1>3 DEF SingleOK
  <2>3. k = 1
    BY <1>3, <2>2
  <2> QED
    BY <2>1, <2>2, <2>3 DEF SingleOK
<1> QED
  BY <1>1, <1>3, <1>4, <1>5 DEF o

\* Admit: the job is still in use.
LEMMA AdmitKeeps ==
  ASSUME CountedInv, NEW r \in Requests, NEW k \in DOMAIN req[r].jobs, Admit(r, k)
  PROVE  CountedInv'
<1> DEFINE j == [req[r].jobs[k] EXCEPT !.at = "running"]
           q == [req[r] EXCEPT !.jobs = [req[r].jobs EXCEPT ![k] = j]]
<1>1. /\ req[r].jobs[k] \in JobType /\ req[r] \in ReqType
      /\ req = [p \in Requests |-> req[p]] /\ DOMAIN req = Requests
      /\ (Single(r) /\ req[r].jobs[k].at # "over") => req[r].jobs[k].due = 0
  BY JobFacts
<1>2. /\ req[r].jobs[k].at = "waiting"
      /\ UNCHANGED <<refs, registry, counters, loaded, updates, stage>>
  BY DEF Admit
<1>3. req' = [req EXCEPT ![r] = q]
  BY <1>1 DEF Admit, ReqType, JobType
<1>4. j \in JobType /\ j.at = "running" /\ j.due = req[r].jobs[k].due
  BY <1>1 DEF JobType
<1>5. Single(r) => j.due = 0
  BY <1>1, <1>2, <1>4
<1>6. q = [req[r] EXCEPT !.jobs = [req[r].jobs EXCEPT ![k] = j]]
  OBVIOUS
<1>7. req[r].jobs[k].at # "over"
  BY <1>2
<1>8. Single(r) => /\ j.due <= 1 /\ j.at # "output_status"
                   /\ j.at # "over" => j.due = 0
  BY <1>4, <1>5
<1> HIDE DEF j, q
<1>9. JobBecomes(r, k, j, q)
  BY <1>4, <1>6, <1>7, <1>8 DEF JobBecomes
<1>10. JobOK(r, q)
  BY <1>9, JobKeeps
<1> QED
  BY <1>2, <1>3, <1>10, JobStep

\* Answer: the job is in use until the answer is handled.
LEMMA AnswerKeeps ==
  ASSUME Counted, CountedInv, NEW r \in Requests, NEW k \in DOMAIN req[r].jobs,
         NEW answer \in Answers, Answer(r, k, answer)
  PROVE  CountedInv'
<1> DEFINE j == [req[r].jobs[k] EXCEPT !.at = answer]
           q == [req[r] EXCEPT !.jobs = [req[r].jobs EXCEPT ![k] = j]]
<1>1. /\ req[r].jobs[k] \in JobType /\ req[r] \in ReqType
      /\ req = [p \in Requests |-> req[p]] /\ DOMAIN req = Requests
      /\ (Single(r) /\ req[r].jobs[k].at # "over") => req[r].jobs[k].due = 0
  BY JobFacts
<1>2. /\ req[r].jobs[k].at \in {"running", "waiting"}
      /\ UNCHANGED <<refs, registry, counters, loaded, updates, stage>>
  BY DEF Answer
<1>3. req' = [req EXCEPT ![r] = q]
  BY <1>1 DEF Answer, ReqType, JobType
<1>4. answer \in AllAnswers /\ answer # "output_status" /\ answer # "over"
  BY LoRAAssumption DEF Counted, AllAnswers
<1>5. j \in JobType /\ j.at = answer /\ j.due = req[r].jobs[k].due
  BY <1>1, <1>4 DEF JobType
<1>6. q = [req[r] EXCEPT !.jobs = [req[r].jobs EXCEPT ![k] = j]]
  OBVIOUS
<1>7. req[r].jobs[k].at # "over"
  BY <1>2
<1>8. Single(r) => /\ j.due <= 1 /\ j.at # "output_status"
                   /\ j.at # "over" => j.due = 0
  BY <1>1, <1>4, <1>5, <1>7
<1> HIDE DEF j, q
<1>9. JobBecomes(r, k, j, q)
  BY <1>5, <1>6, <1>7, <1>8 DEF JobBecomes
<1>10. JobOK(r, q)
  BY <1>9, JobKeeps
<1> QED
  BY <1>2, <1>3, <1>10, JobStep

\* Handle: an answer of a job by name is due at most one release.
LEMMA HandleKeeps ==
  ASSUME CountedInv, NEW r \in Requests, NEW k \in DOMAIN req[r].jobs, Handle(r, k)
  PROVE  CountedInv'
<1> DEFINE d == Releases(req[r].jobs[k].at)
           j == [at |-> "over", due |-> d]
           q == [req[r] EXCEPT !.jobs = [req[r].jobs EXCEPT ![k] = j]]
<1>1. /\ req[r].jobs[k] \in JobType /\ req[r] \in ReqType
      /\ req = [p \in Requests |-> req[p]] /\ DOMAIN req = Requests
      /\ Single(r) => req[r].jobs[k].at # "output_status"
  BY JobFacts
<1>2. /\ req[r].jobs[k].at \in AllAnswers
      /\ UNCHANGED <<refs, registry, counters, loaded, updates, stage>>
  BY DEF Handle
<1>3. req' = [req EXCEPT ![r] = q]
  BY <1>1 DEF Handle, ReqType
<1>4. d \in Nat /\ (req[r].jobs[k].at # "output_status" => d <= 1)
  BY DEF Releases
<1> HIDE DEF d
<1>5. j \in JobType /\ j.at = "over" /\ j.due = d
  BY <1>4 DEF JobType
<1>6. q = [req[r] EXCEPT !.jobs = [req[r].jobs EXCEPT ![k] = j]]
  OBVIOUS
<1>7. req[r].jobs[k].at # "over"
  BY <1>2 DEF AllAnswers
<1>8. Single(r) => /\ j.due <= 1 /\ j.at # "output_status"
                   /\ j.at # "over" => j.due = 0
  BY <1>1, <1>4, <1>5
<1> HIDE DEF j, q
<1>9. JobBecomes(r, k, j, q)
  BY <1>5, <1>6, <1>7, <1>8 DEF JobBecomes
<1>10. JobOK(r, q)
  BY <1>9, JobKeeps
<1> QED
  BY <1>2, <1>3, <1>10, JobStep

\* The notify leaves what the holder waits for.
LEMMA WakeUpFacts ==
  ASSUME NEW i, StageOK(stage, updates, refs, DOMAIN counters)
  PROVE  /\ Draining(WakeUp(i)) = Draining(stage)
         /\ StageOK(WakeUp(i), updates, refs, DOMAIN counters)
<1>1. stage \in StageType
  BY DEF StageOK
<1>2. WakeUp(i) \in StageType /\ WakeUp(i).at = stage.at /\ WakeUp(i).id = stage.id
  BY <1>1 DEF WakeUp, StageType
<1> QED
  BY <1>2 DEF Draining, StageOK

\* Release: a count goes with the use it was for.
LEMMA ReleaseKeeps ==
  ASSUME CountedInv, NEW r \in Requests, NEW k \in DOMAIN req[r].jobs, Release(r, k)
  PROVE  CountedInv'
<1> DEFINE o == req[r]
           d == req[r].jobs[k].due - 1
           j == [req[r].jobs[k] EXCEPT !.due = d]
           q == [req[r] EXCEPT !.jobs = [req[r].jobs EXCEPT ![k] = j]]
           i == req[r].ids[PathOf(r, k)]
<1>1. /\ req[r].jobs[k] \in JobType /\ req[r] \in ReqType
      /\ req = [p \in Requests |-> req[p]] /\ DOMAIN req = Requests /\ ~Refused(r)
      /\ Single(r) => /\ k = 1 /\ req[r].jobs[k].due <= 1 /\ req[r].jobs[k].at # "output_status"
                      /\ req[r].jobs[k].at # "over" => req[r].jobs[k].due = 0
  BY JobFacts
<1>2. /\ req[r].jobs[k].due > 0
      /\ counters' = Increment(counters, i, -1) /\ stage' = WakeUp(i)
      /\ UNCHANGED <<refs, registry, loaded, updates>>
  BY DEF Release
<1>3. req' = [req EXCEPT ![r] = q]
  BY <1>1 DEF Release, ReqType, JobType
<1>4. req[r].jobs[k].due \in Nat /\ d \in Nat /\ (Single(r) => d = 0 /\ req[r].jobs[k].at = "over")
  BY <1>1, <1>2 DEF JobType
<1> HIDE DEF d
<1>5. j \in JobType /\ j.at = req[r].jobs[k].at /\ j.due = d
  BY <1>1, <1>4 DEF JobType
<1>6. q = [req[r] EXCEPT !.jobs = [req[r].jobs EXCEPT ![k] = j]]
  OBVIOUS
<1>7. Single(r) => /\ j.due <= 1 /\ j.at # "output_status"
                   /\ j.at # "over" => j.due = 0
  BY <1>4, <1>5
<1>8. req[r].jobs[k].at # "over" \/ req[r].jobs[k].due > 0
  BY <1>2
<1> HIDE DEF j, q, i
<1>9. /\ JobOK(r, q)
      /\ Single(r) => /\ k = 1 /\ q.jobs[1] = j
                      /\ req[r].phase = "sent" /\ Using(req[r], req[r].ids[1])
  <2>1. JobBecomes(r, k, j, q)
    BY <1>5, <1>6, <1>7, <1>8 DEF JobBecomes
  <2> QED
    BY <2>1, JobKeeps
<1>10. /\ counters \in [DOMAIN counters -> Int]
       /\ StageOK(stage, updates, refs, DOMAIN counters)
       /\ RequestOK(r, o, refs, Range(registry), DOMAIN counters)
  BY InvRequest
<1>11. /\ counters' \in [DOMAIN counters -> Int]
       /\ \A x \in DOMAIN counters : counters'[x] = IF x = i THEN counters[x] + (-1) ELSE counters[x]
  BY <1>2, <1>10, IncrementFacts
<1>12. /\ Draining(stage') = Draining(stage)
       /\ StageOK(stage', updates, refs, DOMAIN counters)
  BY <1>2, <1>10, WakeUpFacts
<1>13. CASE Single(r)
  <2>1. PathOf(r, k) = 1
    <3>1. (1 - 1) % 1 = 0
      OBVIOUS
    <3>2. Len(Sent[r].paths) = 1 /\ k = 1
      BY <1>9, <1>13 DEF Single
    <3> QED
      BY <3>1, <3>2 DEF PathOf
  <2>2. i = req[r].ids[1]
    BY <2>1 DEF i
  <2>3. Using(req[r], i)
    BY <1>9, <1>13, <2>2
  <2>4. \A x : ~Using(q, x)
    <3>1. q.phase = "sent" /\ q.jobs[1].at = "over" /\ q.jobs[1].due = 0
      BY <1>4, <1>5, <1>9, <1>13 DEF JobOK
    <3> QED
      BY <3>1 DEF Using
  <2>5. /\ BooksOK(refs, registry, counters, Draining(stage), loaded, req)
        /\ QueueOK(updates, req)
    BY DEF CountedInv
  <2>6. ASSUME NEW x \in DOMAIN counters, ~Lasting(refs, x)
        PROVE  counters'[x] >= Cardinality(Users([req EXCEPT ![r] = q], x))
    <3> DEFINE a == Cardinality(Users(req, x))
               b == Cardinality(Users([req EXCEPT ![r] = q], x))
    <3>1. a \in Nat /\ b \in Nat
      BY UsersFinite
    <3>2. counters[x] >= a
      BY <2>5, <2>6 DEF BooksOK
    <3>3. x = i => b = a - 1
      BY <1>1, <1>13, <2>3, <2>4, UsersMinus
    <3>4. b <= a
      BY <1>1, <2>4, UsersKept
    <3>5. counters[x] \in Int
      BY <1>10
    <3> HIDE DEF a, b
    <3>6. counters'[x] >= b
      BY <1>11, <3>1, <3>2, <3>3, <3>4, <3>5
    <3> QED
      BY <3>6 DEF b
  <2>7. registry \in Seq(DOMAIN refs) /\ RequestOK(r, q, refs, Range(registry), DOMAIN counters)
    BY <1>9, <2>5 DEF BooksOK, JobOK
  <2>8. BooksOK(refs, registry, counters', Draining(stage), loaded, req')
    BY <1>3, <1>11, <2>5, <2>6, <2>7, BooksMove
  <2>9. Absent(updates, r)
    BY <1>9, <1>13, <2>5, QueueAbsent
  <2>10. QueueOK(updates, req')
    BY <1>1, <1>3, <2>5, <2>9, QueueMove
  <2>11. DOMAIN counters' = DOMAIN counters
    BY <1>11
  <2> QED
    BY <1>2, <1>12, <2>8, <2>10, <2>11 DEF CountedInv
<1>14. CASE ~Single(r)
  <2>1. FixedOK(r, o, refs, Range(registry))
    BY <1>1, <1>10, <1>14 DEF RequestOK
  <2>2. o.jobs \in Seq(JobType) /\ o.ids \in Seq(Nat) /\ k \in DOMAIN o.jobs
    BY <1>1 DEF ReqType
  <2>3. Len(Sent[r].paths) \in Nat \ {0}
    BY SentType
  <2>4. o.jobs # <<>> /\ k \in Nat \ {0}
    BY <2>2
  <2>5. /\ Len(o.ids) = Len(Sent[r].paths)
        /\ \A x \in DOMAIN o.ids : Lasting(refs, o.ids[x])
    BY <2>1, <2>4 DEF FixedOK
  <2>6. PathOf(r, k) \in 1..Len(Sent[r].paths)
    BY <2>4, PathOfRange
  <2>7. PathOf(r, k) \in DOMAIN o.ids
    BY <2>2, <2>5, <2>6
  <2>8. Lasting(refs, i)
    BY <2>5, <2>7 DEF i
  <2>9. \A x \in DOMAIN counters : ~Lasting(refs, x) => counters'[x] >= counters[x]
    BY <1>10, <1>11, <2>8
  <2>10. /\ RequestOK(r, q, refs, Range(registry), DOMAIN counters)
         /\ \A x : (Single(r) /\ Using(q, x)) => Using(req[r], x)
         /\ req[r].phase = "loading" => q.phase = "loading"
    BY <1>9 DEF JobOK
  <2> QED
    BY <1>2, <1>3, <1>11, <1>12, <2>9, <2>10, RequestStep
<1> QED
  BY <1>13, <1>14

\* Init: the adapters of --lora-paths are loaded and unused.
LEMMA InitCounted ==
  ASSUME Init PROVE CountedInv
<1>1. Startup \in Seq(Names)
  BY LoRAAssumption
<1> DEFINE D == DOMAIN Startup
<1>2. D = 1..Len(Startup) /\ Len(Startup) \in Nat
  BY <1>1
<1>3. registry = [i \in D |-> i]
  BY DEF Init
<1>4. registry \in Seq(D) /\ Range(registry) = D
  <2>1. registry \in [1..Len(Startup) -> D]
    BY <1>2, <1>3
  <2>2. registry \in Seq(D)
    BY <1>2, <2>1
  <2> QED
    BY <1>3, <2>2 DEF Range
<1>5. Draining(stage) = {} /\ StageOK(stage, updates, refs, DOMAIN counters)
  BY IdleStage DEF Init
<1>6. QueueOK(updates, req)
  <2>1. updates = <<>> /\ <<>> \in Seq(UpdateType) /\ DOMAIN <<>> = {}
    BY DEF Init
  <2> QED
    BY <2>1 DEF QueueOK
<1> DEFINE q == [phase |-> "new", todo |-> <<>>, ids |-> <<>>, jobs |-> <<>>]
<1>7. req = [r \in Requests |-> q]
  BY DEF Init
<1>8. q \in ReqType /\ q.phase = "new" /\ q.jobs = <<>>
  BY DEF ReqType
<1> HIDE DEF q
<1>9. \A i : ~Using(q, i)
  BY <1>8 DEF Using
<1>10. \A r : RequestOK(r, q, refs, Range(registry), DOMAIN counters)
  BY <1>8, <1>9 DEF RequestOK, RefusedOK, SingleOK, FixedOK
<1>11. \A i : Users(req, i) = {}
  BY <1>7, <1>9 DEF Users
<1>12. counters = [i \in D |-> 0] /\ loaded = [k \in Ranks |-> D] /\ refs = Startup
  BY DEF Init
<1> HIDE DEF D
<1>13. BooksOK(refs, registry, counters, {}, loaded, req)
  <2>1. DOMAIN counters = D /\ counters \in [D -> Int] /\ \A i \in D : counters[i] = 0
    BY <1>12
  <2>2. \A i \in D, k \in Ranks : i \in loaded[k]
    BY <1>12
  <2>3. DOMAIN refs = D /\ refs \in Seq(Names)
    BY <1>1, <1>12 DEF D
  <2>4. \A i \in D : counters[i] >= Cardinality(Users(req, i))
    BY <1>11, <2>1, FS_EmptySet
  <2>5. \A r \in Requests : RequestOK(r, req[r], refs, Range(registry), DOMAIN counters)
    BY <1>7, <1>10
  <2>6. req = [r \in Requests |-> req[r]]
    BY <1>7
  <2> QED
    BY <1>4, <2>1, <2>2, <2>3, <2>4, <2>5, <2>6 DEF BooksOK
<1> QED
  BY <1>5, <1>6, <1>13 DEF CountedInv

\* Every step of the specification keeps the invariant.
LEMMA NextCounted ==
  ASSUME Counted, CountedInv, [Next]_vars
  PROVE  CountedInv'
<1>1. ASSUME NEW r \in Requests, NEW k \in DOMAIN req[r].jobs,
             \/ Admit(r, k) \/ Handle(r, k) \/ Release(r, k)
             \/ \E answer \in Answers : Answer(r, k, answer)
      PROVE  CountedInv'
  BY <1>1, AdmitKeeps, HandleKeeps, ReleaseKeeps, AnswerKeeps
<1>2. ASSUME NEW r \in Requests, CountUses(r) \/ TokenizeFails(r) \/ Dispatch(r)
      PROVE  CountedInv'
  BY <1>2, CountUsesKeeps, TokenizeFailsKeeps, DispatchKeeps
<1>3. CASE Progress
  BY <1>1, <1>2, <1>3, StartKeeps, LoadReplyKeeps, WakeKeeps, UnloadReplyKeeps DEF Progress
<1>4. CASE \E op \in {"load", "unload"}, name \in Updatable : Ask(op, name)
  BY <1>4, AskKeeps
<1>5. CASE \E r \in Requests : Resolve(r)
  BY <1>5, ResolveKeeps
<1>6. CASE UNCHANGED vars
  BY <1>6 DEF vars, CountedInv
<1> QED
  BY <1>3, <1>4, <1>5, <1>6 DEF Next

\* A request in use has ids with a counter, which every rank has loaded.
LEMMA CountedImplies ==
  ASSUME Counted, CountedInv
  PROVE  InUseIsLoaded
<1>1. BooksOK(refs, registry, counters, Draining(stage), loaded, req)
  BY DEF CountedInv
<1>2. \A i \in DOMAIN counters, k \in Ranks : i \in loaded[k]
  BY <1>1 DEF BooksOK
<1>3. SUFFICES ASSUME NEW r \in Requests, NEW i \in InUse(r)
               PROVE  i \in DOMAIN counters
  BY <1>2 DEF InUseIsLoaded
<1> DEFINE o == req[r]
<1>4. /\ o \in ReqType /\ RequestOK(r, o, refs, Range(registry), DOMAIN counters)
      /\ Range(registry) \subseteq DOMAIN counters
  BY <1>1, BooksRequest
<1>5. o.ids \in Seq(Nat) /\ o.jobs \in Seq(JobType)
  BY <1>4 DEF ReqType
<1>6. DOMAIN o.ids = 1..Len(o.ids) /\ Len(o.ids) \in Nat /\ DOMAIN o.jobs = 1..Len(o.jobs)
  BY <1>5
<1>7. /\ o.phase \in {"counting", "acquired", "sent"}
      /\ \/ o.phase \in {"counting", "acquired"} /\ i \in Range(o.ids)
         \/ /\ o.phase = "sent"
            /\ \E k \in DOMAIN o.jobs :
                 o.jobs[k].at \in {"waiting", "running"} /\ i = o.ids[PathOf(r, k)]
  BY DEF InUse
<1>8. Len(Sent[r].paths) \in Nat \ {0}
  BY SentType
<1> HIDE DEF o
<1>9. \A k \in DOMAIN o.jobs : PathOf(r, k) \in 1..Len(Sent[r].paths)
  <2>1. DOMAIN o.jobs \subseteq Nat \ {0}
    BY <1>5
  <2> QED
    BY <2>1, PathOfRange
<1>10. ~Refused(r)
  BY <1>4, <1>7 DEF RequestOK, RefusedOK
<1>11. CASE Single(r)
  <2>1. SingleOK(o) /\ \A x : Using(o, x) => x \in DOMAIN counters
    BY <1>4, <1>11 DEF RequestOK
  <2>2. Len(Sent[r].paths) = 1
    BY <1>11 DEF Single
  <2>3. CASE o.phase \in {"counting", "acquired"} /\ i \in Range(o.ids)
    <3>1. o.phase = "acquired" /\ Len(o.ids) = 1
      BY <2>1, <2>3 DEF SingleOK
    <3>2. i = o.ids[1]
      BY <1>6, <2>3, <3>1 DEF Range
    <3>3. Using(o, i)
      BY <3>1, <3>2 DEF Using
    <3> QED
      BY <2>1, <3>3
  <2>4. CASE /\ o.phase = "sent"
             /\ \E k \in DOMAIN o.jobs :
                  o.jobs[k].at \in {"waiting", "running"} /\ i = o.ids[PathOf(r, k)]
    <3>1. PICK k \in DOMAIN o.jobs :
                  o.jobs[k].at \in {"waiting", "running"} /\ i = o.ids[PathOf(r, k)]
      BY <2>4
    <3>2. k = 1
      <4>1. Len(o.jobs) = 1
        BY <2>1, <2>4 DEF SingleOK
      <4> QED
        BY <1>6, <4>1
    <3>3. PathOf(r, k) = 1
      BY <1>9, <2>2
    <3>4. Using(o, i)
      BY <2>4, <3>1, <3>2, <3>3 DEF Using
    <3> QED
      BY <2>1, <3>4
  <2> QED
    BY <1>7, <2>3, <2>4
<1>12. CASE ~Single(r)
  <2>1. /\ Len(o.ids) = Len(Sent[r].paths)
        /\ \A x \in DOMAIN o.ids : o.ids[x] \in Range(registry)
    BY <1>4, <1>7, <1>10, <1>12 DEF RequestOK, FixedOK
  <2>2. \E x \in DOMAIN o.ids : i = o.ids[x]
    BY <1>6, <1>7, <1>9, <2>1 DEF Range
  <2> QED
    BY <1>4, <2>1, <2>2
<1> QED
  BY <1>11, <1>12

\* With requests and answers as in Counted, a counter covers the users of its adapter, and
\* what has a counter is loaded on every rank (acquire, release, wait_for_unload and
\* _unload_lora_adapter_locked taken together).
LEMMA CountedAlways == ASSUME Counted PROVE Spec => []CountedInv
<1>1. Init => CountedInv
  BY InitCounted
<1>2. CountedInv /\ [Next]_vars => CountedInv'
  BY NextCounted
<1> QED
  BY <1>1, <1>2, PTL DEF Spec

\* Every rank has the adapter of every request that is at work or on its way, however
\* many requests, adapters, ranks and updates there are, when requests are by name with
\* one sample or for adapters that are neither evicted nor unloaded, and no job ends with
\* an output that carries a status (two releases): the drain of
\* _unload_lora_adapter_locked waits for everybody.
THEOREM UsedAdapterStaysLoaded == ASSUME Counted PROVE Spec => []InUseIsLoaded
<1>1. CountedInv => InUseIsLoaded
  BY CountedImplies
<1> QED
  BY <1>1, CountedAlways, PTL

---------------------------------------------------------------------------
(* What is offered, for any requests and answers.  Nothing here counts     *)
(* uses, so that Counted is not needed.                                    *)

\* An id has a counter as long as it is registered or drained; every rank has what has
\* a counter, and no two such ids have one name.
OffersOK(rf, reg, cnt, drain, ld) ==
  /\ rf \in Seq(Range(rf)) /\ reg \in Seq(DOMAIN rf)
  /\ drain \subseteq DOMAIN rf /\ drain \cap Range(reg) = {}
  /\ DOMAIN cnt = Range(reg) \cup drain
  /\ \A i \in DOMAIN cnt, k \in Ranks : i \in ld[k]
  /\ \A i, j \in DOMAIN cnt : rf[i] = rf[j] => i = j

\* An adapter that is being loaded or unloaded has no counter.
HolderOK(st, rf, D) ==
  /\ st \in StageType
  /\ st.at \in {"loading", "unloading"} => st.id \in DOMAIN rf \ D

\* The inductive invariant.
OfferInv ==
  /\ OffersOK(refs, registry, counters, Draining(stage), loaded)
  /\ HolderOK(stage, refs, DOMAIN counters)

\* The invariant after a step that leaves the refs and makes ld of loaded.
OffersRestored(ld) ==
  /\ OffersOK(refs, registry', counters', Draining(stage'), ld)
  /\ HolderOK(stage', refs, DOMAIN counters')

\* The order of the registry and the counts do not matter.
LEMMA OffersStay ==
  ASSUME NEW rf, NEW reg, NEW cnt, NEW drain, NEW ld, OffersOK(rf, reg, cnt, drain, ld),
         NEW reg2 \in Seq(DOMAIN rf), Range(reg2) = Range(reg),
         NEW cnt2, DOMAIN cnt2 = DOMAIN cnt
  PROVE  OffersOK(rf, reg2, cnt2, drain, ld)
  BY DEF OffersOK

\* Counting keeps the ids that have a counter.
LEMMA IncrementDomain ==
  ASSUME NEW cnt, NEW i, NEW d
  PROVE  DOMAIN Increment(cnt, i, d) = DOMAIN cnt
  BY DEF Increment

\* acquire reorders the registry and counts.
LEMMA AcquireOffers ==
  ASSUME NEW reg, NEW cnt, NEW drain, NEW ld, OffersOK(refs, reg, cnt, drain, ld),
         NEW r \in Requests, Acquire(r, reg, cnt)
  PROVE  OffersOK(refs, registry', counters', drain, ld) /\ DOMAIN counters' = DOMAIN cnt
<1> DEFINE p == Sent[r].paths
           missing == {k \in DOMAIN p : ~IsRegistered(reg, p[k])}
<1>1. p \in Seq(Names) /\ Len(p) \in Nat \ {0} /\ DOMAIN p = 1..Len(p)
  BY SentType
<1>2. reg \in Seq(DOMAIN refs)
  BY DEF OffersOK
<1>3. DOMAIN counters' = DOMAIN cnt
  BY IncrementDomain DEF Acquire, Fail
<1>4. \/ missing # {} /\ registry' = TouchAll(reg, SubSeq(p, 1, Min(missing) - 1))
      \/ registry' = TouchAll(reg, p)
  BY DEF Acquire
<1>5. PICK s \in Seq(Names) : registry' = TouchAll(reg, s)
  <2>1. CASE missing # {} /\ registry' = TouchAll(reg, SubSeq(p, 1, Min(missing) - 1))
    <3>1. missing \subseteq Nat /\ missing # {}
      BY <1>1, <2>1
    <3>2. Min(missing) \in missing
      <4>1. \E x \in missing : \A y \in missing : x =< y
        BY <3>1, LeastNatural
      <4> QED
        BY <4>1 DEF Min
    <3>3. Min(missing) \in 1..Len(p)
      BY <1>1, <3>2
    <3> HIDE DEF missing, p
    <3>4. SubSeq(p, 1, Min(missing) - 1) \in Seq(Names)
      BY <1>1, <3>3
    <3> QED
      BY <2>1, <3>4
  <2> QED
    BY <1>1, <1>4, <2>1
<1>6. registry' \in Seq(DOMAIN refs) /\ Range(registry') = Range(reg)
  BY <1>2, <1>5, TouchAllFacts
<1> QED
  BY <1>3, <1>6, OffersStay

\* ... and so does the loop of _resolve_lora_path.
LEMMA ResolvingOffers ==
  ASSUME NEW reg, NEW cnt, NEW drain, NEW ld, OffersOK(refs, reg, cnt, drain, ld),
         NEW r \in Requests, NEW todo, NEW queue, Resolving(r, todo, queue, reg, cnt)
  PROVE  OffersOK(refs, registry', counters', drain, ld) /\ DOMAIN counters' = DOMAIN cnt
<1>1. CASE Acquire(r, reg, cnt)
  BY <1>1, AcquireOffers
<1>2. CASE registry' = reg /\ counters' = cnt
  BY <1>2
<1> QED
  BY <1>1, <1>2 DEF Resolving

\* A holder that has nothing.
LEMMA IdleHolder ==
  ASSUME NEW rf, NEW D
  PROVE  HolderOK(Idle, rf, D) /\ Draining(Idle) = {}
  BY DEF HolderOK, StageType, Idle, Draining

\* The lock is given back.
LEMMA FinishOffers ==
  ASSUME NEW reg, NEW cnt, NEW ld, OffersOK(refs, reg, cnt, {}, ld),
         NEW result, Finish(result, reg, cnt)
  PROVE  OffersRestored(ld)
<1>1. stage' = Idle
  BY DEF Finish
<1>2. OffersOK(refs, registry', counters', {}, ld)
  <2>1. CASE registry' = reg /\ counters' = cnt
    BY <2>1
  <2>2. ASSUME NEW by \in Requests, NEW todo, NEW queue, Resolving(by, todo, queue, reg, cnt)
        PROVE  OffersOK(refs, registry', counters', {}, ld)
    BY <2>2, ResolvingOffers
  <2> QED
    BY <2>1, <2>2 DEF Finish
<1> QED
  BY <1>1, <1>2, IdleHolder DEF OffersRestored

\* An id that goes from the registry to the drain keeps its counter.
LEMMA OffersUnregister ==
  ASSUME NEW reg, NEW cnt, NEW ld, OffersOK(refs, reg, cnt, {}, ld), NEW i \in Range(reg)
  PROVE  OffersOK(refs, Unregister(reg, i), cnt, {i}, ld) /\ i \in Nat
<1> DEFINE u == Unregister(reg, i)
<1>1. /\ refs \in Seq(Range(refs)) /\ reg \in Seq(DOMAIN refs)
      /\ DOMAIN cnt = Range(reg) \cup {}
  BY DEF OffersOK
<1>2. u \in Seq(DOMAIN refs) /\ Range(u) = Range(reg) \ {i}
  BY <1>1, UnregisterFacts
<1>3. i \in DOMAIN refs
  BY <1>1 DEF Range
<1>4. i \in Nat
  BY <1>1, <1>3
<1> HIDE DEF u
<1>5. {i} \subseteq DOMAIN refs /\ {i} \cap Range(u) = {} /\ DOMAIN cnt = Range(u) \cup {i}
  BY <1>1, <1>2, <1>3
<1>6. OffersOK(refs, u, cnt, {i}, ld)
  BY <1>2, <1>5 DEF OffersOK
<1> QED
  BY <1>4, <1>6 DEF u

\* The counter of the drained id goes.
LEMMA OffersDrained ==
  ASSUME NEW reg, NEW cnt, NEW ld, NEW i, OffersOK(refs, reg, cnt, {i}, ld)
  PROVE  /\ OffersOK(refs, reg, Without(cnt, i), {}, ld)
         /\ i \in DOMAIN refs \ DOMAIN Without(cnt, i)
<1> DEFINE w == Without(cnt, i)
<1>1. DOMAIN cnt = Range(reg) \cup {i} /\ i \notin Range(reg) /\ i \in DOMAIN refs
  BY DEF OffersOK
<1>2. DOMAIN w = DOMAIN cnt \ {i}
  BY DEF Without
<1> HIDE DEF w
<1>3. DOMAIN w = Range(reg) \cup {} /\ DOMAIN w \subseteq DOMAIN cnt
  BY <1>1, <1>2
<1>4. OffersOK(refs, reg, w, {}, ld)
  BY <1>3 DEF OffersOK
<1> QED
  BY <1>1, <1>2, <1>4 DEF w

\* _unload_lora_adapter_locked starts.
LEMMA StartUnloadOffers ==
  ASSUME NEW reg, NEW cnt, NEW ld, OffersOK(refs, reg, cnt, {}, ld),
         NEW i \in Range(reg), StartUnload(i, reg, cnt)
  PROVE  OffersRestored(ld)
<1>1. OffersOK(refs, registry', cnt, {i}, ld) /\ i \in Nat
  BY OffersUnregister DEF StartUnload
<1>2. CASE counters' = Without(cnt, i) /\ stage' = [at |-> "unloading", id |-> i, woken |-> FALSE]
  <2>1. OffersOK(refs, registry', counters', {}, ld) /\ i \in DOMAIN refs \ DOMAIN counters'
    BY <1>1, <1>2, OffersDrained
  <2>2. Draining(stage') = {} /\ HolderOK(stage', refs, DOMAIN counters')
    BY <1>1, <1>2, <2>1 DEF Draining, HolderOK, StageType
  <2> QED
    BY <2>1, <2>2 DEF OffersRestored
<1>3. CASE counters' = cnt /\ stage' = [at |-> "draining", id |-> i, woken |-> FALSE]
  <2>1. Draining(stage') = {i} /\ HolderOK(stage', refs, DOMAIN counters')
    BY <1>1, <1>3 DEF Draining, HolderOK, StageType
  <2> QED
    BY <1>1, <1>3, <2>1 DEF OffersRestored
<1> QED
  BY <1>2, <1>3 DEF StartUnload

\* The eviction loop.
LEMMA EvictOffers ==
  ASSUME NEW reg, NEW cnt, NEW ld, OffersOK(refs, reg, cnt, {}, ld),
         NEW result, Evict(result, reg, cnt)
  PROVE  OffersRestored(ld)
<1>1. reg \in Seq(DOMAIN refs)
  BY DEF OffersOK
<1>2. CASE Evictable(reg) # <<>> /\ StartUnload(Head(Evictable(reg)), reg, cnt)
  <2>1. Head(Evictable(reg)) \in Range(reg)
    BY <1>1, <1>2, EvictableFacts
  <2> QED
    BY <1>2, <2>1, StartUnloadOffers
<1>3. CASE Finish(IF OverLimit(reg) THEN "failed" ELSE result, reg, cnt)
  BY <1>3, FinishOffers
<1> QED
  BY <1>2, <1>3 DEF Evict

\* Start: a load makes a new ref, an unload unregisters.
LEMMA StartOffers ==
  ASSUME OfferInv, Start
  PROVE  OfferInv'
<1> DEFINE name == Head(updates).name
<1>1. stage.at = "idle" /\ UNCHANGED loaded
  BY DEF Start
<1>2. Draining(stage) = {}
  BY <1>1 DEF Draining
<1>3. OffersOK(refs, registry, counters, {}, loaded) /\ stage \in StageType
  BY <1>2 DEF OfferInv, HolderOK
<1> HIDE DEF name
<1>4. CASE /\ refs' = Append(refs, name)
           /\ stage' = [at |-> "loading", id |-> Len(refs) + 1, woken |-> FALSE]
           /\ UNCHANGED <<registry, counters>>
  <2> DEFINE A == Range(refs) \cup {name}
             D == DOMAIN counters
  <2>1. /\ refs \in Seq(Range(refs)) /\ registry \in Seq(DOMAIN refs) /\ D = Range(registry)
        /\ \A i \in D, k \in Ranks : i \in loaded[k]
        /\ \A i, j \in D : refs[i] = refs[j] => i = j
    BY <1>3 DEF OffersOK
  <2>2. D \subseteq DOMAIN refs
    BY <2>1 DEF Range
  <2>3. refs \in Seq(A) /\ name \in A
    BY <2>1
  <2> HIDE DEF A, D
  <2>4. refs' \in Seq(A) /\ Range(refs') = Range(refs) \cup {name}
    BY <1>4, <2>3, RangeAppend
  <2>5. refs' \in Seq(Range(refs'))
    BY <2>4 DEF A
  <2>6. /\ Len(refs) \in Nat /\ DOMAIN refs = 1..Len(refs) /\ DOMAIN refs' = 1..(Len(refs) + 1)
        /\ \A i \in DOMAIN refs : refs'[i] = refs[i]
    BY <1>4, <2>3
  <2>7. /\ DOMAIN refs \subseteq DOMAIN refs' /\ Len(refs) + 1 \in DOMAIN refs'
        /\ Len(refs) + 1 \notin DOMAIN refs /\ Len(refs) + 1 \in Nat
    BY <2>6
  <2>8. registry \in Seq(DOMAIN refs')
    BY <2>1, <2>7
  <2>9. \A i, j \in D : refs'[i] = refs'[j] => i = j
    BY <2>1, <2>2, <2>6
  <2>10. OffersOK(refs', registry, counters, {}, loaded)
    BY <2>1, <2>5, <2>8, <2>9 DEF OffersOK, D
  <2>11. Draining(stage') = {} /\ HolderOK(stage', refs', D)
    BY <1>4, <2>2, <2>7 DEF Draining, HolderOK, StageType
  <2> QED
    BY <1>1, <1>4, <2>10, <2>11 DEF OfferInv, D
<1>5. CASE /\ IsRegistered(registry, name) /\ UNCHANGED refs
           /\ StartUnload(IdOf(registry, name), registry, counters)
  <2>1. IdOf(registry, name) \in Range(registry)
    BY <1>5, IdOfFacts
  <2>2. OffersRestored(loaded)
    BY <1>3, <1>5, <2>1, StartUnloadOffers
  <2> QED
    BY <1>1, <1>5, <2>2 DEF OfferInv, OffersRestored
<1>6. CASE UNCHANGED <<refs, registry, counters, stage>>
  BY <1>1, <1>6 DEF OfferInv
<1> QED
  BY <1>4, <1>5, <1>6 DEF Start, name

\* LoadReply: what is registered every rank has loaded just now, and had not by this name.
LEMMA LoadReplyOffers ==
  ASSUME OfferInv, LoadReply
  PROVE  OfferInv'
<1> DEFINE i == stage.id
           name == refs[stage.id]
           able == {k \in Ranks : CanLoad(k, name)}
<1>1. stage.at = "loading" /\ UNCHANGED refs
  BY DEF LoadReply
<1>2. PICK good \in SUBSET able :
          /\ loaded' = [k \in Ranks |-> loaded[k] \union IF k \in good THEN {i} ELSE {}]
          /\ \/ /\ Merged(good, name) = "ok"
                /\ Evict(Merged(good, name), Append(registry, i), With(counters, i))
             \/ Evict(Merged(good, name), registry, counters)
  BY DEF LoadReply
<1>3. Draining(stage) = {}
  BY <1>1 DEF Draining
<1>4. OffersOK(refs, registry, counters, {}, loaded) /\ i \in DOMAIN refs \ DOMAIN counters
  BY <1>1, <1>3 DEF OfferInv, HolderOK
<1>5. OffersOK(refs, registry, counters, {}, loaded')
  BY <1>2, <1>4 DEF OffersOK
<1>6. CASE Evict(Merged(good, name), registry, counters)
  <2>1. OffersRestored(loaded')
    <3> HIDE DEF name
    <3> QED
      BY <1>5, <1>6, EvictOffers
  <2> QED
    BY <1>1, <2>1 DEF OffersRestored, OfferInv
<1>7. CASE /\ Merged(good, name) = "ok"
           /\ Evict(Merged(good, name), Append(registry, i), With(counters, i))
  <2> DEFINE a == Append(registry, i)
             w == With(counters, i)
             D == DOMAIN counters
  <2>1. good = Ranks
    BY <1>7 DEF Merged
  <2>2. PICK k \in Ranks : CanLoad(k, name)
    BY <2>1, <1>2, LoRAAssumption
  <2>3. /\ registry \in Seq(DOMAIN refs) /\ D = Range(registry)
        /\ \A j \in D, x \in Ranks : j \in loaded'[x]
        /\ \A j \in D, x \in Ranks : j \in loaded[x]
        /\ \A j, l \in D : refs[j] = refs[l] => j = l
    BY <1>4, <1>5 DEF OffersOK
  <2>4. \A j \in D : refs[j] # refs[i]
    BY <2>2, <2>3 DEF CanLoad, IsLoadedOn
  <2>5. \A x \in Ranks : i \in loaded'[x]
    BY <1>2, <2>1
  <2>6. a \in Seq(DOMAIN refs) /\ Range(a) = Range(registry) \cup {i}
    BY <1>4, <2>3, RangeAppend
  <2>7. DOMAIN w = D \cup {i}
    BY DEF With
  <2> HIDE DEF a, w, D, i, name
  <2>8. DOMAIN w = Range(a) \cup {}
    BY <2>3, <2>6, <2>7
  <2>9. \A j \in DOMAIN w, x \in Ranks : j \in loaded'[x]
    BY <2>3, <2>5, <2>7
  <2>10. \A j, l \in DOMAIN w : refs[j] = refs[l] => j = l
    BY <2>3, <2>4, <2>7
  <2>11. OffersOK(refs, a, w, {}, loaded')
    BY <1>4, <2>6, <2>8, <2>9, <2>10 DEF OffersOK
  <2>12. OffersRestored(loaded')
    BY <1>7, <2>11, EvictOffers DEF a, w
  <2> QED
    BY <1>1, <2>12 DEF OffersRestored, OfferInv
<1> QED
  BY <1>2, <1>6, <1>7

\* Wake: the counter of the drained id goes, or stays.
LEMMA WakeOffers ==
  ASSUME OfferInv, Wake
  PROVE  OfferInv'
<1> DEFINE i == stage.id
<1>1. stage.at = "draining" /\ UNCHANGED <<refs, registry, loaded>>
  BY DEF Wake
<1>2. Draining(stage) = {i}
  BY <1>1 DEF Draining
<1>3. OffersOK(refs, registry, counters, {i}, loaded) /\ stage \in StageType
  BY <1>2 DEF OfferInv, HolderOK
<1>4. CASE /\ counters' = Without(counters, i)
           /\ stage' = [stage EXCEPT !.at = "unloading", !.woken = FALSE]
  <2>1. OffersOK(refs, registry, counters', {}, loaded) /\ i \in DOMAIN refs \ DOMAIN counters'
    BY <1>3, <1>4, OffersDrained
  <2>2. stage' \in StageType /\ stage'.at = "unloading" /\ stage'.id = i
    BY <1>3, <1>4 DEF StageType
  <2>3. Draining(stage') = {} /\ HolderOK(stage', refs, DOMAIN counters')
    BY <2>1, <2>2 DEF Draining, HolderOK
  <2> QED
    BY <1>1, <2>1, <2>3 DEF OfferInv
<1>5. CASE stage' = [stage EXCEPT !.woken = FALSE] /\ UNCHANGED counters
  <2>1. stage' \in StageType /\ stage'.at = "draining" /\ stage'.id = i
    BY <1>1, <1>3, <1>5 DEF StageType
  <2>2. Draining(stage') = {i} /\ HolderOK(stage', refs, DOMAIN counters)
    BY <2>1 DEF Draining, HolderOK
  <2> QED
    BY <1>1, <1>3, <1>5, <2>2 DEF OfferInv
<1> QED
  BY <1>4, <1>5 DEF Wake

\* UnloadReply: the ranks drop an adapter that has no counter.
LEMMA UnloadReplyOffers ==
  ASSUME OfferInv, UnloadReply
  PROVE  OfferInv'
<1>1. stage.at = "unloading" /\ UNCHANGED refs
  BY DEF UnloadReply
<1>2. PICK gone \in SUBSET Ranks :
       /\ loaded' = [k \in Ranks |-> loaded[k] \ IF k \in gone THEN {stage.id} ELSE {}]
       /\ \/ Evict("ok", registry, counters)
          \/ Finish(IF gone = Ranks THEN "ok" ELSE "failed", registry, counters)
  BY DEF UnloadReply
<1>3. Draining(stage) = {}
  BY <1>1 DEF Draining
<1>4. OffersOK(refs, registry, counters, {}, loaded) /\ stage.id \notin DOMAIN counters
  BY <1>1, <1>3 DEF OfferInv, HolderOK
<1>5. OffersOK(refs, registry, counters, {}, loaded')
  <2>1. \A j \in DOMAIN counters, k \in Ranks : j \in loaded'[k]
    BY <1>2, <1>4 DEF OffersOK
  <2> QED
    BY <1>4, <2>1 DEF OffersOK
<1>6. OffersRestored(loaded')
  <2>1. CASE Evict("ok", registry, counters)
    BY <1>5, <2>1, EvictOffers
  <2>2. CASE Finish(IF gone = Ranks THEN "ok" ELSE "failed", registry, counters)
    BY <1>5, <2>2, FinishOffers
  <2> QED
    BY <1>2, <2>1, <2>2
<1> QED
  BY <1>1, <1>6 DEF OffersRestored, OfferInv

\* Resolve: the lookups of a new request, then its loads or its acquire.
LEMMA ResolveOffers ==
  ASSUME OfferInv, NEW r \in Requests, Resolve(r)
  PROVE  OfferInv'
<1> DEFINE names == Range(Sent[r].paths)
<1>1. UNCHANGED <<refs, loaded, stage>>
  BY DEF Resolve
<1>2. /\ OffersOK(refs, registry, counters, Draining(stage), loaded)
      /\ registry \in Seq(DOMAIN refs) /\ HolderOK(stage, refs, DOMAIN counters)
  BY DEF OfferInv, OffersOK
<1>3. CASE UNCHANGED <<registry, counters>>
  BY <1>1, <1>2, <1>3 DEF OfferInv
<1>4. CASE \E order \in SetToSeqs(names) :
                Resolving(r, Only(order, {n \in names : ~IsRegistered(registry, n)}),
                          updates, TouchAll(registry, order), counters)
  <2>1. names \subseteq Names /\ IsFiniteSet(Names)
    <3>1. Sent[r].paths \in Seq(Names)
      BY SentType
    <3> QED
      BY <3>1, LoRAAssumption DEF Range
  <2>2. Cardinality(names) \in Nat
    BY <2>1, FS_Subset, FS_CardinalityType
  <2> HIDE DEF names
  <2>3. PICK order \in SetToSeqs(names) :
                Resolving(r, Only(order, {n \in names : ~IsRegistered(registry, n)}),
                          updates, TouchAll(registry, order), counters)
    BY <1>4
  <2>4. order \in [1..Cardinality(names) -> names]
    BY <2>3 DEF SetToSeqs
  <2>5. order \in Seq(Names)
    BY <2>1, <2>2, <2>4
  <2> DEFINE todo == Only(order, {n \in names : ~IsRegistered(registry, n)})
             reg == TouchAll(registry, order)
  <2>6. reg \in Seq(DOMAIN refs) /\ Range(reg) = Range(registry)
    BY <1>2, <2>5, TouchAllFacts
  <2>7. Resolving(r, todo, updates, reg, counters)
    BY <2>3
  <2> HIDE DEF todo, reg
  <2>8. OffersOK(refs, reg, counters, Draining(stage), loaded)
    BY <1>2, <2>6, OffersStay
  <2>9. /\ OffersOK(refs, registry', counters', Draining(stage), loaded)
        /\ DOMAIN counters' = DOMAIN counters
    BY <2>7, <2>8, ResolvingOffers
  <2> QED
    BY <1>1, <1>2, <2>9 DEF OfferInv
<1> QED
  BY <1>3, <1>4 DEF Resolve

\* The other steps of a request change counts, and wake the holder.
LEMMA CountsOffers ==
  ASSUME OfferInv, UNCHANGED <<refs, registry, loaded>>, DOMAIN counters' = DOMAIN counters,
         stage' = stage \/ \E i : stage' = WakeUp(i)
  PROVE  OfferInv'
<1>1. stage \in StageType /\ registry \in Seq(DOMAIN refs)
  BY DEF OfferInv, HolderOK, OffersOK
<1>2. stage' \in StageType /\ stage'.at = stage.at /\ stage'.id = stage.id
  BY <1>1 DEF WakeUp, StageType
<1>3. Draining(stage') = Draining(stage)
  BY <1>2 DEF Draining
<1>4. HolderOK(stage', refs, DOMAIN counters)
  BY <1>2 DEF OfferInv, HolderOK
<1>5. OffersOK(refs, registry, counters', Draining(stage), loaded)
  BY <1>1, OffersStay DEF OfferInv
<1> QED
  BY <1>3, <1>4, <1>5 DEF OfferInv

\* The adapters of the start are registered and loaded, under different names.
LEMMA InitOffers ==
  ASSUME Init PROVE OfferInv
<1> DEFINE D == DOMAIN Startup
<1>1. /\ Startup \in Seq(Names)
      /\ \A i, j \in D : Startup[i] = Startup[j] => i = j
  BY LoRAAssumption
<1>2. /\ refs = Startup /\ registry = [i \in D |-> i] /\ counters = [i \in D |-> 0]
      /\ loaded = [k \in Ranks |-> D] /\ stage = Idle
  BY DEF Init
<1>3. D = 1..Len(Startup) /\ Len(Startup) \in Nat
  BY <1>1
<1>4. registry \in Seq(D) /\ Range(registry) = D
  <2>1. registry \in [1..Len(Startup) -> D]
    BY <1>2, <1>3
  <2>2. registry \in Seq(D)
    BY <1>3, <2>1
  <2> QED
    BY <1>2, <2>2 DEF Range
<1>5. Startup \in Seq(Range(Startup))
  BY <1>1 DEF Range
<1> HIDE DEF D
<1>6. DOMAIN counters = Range(registry) \cup {} /\ DOMAIN counters = D
  BY <1>2, <1>4
<1>7. \A i \in D, k \in Ranks : i \in loaded[k]
  BY <1>2
<1>8. OffersOK(refs, registry, counters, {}, loaded)
  BY <1>1, <1>2, <1>4, <1>5, <1>6, <1>7 DEF OffersOK, D
<1> QED
  BY <1>2, <1>8, IdleHolder DEF OfferInv

\* Every step keeps what is offered loaded.
LEMMA NextOffers ==
  ASSUME OfferInv, [Next]_vars
  PROVE  OfferInv'
<1>1. ASSUME NEW r \in Requests, NEW k, Release(r, k)
      PROVE  OfferInv'
  <2>1. /\ UNCHANGED <<refs, registry, loaded>> /\ \E i : stage' = WakeUp(i)
        /\ \E i : counters' = Increment(counters, i, -1)
    BY <1>1 DEF Release
  <2> QED
    BY <2>1, IncrementDomain, CountsOffers
<1>2. ASSUME NEW r \in Requests, CountUses(r)
      PROVE  OfferInv'
  <2>1. UNCHANGED <<refs, registry, loaded, stage>> /\ DOMAIN counters' = DOMAIN counters
    BY <1>2 DEF CountUses
  <2> QED
    BY <2>1, CountsOffers
<1>3. ASSUME NEW r \in Requests,
             \/ TokenizeFails(r) \/ Dispatch(r)
             \/ \E k : Admit(r, k) \/ Handle(r, k) \/ \E answer : Answer(r, k, answer)
      PROVE  OfferInv'
  <2>1. UNCHANGED <<refs, registry, counters, loaded, stage>>
    BY <1>3 DEF TokenizeFails, Dispatch, Admit, Handle, Answer
  <2> QED
    BY <2>1 DEF OfferInv
<1>4. CASE Progress
  BY <1>1, <1>2, <1>3, <1>4, StartOffers, LoadReplyOffers, WakeOffers, UnloadReplyOffers
     DEF Progress
<1>5. CASE \E op \in {"load", "unload"}, name \in Updatable : Ask(op, name)
  BY <1>5 DEF Ask, OfferInv
<1>6. CASE \E r \in Requests : Resolve(r)
  BY <1>6, ResolveOffers
<1>7. CASE UNCHANGED vars
  BY <1>7 DEF vars, OfferInv
<1> QED
  BY <1>4, <1>5, <1>6, <1>7 DEF Next

\* What the invariant says of the two properties.
LEMMA OffersImply ==
  ASSUME OfferInv
  PROVE  OfferedIsLoaded /\ NameRegisteredOnce
<1>1. /\ DOMAIN counters = Range(registry) \cup Draining(stage)
      /\ \A i \in DOMAIN counters, k \in Ranks : i \in loaded[k]
      /\ \A i, j \in DOMAIN counters : refs[i] = refs[j] => i = j
  BY DEF OfferInv, OffersOK
<1>2. OfferedIsLoaded
  BY <1>1 DEF OfferedIsLoaded, Draining
<1>3. ASSUME NEW name, \A k \in Ranks : CanLoad(k, name)
      PROVE  ~IsRegistered(registry, name)
  <2>1. PICK k \in Ranks : ~IsLoadedOn(k, name)
    BY <1>3, LoRAAssumption DEF CanLoad
  <2> QED
    BY <1>1, <2>1 DEF IsLoadedOn, IsRegistered
<1> QED
  BY <1>1, <1>2, <1>3 DEF NameRegisteredOnce

\* Every adapter that a request can be given, or that an unload waits for, has a counter
\* and is on every rank (register after _merge_lora_update_results, unregister and
\* wait_for_unload before the ranks are asked).  For all requests, lists, samples and
\* answers, also those whose uses the counters get wrong, and all updates and failures.
THEOREM OfferedStaysLoaded == Spec => []OfferedIsLoaded
<1>1. Init => OfferInv
  BY InitOffers
<1>2. OfferInv /\ [Next]_vars => OfferInv'
  BY NextOffers
<1>3. OfferInv => OfferedIsLoaded
  BY OffersImply
<1> QED
  BY <1>1, <1>2, <1>3, PTL DEF Spec

\* No name is ever registered under two ids, and a load that all ranks can do is of a
\* name that is not registered, so that _register_adapter does not raise.  For all
\* requests, answers, updates and failures.
THEOREM NamesStayUnique == Spec => []NameRegisteredOnce
<1>1. Init => OfferInv
  BY InitOffers
<1>2. OfferInv /\ [Next]_vars => OfferInv'
  BY NextOffers
<1>3. OfferInv => NameRegisteredOnce
  BY OffersImply
<1> QED
  BY <1>1, <1>2, <1>3, PTL DEF Spec

=============================================================================
