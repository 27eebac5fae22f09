------------------------------ MODULE PagePool ------------------------------
(***************************************************************************)
(* What the schedulers and caches of sglang rely on when they talk to a    *)
(* KV page allocator, with none of its machinery: a page is available, in  *)
(* the hands of one client, or given back but deferred to the end of a     *)
(* free group; a request for pages is refused only when the available      *)
(* pages really are too few.  PagedAllocator implements this module, and   *)
(* RadixKV takes its pages from it.                                        *)
(***************************************************************************)
EXTENDS Integers, FiniteSets

CONSTANTS Reqs,   \* the clients: rows of req_to_token
          Pages   \* page ids 1 .. num_pages (page 0 is the padding page)

VARIABLES avail,     \* pages available_size() counts
          owned,     \* owned[r]: the pages in r's row
          deferred,  \* pages freed inside an open free group
          answer     \* the last alloc's outcome: [ok, need]

vars == <<avail, owned, deferred, answer>>

Init ==
  /\ avail = Pages
  /\ owned = [r \in Reqs |-> {}]
  /\ deferred = {}
  /\ answer = [ok |-> TRUE, need |-> 0]

\* An allocation is served: disjoint sets of available pages change hands.
Serve ==
  \E give \in [Reqs -> SUBSET avail] :
    /\ \A r, s \in Reqs : r # s => give[r] \cap give[s] = {}
    /\ avail' = avail \ UNION {give[r] : r \in Reqs}
    /\ owned' = [r \in Reqs |-> owned[r] \cup give[r]]
    /\ answer' = [ok |-> TRUE,
                  need |-> Cardinality(UNION {give[r] : r \in Reqs})]
    /\ UNCHANGED deferred

\* An allocation is refused, and only for want of pages.
Refuse ==
  /\ answer' \in [ok : {FALSE}, need : Nat]
  /\ answer'.need > Cardinality(avail)
  /\ UNCHANGED <<avail, owned, deferred>>

\* A client gives pages back, at once or deferred.
GiveBack ==
  \E r \in Reqs : \E S \in SUBSET owned[r] :
    /\ owned' = [owned EXCEPT ![r] = @ \ S]
    /\ \/ avail' = avail \cup S /\ deferred' = deferred
       \/ deferred' = deferred \cup S /\ avail' = avail
    /\ UNCHANGED answer

\* The free group ends and its pages become available together.
Settle ==
  /\ avail' = avail \cup deferred
  /\ deferred' = {}
  /\ UNCHANGED <<owned, answer>>

Next == Serve \/ Refuse \/ GiveBack \/ Settle

Spec == Init /\ [][Next]_vars
=============================================================================
