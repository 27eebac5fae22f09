------------------------------ MODULE MCRadixKV ------------------------------
(* RadixKV on a small pool.  The prompts of 3 and 5 tokens share a page and *)
(* part inside the next, so that hits end inside an edge that is locked.    *)
(* Two requests that decode fill the pool, so that decode has to retract.   *)
(* The short 3-token request fits beside the long one before either is      *)
(* cached, so that both compute the first page and one copy is freed.  The  *)
(* last prompt is chunked, and its prefix is longer than what admission     *)
(* keeps in reserve.                                                        *)
EXTENDS RadixKV

MCSent == {[ids |-> <<1, 1, 2>>, max_new |-> 4],
           [ids |-> <<1, 1, 2>>, max_new |-> 2],
           [ids |-> <<1, 1, 1, 1, 1>>, max_new |-> 1],
           [ids |-> <<2, 2, 2, 2, 2, 2, 2>>, max_new |-> 1]}
=============================================================================
