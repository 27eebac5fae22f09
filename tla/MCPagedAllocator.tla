-------------------------- MODULE MCPagedAllocator --------------------------
(* PagedAllocator on a small instance, with the page ids interchangeable.  *)
EXTENDS PagedAllocator, TLC

Symmetry == Permutations(Pages) \cup Permutations(Reqs)
=============================================================================
