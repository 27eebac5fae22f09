---------------------------- MODULE MCAllocExtend ----------------------------
(* AllocExtend over every batch of up to MaxBatch rows.                     *)
EXTENDS AllocExtend

\* A free list in the order frees left it: neither sorted nor contiguous.
MCFreePages == <<7, 3, 12, 5, 1, 9, 4, 8, 2, 6, 11, 10>>
=============================================================================
