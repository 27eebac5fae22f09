---------------------------- MODULE MCDecodeDrain ----------------------------
EXTENDS DecodeDrain, TLC

CONSTANTS p1, p2

\* The prefill ranks are interchangeable.
Symmetry == Permutations({p1, p2})
=============================================================================
