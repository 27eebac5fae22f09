------------------------------ MODULE MCSticky ------------------------------
EXTENDS StickyLastSequence

\* A short user turn that the reply differs from, and one longer than a chunk.
MCTails == {<<2>>, <<2, 2, 2>>}
=============================================================================
