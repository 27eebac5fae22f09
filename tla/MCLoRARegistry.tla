---------------------------- MODULE MCLoRARegistry ----------------------------
EXTENDS LoRARegistry

CONSTANTS a, b, c

One(name) == [paths |-> <<name>>, list |-> FALSE, samples |-> 1]

MCStartup == <<a, b>>

\* Two requests meet on a; one names the pinned b in a list, one names too many
\* adapters, and one an adapter that may never have been loaded.
MCRequests == <<One(a), One(a), [paths |-> <<b>>, list |-> TRUE, samples |-> 1],
                [paths |-> <<a, b, c>>, list |-> TRUE, samples |-> 1], One(c)>>

MCSingle == <<One(a), One(a)>>

MCList == <<One(b), [paths |-> <<a, b>>, list |-> TRUE, samples |-> 1]>>
=============================================================================
