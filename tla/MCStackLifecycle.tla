------------------------- MODULE MCStackLifecycle -------------------------
EXTENDS StackLifecycle

CONSTANTS g1, g2

\* g1 manages both components; g2 runs Gongbu elsewhere and Hubu is external.
MCManaged == [g \in Sources |-> IF g = g1 THEN Components ELSE {"gongbu"}]
MCPort == [g \in Sources |->
             [c \in Components |-> IF c = "hubu" THEN 1 ELSE IF g = g1 THEN 2 ELSE 3]]
===========================================================================
