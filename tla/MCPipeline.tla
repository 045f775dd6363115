----------------------------- MODULE MCPipeline -----------------------------
\* Two requests of two classes and room for one of them.  In bytes they match
\* no pattern and go to the last class.
EXTENDS Pipeline

CONSTANTS i1, i2, b1, b2

MCWeight == [c \in 0 .. 1 |-> 2 - c]
MCMatches == [i \in {i1, i2, b1, b2} |-> IF i = i1 THEN {0} ELSE {}]
MCBytes == [i \in {i1, i2, b1, b2} |-> IF i \in {i1, b1} THEN b1 ELSE b2]
MCRates == {-1, 50, 101}
=============================================================================
