----------------------------- MODULE MCResidency -----------------------------
EXTENDS Residency

\* Four tiles of two sizes, three of them with the same home bucket, for three
\* slots and four words: probes collide, wrap around and run out, the directory
\* and the budget fill up before every tile is resident.
MCKeys == {"a", "b", "c", "d"}
MCHash == [k \in MCKeys |-> IF k = "d" THEN 0 ELSE 2]
MCSize == [k \in MCKeys |-> IF k = "b" THEN 2 ELSE 1]
=============================================================================
