--------------------------- MODULE MCTilePipeline ---------------------------
EXTENDS TilePipeline

\* Decode matmuls (one column) with one to three row groups, so that a result
\* is carried across rows and a lookahead crosses a row, and prompt matmuls
\* with enough columns for both banks to be reused.
MCShapes ==
    {[rows |-> r, groups |-> g, cols |-> 1] : r \in 1..3, g \in 1..3}
      \cup {[rows |-> r, groups |-> g, cols |-> c] : r \in 1..2, g \in 1..2, c \in 2..3}
=============================================================================
