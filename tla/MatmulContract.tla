--------------------------- MODULE MatmulContract ---------------------------
(***************************************************************************)
(* What one accelerated matmul promises its caller: the row groups of dst  *)
(* are stored in order, each exactly once and with its complete product;   *)
(* "returned" comes after the last of them; a failure may stop it anywhere *)
(* (the caller then aborts), but what was stored before stays correct.     *)
(* A qualification stores nothing: it checks tiles up to its limit and     *)
(* closes the boundary when, and only when, it returns at that limit.      *)
(***************************************************************************)
EXTENDS Naturals

VARIABLES
    shape,   \* [rows, groups, cols] of the matmul
    dst,     \* row group -> its stored value, Unset before
    status,  \* "running", "returned" or "failed"
    qualify, limit,     \* a qualification, and the tiles left to it
    checked, boundary   \* tiles checked, and the boundary closed

mvars == <<shape, dst, status, qualify, limit, checked, boundary>>

\* The tiles of a matmul are numbered row group, then K group, then column.
TileOf(s, r, g, c) == (r * s.groups + g) * s.cols + c

\* What the product of row group r is: for each column the contributions of
\* its K groups in order, each from that tile's weights, activations, scales.
Contribution(s, r, g, c) ==
    [w |-> <<r * s.groups + g, r * s.groups + g>>,
     a |-> g * s.cols + c,
     s |-> <<TileOf(s, r, g, c), TileOf(s, r, g, c)>>]

Product(s, r) ==
    [c \in 0..s.cols - 1 |-> [g \in 1..s.groups |-> Contribution(s, r, g - 1, c)]]

Unset == <<"unset">>

Init ==
    /\ status = "running" /\ checked = 0 /\ boundary = FALSE
    /\ dst = [r \in 0..shape.rows - 1 |-> Unset]

StoreRow(r) ==
    /\ status = "running" /\ ~qualify /\ dst[r] = Unset
    /\ \A q \in 0..r - 1 : dst[q] # Unset
    /\ dst' = [dst EXCEPT ![r] = Product(shape, r)]
    /\ UNCHANGED <<shape, status, qualify, limit, checked, boundary>>

Tiles == shape.rows * shape.groups * shape.cols

CheckTile ==
    /\ status = "running" /\ qualify /\ checked < limit /\ checked < Tiles
    /\ checked' = checked + 1
    /\ UNCHANGED <<shape, dst, status, qualify, limit, boundary>>

Return ==
    /\ status = "running" /\ status' = "returned"
    /\ IF qualify THEN /\ checked = limit \/ checked = Tiles
                       /\ boundary' = (checked = limit)
                  ELSE /\ \A r \in 0..shape.rows - 1 : dst[r] # Unset
                       /\ UNCHANGED boundary
    /\ UNCHANGED <<shape, dst, qualify, limit, checked>>

Fail ==
    /\ status = "running" /\ status' = "failed"
    /\ UNCHANGED <<shape, dst, qualify, limit, checked, boundary>>

Next == (\E r \in 0..shape.rows - 1 : StoreRow(r)) \/ CheckTile \/ Return \/ Fail

Spec == Init /\ [][Next]_mvars
=============================================================================
