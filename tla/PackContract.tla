---------------------------- MODULE PackContract ----------------------------
(***************************************************************************)
(* What tile preparation may assume of the two-producer pack: tiles are    *)
(* offered one at a time under fresh numbers, each is packed at most once, *)
(* and a tile is handed to DMA only after it has been packed completely.   *)
(* Anything else ends in an abort of the process (fpga_fatal).             *)
(***************************************************************************)
EXTENDS Naturals

VARIABLES
    phase,  \* of the one source slot
    tile,   \* the tile being produced or used, 0 when there is none
    last    \* the last tile number offered or skipped

cvars == <<phase, tile, last>>

Phases == {"free", "offered", "packed", "spoiled", "using", "dead"}

Init == phase = "free" /\ tile = 0 /\ last = 0

Offer ==
    /\ phase = "free" /\ phase' = "offered"
    /\ tile' = last + 1 /\ last' = last + 1

Pack ==
    /\ phase = "offered" /\ phase' \in {"packed", "spoiled"}
    /\ UNCHANGED <<tile, last>>

Use ==
    /\ phase = "packed" /\ phase' = "using"
    /\ UNCHANGED <<tile, last>>

Release ==
    /\ phase = "using" /\ phase' = "free" /\ tile' = 0
    /\ UNCHANGED last

Abort ==
    /\ phase # "dead" /\ phase' = "dead" /\ tile' = 0
    /\ last' \in {last, last + 1}

Next == Offer \/ Pack \/ Use \/ Release \/ Abort

Spec == Init /\ [][Next]_cvars
=============================================================================
