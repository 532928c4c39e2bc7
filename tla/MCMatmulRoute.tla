---------------------------- MODULE MCMatmulRoute ----------------------------
(* A graph with a node of every kind and a Q8 node after a native one.      *)
EXTENDS MatmulRoute
MCGraph == <<"q8", "other", "vocab", "q8">>
MCShortGraph == <<"q8", "other">>
=============================================================================
