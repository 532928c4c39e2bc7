--------------------------- MODULE MCComputeWatch ---------------------------
(* Three jobs, over at most two lifetimes of the device mapping.           *)
EXTENDS ComputeWatch
=============================================================================
