------------------------------- MODULE MCZdma -------------------------------
(* Three copies of two chunks each: every chunk but the very first finds    *)
(* the sticky events of a preceding transfer.                              *)
EXTENDS Zdma
=============================================================================
