---------------------------- MODULE MCLifecycle ----------------------------
(* Every setting and every defect, up to MaxDeviations of them at once.     *)
EXTENDS Lifecycle
=============================================================================
