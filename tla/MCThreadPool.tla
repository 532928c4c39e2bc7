---------------------------- MODULE MCThreadPool ----------------------------
(* Three threads over two graphs, of which one, two or all take part.      *)
EXTENDS ThreadPool
=============================================================================
