------------------------------ MODULE MCWholeLoops ------------------------------
(* write_all, with writes that may be short. *)
EXTENDS WholeLoops
===============================================================================
