--------------------------- MODULE MCBlockListener ---------------------------
(* BlockListener on small instances; the configurations give the bounds. *)
EXTENDS BlockListener
=============================================================================
