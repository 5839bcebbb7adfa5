--------------------------- MODULE MCCheckedBlocks ---------------------------
(* CheckedBlocks on a small instance; the configuration gives the bounds. *)
EXTENDS CheckedBlocks
=============================================================================
