--------------------------- MODULE MCStallMonitor ---------------------------
(* StallMonitor on small instances; the configurations give the bounds. *)
EXTENDS StallMonitor
=============================================================================
