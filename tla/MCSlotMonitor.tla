---------------------------- MODULE MCSlotMonitor ----------------------------
(* SlotMonitor on small instances; the configurations give the bounds. *)
EXTENDS SlotMonitor
=============================================================================
