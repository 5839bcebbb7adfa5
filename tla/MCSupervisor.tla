---------------------------- MODULE MCSupervisor ----------------------------
(* Supervisor with secret files of five permissions, two of them private. *)
EXTENDS Supervisor

MCModes == {<<4, 0, 0>>, <<6, 0, 0>>, <<7, 0, 0>>, <<6, 4, 0>>, <<6, 4, 4>>}
=============================================================================
