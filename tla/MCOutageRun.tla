---------------------------- MODULE MCOutageRun ----------------------------
(***************************************************************************)
(* OutageRun for TLC, in units of about 15 s.                              *)
(***************************************************************************)
EXTENDS OutageRun

CONSTANTS lamp, node

TheCircuit == {lamp, node}
=============================================================================
