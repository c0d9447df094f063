---------------------------- MODULE MCProbePause ----------------------------
(***************************************************************************)
(* Values for ProbePause's constants: the calls probe one device, or each  *)
(* its own, and every automation watches it or a circuit.                  *)
(***************************************************************************)
EXTENDS ProbePause

CONSTANTS p1, p2

MCTarget == [p \in Probes |-> CHOOSE d \in Devices : TRUE]
MCOwnTarget ==
  CHOOSE f \in [Probes -> Devices] : \A p, q \in Probes : f[p] = f[q] => p = q
MCWatching == [p \in Probes |-> Automations]
=============================================================================
