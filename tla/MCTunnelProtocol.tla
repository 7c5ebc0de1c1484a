-------------------------- MODULE MCTunnelProtocol --------------------------
(* Instances of TunnelProtocol for TLC. *)
EXTENDS TunnelProtocol

\* Clients are interchangeable when none of them is singled out.
ClientSymmetry == Permutations(Clients \ OldClients)
=============================================================================
