---------------------------- MODULE MCDhcpServer ----------------------------
(* A small instance of DhcpServer. *)
EXTENDS DhcpServer, TLC

Symmetry == Permutations(Clients)
=============================================================================
