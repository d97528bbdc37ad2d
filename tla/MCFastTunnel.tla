---------------------------- MODULE MCFastTunnel ----------------------------
(* Small instances of FastTunnel, and the symmetry of its identifiers.     *)
EXTENDS FastTunnel

Symmetric == Permutations(Bridges) \cup Permutations(Conns)

=============================================================================
