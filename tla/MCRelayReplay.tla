--------------------------- MODULE MCRelayReplay ---------------------------
(* A small instance of RelayReplay for TLC.                                *)
EXTENDS RelayReplay, TLC

Symmetry == Permutations(Peers)
=============================================================================
