--------------------------- MODULE MCRelayDevices ---------------------------
(* Instances of RelayDevices for TLC.                                      *)
EXTENDS RelayDevices, TLC

Symmetry == Permutations(Devices) \cup Permutations(Pairings) \cup Permutations(Conns)
=============================================================================
