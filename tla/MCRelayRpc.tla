----------------------------- MODULE MCRelayRpc -----------------------------
(* Instances of RelayRpc for TLC.                                          *)
EXTENDS RelayRpc, TLC

DaemonSymmetry == Permutations(Daemons)
=============================================================================
