-------------------------- MODULE MCRelayPresence ---------------------------
(* Instances of RelayPresence for TLC.                                     *)
EXTENDS RelayPresence, TLC

DaemonSymmetry == Permutations(Daemons)
=============================================================================
