--------------------------- MODULE MCRelayActions ---------------------------
(* A small instance of RelayActions for TLC.                               *)
EXTENDS RelayActions
=============================================================================
