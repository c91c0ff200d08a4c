----------------------------- MODULE MCHostSync -----------------------------
(* Small instances of HostSync for TLC.                                    *)
EXTENDS HostSync
=============================================================================
