-------------------------------- MODULE MCServer -------------------------------
(***************************************************************************)
(* Small instances of Server for TLC.                                      *)
(***************************************************************************)
EXTENDS Server, TLC

\* Clients are alike.  Only for runs without liveness properties.
ClientSymmetry == Permutations(Clients)
=============================================================================
