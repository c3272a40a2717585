----------------------------- MODULE MCNPServer -----------------------------
(***************************************************************************)
(* Model values for NPServer.  No formula distinguishes two clients, so    *)
(* they may be permuted where only safety is checked.                      *)
(***************************************************************************)
EXTENDS NPServer

Symmetry == Permutations(Clients)
=============================================================================
