---------------------------- MODULE MCDeltaSync ----------------------------
(***************************************************************************)
(* Two interchangeable clients for the safety properties of DeltaSync.      *)
(***************************************************************************)
EXTENDS DeltaSync, TLC

CONSTANTS c1, c2

TwoClients == {c1, c2}
Symmetry == Permutations(TwoClients)
=============================================================================
