---------------------------- MODULE MCStateStore ----------------------------
(***************************************************************************)
(* The symmetry that the runs of StateStore use: the processes are alike.  *)
(***************************************************************************)
EXTENDS StateStoreProperties, TLC

CONSTANTS p1, p2

Symmetry == Permutations(Processes)
=============================================================================
