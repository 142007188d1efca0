---------------------------- MODULE MCStateStore ----------------------------
(* StateStore on small instances. *)
EXTENDS StateStore, TLC

\* Savers run the same code: sound, no liveness is checked.
SaverSymmetry == Permutations(Savers)
=============================================================================
