------------------------------ MODULE MCDrill ------------------------------
(* Instances of RecoveryDrill for TLC.                                      *)
EXTENDS RecoveryDrill, TLC

Symmetry == Permutations(Pods)
=============================================================================
