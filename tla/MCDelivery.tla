----------------------------- MODULE MCDelivery -----------------------------
(* Instances of GitopsDelivery for TLC: the first two revisions of main.    *)
EXTENDS GitopsDelivery, TLC

MCPin == <<1, 2>>

Symmetry == Permutations(Deployers)
=============================================================================
