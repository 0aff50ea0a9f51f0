------------------------------ MODULE MCRaffle ------------------------------
(* Instances of RaffleService for TLC.                                      *)
EXTENDS RaffleService
=============================================================================
