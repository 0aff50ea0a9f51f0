----------------------------- MODULE MCCatalog ------------------------------
(* Instances of CatalogCache for TLC.                                       *)
EXTENDS CatalogCache
=============================================================================
