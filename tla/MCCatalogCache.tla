--------------------------- MODULE MCCatalogCache ---------------------------
(* CatalogCache for TLC: its constants are all given in the .cfg files.     *)
EXTENDS CatalogCache
=============================================================================
