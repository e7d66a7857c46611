--------------------------- MODULE MCAdminCatalog ---------------------------
(* AdminCatalog for TLC.  Transactions, services and categories are each      *)
(* interchangeable.                                                           *)
EXTENDS AdminCatalog, TLC

Symmetry == Permutations(Txs) \cup Permutations(Services) \cup Permutations(Categories)
=============================================================================
