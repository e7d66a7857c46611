--------------------------- MODULE MCCatalogLoad ---------------------------
(* CatalogLoad for TLC.  Services are interchangeable, and so are categories. *)
EXTENDS CatalogLoad, TLC

Symmetry == Permutations(ServiceIds) \cup Permutations(CategoryIds) \cup Permutations(Slugs)
    \cup Permutations(Visibilities)
=============================================================================
