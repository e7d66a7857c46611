---------------------------- MODULE MCFavorites ----------------------------
(* Favorites for TLC.  Requests are interchangeable. *)
EXTENDS Favorites, TLC

Symmetry == Permutations(Requests)
=============================================================================
