--------------------------- MODULE MCAdminScreens ---------------------------
(* Two roles and two services, three slugs, and two spellings of a keyword. *)
EXTENDS AdminScreens
MCRoleOrder == <<"staff", "student">>
MCFold == [k \in Terms |-> IF k = "A" THEN "a" ELSE k]
MCSymmetry == Permutations(Slugs) \cup Permutations(Services)
=============================================================================
