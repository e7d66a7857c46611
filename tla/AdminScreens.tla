---------------------------- MODULE AdminScreens ----------------------------
(***************************************************************************)
(* The admin screen: its sections together (AdminView.tsx).  Leaving one   *)
(* drops what its components hold, not what they sent.  The sections share *)
(* nothing but which of them is mounted, so that a behaviour works in one  *)
(* part of the screen; that another section is open stands for all others. *)
(***************************************************************************)
EXTENDS RoleDefaults, CategoryRows, EditForms

VARIABLE part           \* bound: the part of the screen a behaviour works in
Parts == {"roles", "categories", "forms"}
SectionsOf(p) == IF p = "forms" THEN Screens ELSE {p}

vars == <<nav, roleVars, categoryVars, formVars, part>>

\* A tab of the admin screen, or its way in and out.
OpenSection(s) ==
    /\ s # section /\ s \in SectionsOf(part) \cup {NoneOpen}
    /\ section' = s /\ UNCHANGED <<budget, part>>
    /\ RolesFollowSection /\ CategoriesFollowSection /\ FormsFollowSection

Init ==
    /\ NavInit /\ RolesInit /\ CategoriesInit /\ FormsInit
    /\ part \in Parts /\ budget = IF part = "roles" THEN 1 ELSE MaxWrites
    /\ \A r \in Roles : Len(defaults[r]) = IF part = "roles" THEN 1 ELSE 0
    /\ part = "categories" \/ categories = <<>>

Next ==
    \/ \E s \in Sections \cup {NoneOpen} : OpenSection(s)
    \/ part = "roles" /\ RolesNext /\ UNCHANGED <<categoryVars, formVars, part>>
    \/ part = "categories" /\ CategoriesNext /\ UNCHANGED <<roleVars, formVars, part>>
    \/ part = "forms" /\ FormsNext /\ UNCHANGED <<roleVars, categoryVars, part>>

Spec == Init /\ [][Next]_vars

TypeOK == NavTypeOK /\ RolesTypeOK /\ CategoriesTypeOK /\ FormsTypeOK /\ part \in Parts

=============================================================================
