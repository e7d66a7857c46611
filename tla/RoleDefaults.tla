---------------------------- MODULE RoleDefaults ----------------------------
(***************************************************************************)
(* The editor of a role's default view (RoleDefaultsAdmin.tsx): the list   *)
(* of the role that is selected, loaded by an effect, edited while it may  *)
(* still be loading, and saved whole.  Left out: the names of services and *)
(* which of them the picker offers beside those already in the list.       *)
(* External: PUT and GET /api/admin/role-defaults, GET /api/roles.         *)
(***************************************************************************)
EXTENDS AdminNav

CONSTANTS
    RoleOrder,          \* the roles the deployment may configure, by precedence
    Services,           \* what a default view may hold
    MaxReads            \* bound: fetches under way at a time

NoRole == "none"
ASSUME RoleDefaultsAssumption ==
    /\ RoleOrder \in Seq(ToSet(RoleOrder)) /\ IsInjective(RoleOrder)
    /\ NoRole \notin ToSet(RoleOrder)
    /\ IsFiniteSet(Services)

VARIABLES
    defaults,           \* the server's lists
    roles,              \* the configured roles, as the last answer has them
    selected,
    ordered,            \* the list on screen
    edited,             \* it was touched since the fetch started
    reads,              \* fetches of lists
    loaded,             \* ghost: the list the role's own fetch brought
    removed,            \* ghost: the services removed by hand since the fetch started
    saves,              \* writes under way
    saved

roleScreen == <<selected, ordered, edited, loaded, removed, saved>>
roleVars == <<defaults, roles, selected, ordered, edited, reads, loaded, removed, saves, saved>>

Roles == ToSet(RoleOrder)
Lists == {l \in UNION {[1..n -> Services] : n \in 0..Cardinality(Services)} : IsInjective(l)}
Unread == <<"unread", "unread">>
Reads == [role : Roles, list : Lists \cup {Unread}, active : BOOLEAN]
Saves == [kind : {"save"}, role : Roles, list : Lists, state : {"sent", "stored", "refused"},
          heard : BOOLEAN, id : 0..MaxWrites]

\* The role edited: the selection while it is configured, else the first one.
Role ==
    IF section # "roles" \/ roles = <<>> THEN NoRole
    ELSE IF selected \in ToSet(roles) THEN selected ELSE Head(roles)

\* The effect keyed on the role: the fetch of the role before is abandoned and one
\* of the new role's list starts; the list on screen stays.
FollowRole ==
    IF Role' = Role THEN UNCHANGED <<edited, reads, loaded, removed>>
    ELSE /\ edited' = FALSE /\ loaded' = Unread /\ removed' = {}
         /\ reads' = {[r EXCEPT !.active = FALSE] : r \in reads}
                     \cup {[role |-> x, list |-> Unread, active |-> TRUE] : x \in {Role'} \ {NoRole}}
         /\ Cardinality(reads') <= MaxReads

-----------------------------------------------------------------------------
(* Loading *)

\* GET /api/roles answers: what is configured may have changed.
RolesArrive ==
    /\ \E out \in {{}} \cup {{r} : r \in Roles} :
        /\ roles' = LeftOf(RoleOrder, out)
        /\ roles' # roles /\ roles' # <<>>
    /\ UNCHANGED <<nav, defaults, selected, ordered, saves, saved>>
    /\ FollowRole

SelectRole(r) ==
    /\ Role # NoRole /\ r \in ToSet(roles)
    /\ selected' = r /\ saved' = FALSE
    /\ UNCHANGED <<nav, defaults, roles, ordered, saves>>
    /\ FollowRole

ServeRead(r) ==
    /\ r.list = Unread
    /\ reads' = (reads \ {r}) \cup {[r EXCEPT !.list = defaults[r.role]]}
    /\ UNCHANGED <<nav, defaults, roles, roleScreen, saves>>

ReadFails(r) ==
    /\ reads' = reads \ {r}
    /\ UNCHANGED <<nav, defaults, roles, roleScreen, saves>>

\* Mutant: the answer to a fetch that was abandoned is heeded.
HeedsEvery(r) == TRUE
Heeds(r) == r.active

Merge(list, prev) ==
    IF ~edited THEN list ELSE LeftOf(list, ToSet(prev)) \o prev

ReadArrives(r) ==
    /\ r.list # Unread
    /\ reads' = reads \ {r}
    /\ IF Heeds(r) /\ Role # NoRole
       THEN /\ ordered' = Merge(r.list, ordered)
            /\ loaded' = IF r.active THEN r.list ELSE loaded
       ELSE UNCHANGED <<ordered, loaded>>
    /\ UNCHANGED <<nav, defaults, roles, selected, edited, removed, saves, saved>>

-----------------------------------------------------------------------------
(* Editing and saving *)

Edit(list, gone) ==
    /\ section = "roles"
    /\ ordered' = list /\ edited' = TRUE /\ removed' = gone
    /\ UNCHANGED <<nav, defaults, roles, selected, reads, loaded, saves, saved>>

MoveService(i, j) ==
    /\ {i, j} \subseteq DOMAIN ordered /\ (j = i + 1 \/ i = j + 1)
    /\ Edit([ordered EXCEPT ![i] = ordered[j], ![j] = ordered[i]], removed)
RemoveService(id) ==
    id \in ToSet(ordered) /\ Edit(LeftOf(ordered, {id}), removed \cup {id})
AddService(id) == id \notin ToSet(ordered) /\ Edit(Append(ordered, id), removed \ {id})

\* Save is offered once there is a role and the last save is answered.
Save ==
    /\ Role # NoRole /\ ~\E w \in saves : w.heard
    /\ saves' = saves \cup {[kind |-> "save", role |-> Role, list |-> ordered, state |-> "sent",
                             heard |-> TRUE, id |-> budget]}
    /\ Spend
    /\ UNCHANGED <<section, defaults, roles, roleScreen, reads>>

ServeSave(w) ==
    /\ w.state = "sent"
    /\ \/ defaults' = [defaults EXCEPT ![w.role] = w.list] /\ saves' = InState(saves, w, "stored")
       \/ UNCHANGED defaults /\ saves' = InState(saves, w, "refused")
    /\ UNCHANGED <<nav, roles, roleScreen, reads>>

\* The answer arrives, or is lost, which the screen takes for a failure.
SaveAnswered(w) ==
    /\ w.state # "sent"
    /\ saves' = saves \ {w}
    /\ \E ok \in {w.state = "stored", FALSE} : saved' = (saved \/ (w.heard /\ ok))
    /\ UNCHANGED <<nav, defaults, roles, selected, ordered, edited, reads, loaded, removed>>

OtherAdminSaves ==
    /\ \E r \in Roles, l \in Lists : defaults' = [defaults EXCEPT ![r] = l]
    /\ Spend
    /\ UNCHANGED <<section, roles, roleScreen, reads, saves>>

\* A section is opened or left: the editor is mounted anew or gone.
RolesFollowSection ==
    /\ selected' = NoRole /\ ordered' = <<>> /\ saved' = FALSE
    /\ saves' = Unheard(saves, {"save"})
    /\ UNCHANGED <<defaults, roles>>
    /\ FollowRole

-----------------------------------------------------------------------------
RolesInit ==
    /\ defaults \in [Roles -> Lists]
    /\ roles = <<>> /\ selected = NoRole
    /\ ordered = <<>> /\ edited = FALSE /\ reads = {} /\ loaded = Unread /\ removed = {}
    /\ saves = {} /\ saved = FALSE

RolesNext ==
    \/ RolesArrive \/ Save \/ OtherAdminSaves
    \/ \E r \in Roles : SelectRole(r)
    \/ \E r \in reads : ServeRead(r) \/ ReadFails(r) \/ ReadArrives(r)
    \/ \E i, j \in DOMAIN ordered : MoveService(i, j)
    \/ \E id \in Services : RemoveService(id) \/ AddService(id)
    \/ \E w \in saves : ServeSave(w) \/ SaveAnswered(w)

-----------------------------------------------------------------------------
RolesTypeOK ==
    /\ defaults \in [Roles -> Lists]
    /\ IsInjective(roles) /\ ToSet(roles) \subseteq Roles /\ selected \in Roles \cup {NoRole}
    /\ ordered \in Lists /\ edited \in BOOLEAN /\ loaded \in Lists \cup {Unread}
    /\ removed \subseteq Services
    /\ reads \subseteq Reads /\ saves \subseteq Saves /\ saved \in BOOLEAN

\* Once the role's list is loaded, nothing it had is missing from the list on screen
\* that was not removed by hand, and a list nobody touched is the role's own, however
\* edits, other roles and late answers fell between (RoleDefaultsAdmin.tsx:50-75).
LoadedListIsTheRoles ==
    loaded # Unread =>
        /\ ToSet(loaded) \ removed \subseteq ToSet(ordered)
        /\ ~edited => ordered = loaded

\* A save drops nothing the server has but what was removed by hand
\* (RoleDefaultsAdmin.tsx:65-67, 76-81).
SavesDropOnlyRemoved ==
    [][Cardinality(saves') > Cardinality(saves) => ToSet(defaults[Role]) \ removed \subseteq ToSet(ordered)]_roleVars

=============================================================================
