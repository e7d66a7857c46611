----------------------------- MODULE Favorites -----------------------------
(***************************************************************************)
(* One user's favorites and display preferences, edited from several tabs. *)
(* Each request loads the user's row first (loadSession) and then runs its *)
(* statements one by one, outside a transaction, on what that row said.    *)
(* The cached view of the catalogue and the table services change under    *)
(* it.                                                                     *)
(*                                                                         *)
(* row[s] is favorites.manual_sort.  favorites.sort and created_at, which  *)
(* only break ties, are left out; clicks too, so the order by usage may be *)
(* any order.  A statement that fails has no effect.  The user's row and   *)
(* the view of the catalogue are taken in one step; the role is fixed.     *)
(***************************************************************************)
EXTENDS Integers, FiniteSets

CONSTANTS
    Services, Beta,         \* services, and those tagged beta
    Defaults,               \* the role's default services
    Edited,                 \* services that admins change meanwhile
    Requests                \* each serves one request of the user

ASSUME FavoritesAssumption ==
    /\ IsFiniteSet(Services)
    /\ Beta \subseteq Services /\ Edited \subseteq Services /\ Defaults \subseteq Services

VARIABLES
    row,            \* the user's favorites: manual_sort, or NoRow
    user,           \* the user's row in users
    active,         \* services.is_active
    listed,         \* the cached catalogue, narrowed to the user's groups
    req,            \* the requests
    added, removed, \* the two metrics
    (* history *)
    prefilled,      \* rows the pre-fill inserted
    unnamed,        \* rows removed while their service did not resolve
    before,         \* the user's own arrangement: which favorite precedes which
    renumbered      \* the pre-fill of the manual order ran after the user arranged

tables == <<row, user>>
counters == <<added, removed, prefilled, unnamed>>
vars == <<row, user, active, listed, req, added, removed, prefilled, unnamed, before, renumbered>>

NoRow == -1
Users == [seeded : BOOLEAN, arranged : BOOLEAN, mode : {"usage", "alpha", "manual"}, beta : BOOLEAN]
NewUser == [seeded |-> FALSE, arranged |-> FALSE, mode |-> "usage", beta |-> FALSE]

\* A manual order of some services: their places, and NoRow for the others.
Arrangements == [Services -> Nat \cup {NoRow}]
Placed(pos) == {s \in Services : pos[s] # NoRow}

Favs == Placed(row)
Visible(u) == {s \in listed : s \in Beta => u.beta}

\* coalesce(max(manual_sort) + 1, 0)
AfterLast == {row[s] + 1 : s \in {x \in Favs : \A y \in Favs : row[y] <= row[x]}}
NextPlace == IF Favs = {} THEN {0} ELSE AfterLast

Init ==
    /\ row = [s \in Services |-> NoRow]
    /\ user = NewUser
    /\ active = Services
    /\ listed = Services
    /\ req = [r \in Requests |-> [stage |-> "new"]]
    /\ added = 0 /\ removed = 0
    /\ prefilled = 0 /\ unnamed = 0
    /\ before = {} /\ renumbered = FALSE

Becomes(r, now) == req' = [req EXCEPT ![r] = now]
Done == [stage |-> "done"]

\* Any statement may fail; the request ends with 500.
Fail(r) ==
    /\ req[r].stage \notin {"new", "done"}
    /\ Becomes(r, Done)
    /\ UNCHANGED <<tables, active, listed, counters, before, renumbered>>

-----------------------------------------------------------------------------
(* GET /api/favorites *)

AfterSeeding(u) == IF u.mode = "manual" /\ ~u.arranged THEN "number" ELSE "done"

StartList(r) ==
    /\ req[r].stage = "new"
    /\ Becomes(r, IF user.seeded THEN [stage |-> AfterSeeding(user)]
                  ELSE [stage |-> "prefill", user |-> user])
    /\ UNCHANGED <<tables, active, listed, counters, before, renumbered>>

\* SeedFavoritesFromRoleDefaults; manual_sort defaults to 0.
Prefill(r) ==
    LET new == (Defaults \cap active) \ Favs IN
    /\ req[r].stage = "prefill"
    /\ row' = [s \in Services |-> IF s \in new THEN 0 ELSE row[s]]
    /\ prefilled' = prefilled + Cardinality(new)
    /\ Becomes(r, [stage |-> "mark", user |-> req[r].user])
    /\ UNCHANGED <<user, active, listed, added, removed, unnamed, before, renumbered>>

MarkSeeded(r) ==
    /\ req[r].stage = "mark"
    /\ user' = [user EXCEPT !.seeded = TRUE]
    /\ Becomes(r, [stage |-> AfterSeeding(req[r].user)])
    /\ UNCHANGED <<row, active, listed, counters, before, renumbered>>

\* SeedManualFavoritesOrder: number the favorites by usage, whatever that order is.
Number(r, pos) ==
    /\ req[r].stage = "number"
    /\ Placed(pos) = Favs
    /\ row' = pos
    /\ renumbered' = (renumbered \/ before # {})
    /\ Becomes(r, [stage |-> "arranged"])
    /\ UNCHANGED <<user, active, listed, counters, before>>

MarkArranged(r) ==
    /\ req[r].stage = "arranged"
    /\ user' = [user EXCEPT !.arranged = TRUE]
    /\ Becomes(r, Done)
    /\ UNCHANGED <<row, active, listed, counters, before, renumbered>>

-----------------------------------------------------------------------------
(* POST and DELETE of a favorite *)

\* Only a service the reader's view resolves can be starred.
StartAdd(r, s) ==
    /\ req[r].stage = "new"
    /\ s \in Visible(user)
    /\ Becomes(r, [stage |-> "add", service |-> s])
    /\ UNCHANGED <<tables, active, listed, counters, before, renumbered>>

\* The insert reads the highest manual_sort as its statement begins ...
ReadNext(r) ==
    /\ req[r].stage = "add"
    /\ \E n \in NextPlace : Becomes(r, [stage |-> "insert", service |-> req[r].service, next |-> n])
    /\ UNCHANGED <<tables, active, listed, counters, before, renumbered>>

\* Mutant: a repeated star is counted too.
InsertCountsAll(r) ==
    LET s == req[r].service IN
    /\ req[r].stage = "insert"
    /\ row' = IF s \in Favs THEN row ELSE [row EXCEPT ![s] = req[r].next]
    /\ added' = added + 1
    /\ Becomes(r, Done)
    /\ UNCHANGED <<user, active, listed, removed, prefilled, unnamed, before, renumbered>>

\* Mutant: on conflict do update, so a repeated star moves the favorite to the end.
InsertMoves(r) ==
    LET s == req[r].service IN
    /\ req[r].stage = "insert"
    /\ row' = [row EXCEPT ![s] = req[r].next]
    /\ added' = IF s \in Favs THEN added ELSE added + 1
    /\ Becomes(r, Done)
    /\ UNCHANGED <<user, active, listed, removed, prefilled, unnamed, before, renumbered>>

\* ... and writes it, unless the row is there already; only a new row is counted.
Insert(r) ==
    LET s == req[r].service IN
    /\ req[r].stage = "insert"
    /\ IF s \in Favs THEN UNCHANGED <<row, added>>
       ELSE row' = [row EXCEPT ![s] = req[r].next] /\ added' = added + 1
    /\ Becomes(r, Done)
    /\ UNCHANGED <<user, active, listed, removed, prefilled, unnamed, before, renumbered>>

\* A removal need not resolve; if it does not, or the catalogue cannot be loaded or is
\* not wired at all, it goes uncounted.
StartRemove(r, s) ==
    /\ req[r].stage = "new"
    /\ \E named \in BOOLEAN :
           /\ named => s \in Visible(user)
           /\ Becomes(r, [stage |-> "remove", service |-> s, named |-> named])
    /\ UNCHANGED <<tables, active, listed, counters, before, renumbered>>

Remove(r) ==
    LET s == req[r].service IN
    /\ req[r].stage = "remove"
    /\ row' = [row EXCEPT ![s] = NoRow]
    /\ removed' = IF s \in Favs /\ req[r].named THEN removed + 1 ELSE removed
    /\ unnamed' = IF s \in Favs /\ ~req[r].named THEN unnamed + 1 ELSE unnamed
    /\ before' = {p \in before : s \notin {p[1], p[2]}}
    /\ Becomes(r, Done)
    /\ UNCHANGED <<user, active, listed, added, prefilled, renumbered>>

-----------------------------------------------------------------------------
(* PUT /api/favorites/order; pos gives each listed service its place *)

StartOrder(r, pos) ==
    /\ req[r].stage = "new"
    /\ Becomes(r, [stage |-> "check", pos |-> pos, view |-> Visible(user)])
    /\ UNCHANGED <<tables, active, listed, counters, before, renumbered>>

\* The list must name exactly the favorites this reader sees; an empty one is done.
CheckOrder(r) ==
    LET current == Favs \cap active \cap req[r].view IN
    /\ req[r].stage = "check"
    /\ Becomes(r, IF Placed(req[r].pos) = current /\ current # {}
                  THEN [stage |-> "order", pos |-> req[r].pos] ELSE Done)
    /\ UNCHANGED <<tables, active, listed, counters, before, renumbered>>

WriteOrder(r) ==
    LET pos == req[r].pos
        written == Placed(pos) \cap Favs
    IN  /\ req[r].stage = "order"
        /\ row' = [s \in Services |-> IF s \in written THEN pos[s] ELSE row[s]]
        /\ before' = {p \in written \X written : pos[p[1]] < pos[p[2]]}
        /\ renumbered' = FALSE
        /\ Becomes(r, Done)
        /\ UNCHANGED <<user, active, listed, counters>>

-----------------------------------------------------------------------------
(* PATCH /api/me/prefs: a field the body leaves out keeps the value loaded *)

StartPatch(r, mode, beta) ==
    /\ req[r].stage = "new"
    /\ Becomes(r, [stage |-> "patch", mode |-> mode, beta |-> beta])
    /\ UNCHANGED <<tables, active, listed, counters, before, renumbered>>

WritePatch(r) ==
    /\ req[r].stage = "patch"
    /\ user' = [user EXCEPT !.mode = req[r].mode, !.beta = req[r].beta]
    /\ Becomes(r, Done)
    /\ UNCHANGED <<row, active, listed, counters, before, renumbered>>

-----------------------------------------------------------------------------
(* Admins, and the cache following them *)

SetActive(S) ==
    /\ active' = S
    /\ UNCHANGED <<tables, listed, req, counters, before, renumbered>>

Reload(S) ==
    /\ listed' = S
    /\ UNCHANGED <<tables, active, req, counters, before, renumbered>>

Orders(L) ==
    {pos \in [Services -> {NoRow} \cup 0..(Cardinality(L) - 1)] :
        Placed(pos) = L /\ \A x, y \in L : pos[x] = pos[y] => x = y}

ListNext(r) ==
    \/ StartList(r) \/ Prefill(r) \/ MarkSeeded(r) \/ MarkArranged(r)
    \/ \E pos \in Orders(Favs) : Number(r, pos)

StarNext(r) ==
    \/ \E s \in Services : StartAdd(r, s) \/ StartRemove(r, s)
    \/ ReadNext(r) \/ Insert(r) \/ Remove(r)

OrderNext(r) ==
    \/ \E L \in SUBSET Services : \E pos \in Orders(L) : StartOrder(r, pos)
    \/ CheckOrder(r) \/ WriteOrder(r)

PatchNext(r) ==
    \/ \E mode \in {"usage", "alpha", "manual"} : StartPatch(r, mode, user.beta)
    \/ \E beta \in BOOLEAN : StartPatch(r, user.mode, beta)
    \/ WritePatch(r)

Next ==
    \/ \E r \in Requests : ListNext(r) \/ StarNext(r) \/ OrderNext(r) \/ PatchNext(r) \/ Fail(r)
    \/ \E S \in {Services \ E : E \in SUBSET Edited} : SetActive(S) \/ Reload(S)

Spec == Init /\ [][Next]_vars

-----------------------------------------------------------------------------
(* Properties *)

\* What a request keeps between its statements, and the tables, keep their shape.
RequestRows ==
    [stage : {"new", "number", "arranged", "done"}]
    \cup [stage : {"prefill", "mark"}, user : Users]
    \cup [stage : {"add"}, service : Services]
    \cup [stage : {"insert"}, service : Services, next : Nat]
    \cup [stage : {"remove"}, service : Services, named : BOOLEAN]
    \cup [stage : {"check"}, pos : Arrangements, view : SUBSET Services]
    \cup [stage : {"order"}, pos : Arrangements]
    \cup [stage : {"patch"}, mode : {"usage", "alpha", "manual"}, beta : BOOLEAN]

\* Every variable keeps its shape: favorites.manual_sort and users are never
\* written null, and a request keeps what its next statement needs.
TypeOK ==
    /\ row \in Arrangements
    /\ user \in Users
    /\ active \in SUBSET Services /\ listed \in SUBSET Services
    /\ req \in [Requests -> RequestRows]
    /\ added \in Nat /\ removed \in Nat /\ prefilled \in Nat /\ unnamed \in Nat
    /\ before \in SUBSET (Services \X Services)
    /\ renumbered \in BOOLEAN

\* The two counters are the delta between what the user chose and what the
\* deployment pre-filled: stars added less stars removed is exactly how the
\* favorites differ from the pre-filled ones, up to the removals that had no
\* service to be counted under.
MetricIsDelta == added - removed - unnamed = Cardinality(Favs) - prefilled

\* The user's arrangement stands: whatever is starred, removed, hidden or
\* reordered at the same time, two favorites the user put in an order stay in
\* it until the user orders them again, unless the one-time numbering by usage
\* came late.
ArrangementStands == renumbered \/ \A p \in before : row[p[1]] < row[p[2]]

\* A favorite the reader does not see slots back in where it was: writing the
\* order the visible favorites already have swaps no two favorites, seen or not.
InvisibleSlotBack ==
    [][\A r \in Requests :
          /\ req[r].stage = "order" /\ row' # row
          /\ \A x, y \in Placed(req[r].pos) : req[r].pos[x] < req[r].pos[y] => row[x] < row[y]
          => \A x, y \in Favs : row[x] < row[y] => row'[x] <= row'[y]]_vars

-----------------------------------------------------------------------------
(* Why they hold: the inductive invariant *)

\* What is in the user's arrangement is a favorite.
ArrangedAreFavorites == \A p \in before : p[1] \in Favs /\ p[2] \in Favs

IInv == TypeOK /\ MetricIsDelta /\ ArrangedAreFavorites /\ ArrangementStands
=============================================================================
