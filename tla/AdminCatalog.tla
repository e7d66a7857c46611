---------------------------- MODULE AdminCatalog ----------------------------
(***************************************************************************)
(* The admin use cases that write the catalogue (internal/service/         *)
(* admin.go), run by several admins at once.  Each is a READ COMMITTED     *)
(* transaction of PostgreSQL: a statement sees what is committed when it   *)
(* is issued and what its own transaction wrote, waits for rows another    *)
(* open transaction wrote, and everything shows at once with the commit.   *)
(*                                                                         *)
(* What a transaction wrote is its request and how far it got; only the    *)
(* rows of role_defaults it deleted and inserted are kept apart.  Names,   *)
(* slugs, labels and order are left out: a refusal they cause is a         *)
(* Rollback, which may come at any moment and for any reason.              *)
(***************************************************************************)
EXTENDS Naturals, FiniteSets

CONSTANTS
    Txs,            \* sessions that admins write through
    Services, Categories, Visibilities,
    Roles,          \* role slugs that role_defaults has rows for
    Configured,     \* those of this deployment
    Public,         \* the visibility of an unrestricted category
    Keep,           \* the visibility an UpdateCategory omits
    NoRequest,
    MaxTx           \* bound: transactions begun

ASSUME AdminAssumption ==
    /\ Configured \subseteq Roles
    /\ Public \notin Visibilities
    /\ Keep \notin Visibilities \cup {Public}
    /\ MaxTx \in Nat
    /\ IsFiniteSet(Services)

VARIABLES
    (* committed *)
    services,       \* the services there are
    filed,          \* service_categories
    categories,     \* the categories there are
    vis,            \* categories.visibility
    defaults,       \* role_defaults, its rows <<role, service>>
    audit,          \* the newest row of audit_log
    (* per transaction *)
    request, at,    \* the use case and its arguments, and how far it got
    next,           \* the visibility UpdateCategory settled on
    seen,           \* rows a DELETE on role_defaults found when it was issued
    gone, added,    \* rows of role_defaults deleted and inserted
    purged,         \* the roles the purge reports for the audit row
    alone,          \* history: no other transaction was open meanwhile
    begun

committed == <<services, filed, categories, vis, defaults, audit>>
open == <<request, at, next, seen, gone, added, purged>>
vars == <<committed, open, alone, begun>>

Some(S) == {T \in SUBSET S : T # {}}
Requests ==
    [op : {"CreateService", "UpdateService"}, svc : Services, cats : Some(Categories)]
    \cup [op : {"SetRoleDefaults"}, role : Configured, ids : SUBSET Services]
    \cup [op : {"CreateCategory"}, cat : Categories, vis : Visibilities \cup {Public}]
    \cup [op : {"UpdateCategory"}, cat : Categories, vis : Visibilities \cup {Public, Keep}]
    \cup [op : {"DeleteCategory"}, cat : Categories]

Op(t) == IF at[t] = "idle" THEN "none" ELSE request[t].op
Others(t) == Txs \ {t}

\* The categories and services an open transaction wrote, and holds locked.
FilesService(t) == Op(t) \in {"CreateService", "UpdateService"} /\ at[t] # "begun"
CreatesCategory(t) == Op(t) = "CreateCategory" /\ at[t] = "done"
EditsCategory(t) == Op(t) = "UpdateCategory" /\ at[t] \notin {"begun", "read"}
DeletesCategory(t) == Op(t) = "DeleteCategory" /\ at[t] = "done"

ServiceFree(t, s) == \A u \in Others(t) : ~(FilesService(u) /\ request[u].svc = s)
CategoryFree(t, k) ==
    \A u \in Others(t) : ~((EditsCategory(u) \/ DeletesCategory(u)) /\ request[u].cat = k)

Restricted(k) == vis[k] # Public
IsRestricted(s) == \E k \in filed[s] : Restricted(k)
DefaultsPublic == \A d \in defaults : ~IsRestricted(d[2])

\* Default views may hold restricted services: earlier writes may have overlapped.
Init ==
    /\ services \in SUBSET Services
    /\ categories \in SUBSET Categories
    /\ filed \in [Services -> SUBSET categories]
    /\ \A s \in Services : s \in services <=> filed[s] # {}
    /\ vis \in [Categories -> Visibilities \cup {Public}]
    /\ \A k \in Categories \ categories : vis[k] = Public
    /\ defaults \in SUBSET (Roles \X services)
    /\ audit = NoRequest
    /\ request = [t \in Txs |-> NoRequest]
    /\ at = [t \in Txs |-> "idle"]
    /\ next = [t \in Txs |-> Public]
    /\ seen = [t \in Txs |-> {}]
    /\ gone = [t \in Txs |-> {}]
    /\ added = [t \in Txs |-> {}]
    /\ purged = [t \in Txs |-> {}]
    /\ alone = [t \in Txs |-> FALSE]
    /\ begun = 0

Goto(t, pc) == at' = [at EXCEPT ![t] = pc]

-----------------------------------------------------------------------------
(***************************************************************************)
(* Begin, Commit and Rollback: inTx.                                       *)
(***************************************************************************)

\* An INSERT mints an id no row has, and no open transaction has read or inserted.
Fresh(r) ==
    /\ r.op = "CreateService" =>
        r.svc \notin services /\ \A u \in Txs : Op(u) = "CreateService" => request[u].svc # r.svc
    /\ r.op = "CreateCategory" =>
        /\ r.cat \notin categories
        /\ \A u \in Txs : Op(u) = "CreateCategory" \/ at[u] \in {"read", "counted"} => request[u].cat # r.cat

Begin(t, r) ==
    /\ at[t] = "idle"
    /\ begun < MaxTx
    /\ Fresh(r)
    /\ request' = [request EXCEPT ![t] = r]
    /\ Goto(t, IF r.op = "SetRoleDefaults" THEN "purge" ELSE "begun")
    /\ alone' = [u \in Txs |-> u = t /\ \A o \in Others(t) : at[o] = "idle"]
    /\ begun' = begun + 1
    /\ UNCHANGED <<committed, next, seen, gone, added, purged>>

\* The rows a transaction deleted are not those another DELETE found before.
Close(t) ==
    /\ Goto(t, "idle")
    /\ request' = [request EXCEPT ![t] = NoRequest]
    /\ next' = [next EXCEPT ![t] = Public]
    /\ gone' = [gone EXCEPT ![t] = {}]
    /\ added' = [added EXCEPT ![t] = {}]
    /\ purged' = [purged EXCEPT ![t] = {}]
    /\ UNCHANGED <<alone, begun>>

Commit(t) ==
    /\ at[t] = "done"
    /\ services' = IF Op(t) = "CreateService" THEN services \cup {request[t].svc} ELSE services
    /\ filed' = IF FilesService(t) THEN [filed EXCEPT ![request[t].svc] = request[t].cats] ELSE filed
    /\ categories' = CASE CreatesCategory(t) -> categories \cup {request[t].cat}
                       [] DeletesCategory(t) -> categories \ {request[t].cat}
                       [] OTHER -> categories
    /\ vis' = CASE CreatesCategory(t) -> [vis EXCEPT ![request[t].cat] = request[t].vis]
                [] EditsCategory(t) -> [vis EXCEPT ![request[t].cat] = next[t]]
                [] DeletesCategory(t) -> [vis EXCEPT ![request[t].cat] = Public]
                [] OTHER -> vis
    /\ defaults' = (defaults \ gone[t]) \cup added[t]
    /\ audit' = [request |-> request[t], purged |-> purged[t]]
    /\ seen' = [u \in Txs |-> IF u = t THEN {} ELSE seen[u] \ gone[t]]
    /\ Close(t)

Rollback(t) ==
    /\ at[t] # "idle"
    /\ seen' = [seen EXCEPT ![t] = {}]
    /\ UNCHANGED committed
    /\ Close(t)

-----------------------------------------------------------------------------
(***************************************************************************)
(* Services.                                                               *)
(***************************************************************************)

\* CreateService, and UpdateService up to setCategories.  The rows written are
\* the service and its pairs; a pair waits for a DELETE of its category and
\* fails once that has committed, but not for an UPDATE of it.
FileService(t) ==
    /\ at[t] = "begun"
    /\ Op(t) \in {"CreateService", "UpdateService"}
    /\ Op(t) = "UpdateService" => request[t].svc \in services
    /\ request[t].cats \subseteq categories
    /\ ServiceFree(t, request[t].svc)
    /\ \A u \in Others(t) : DeletesCategory(u) => request[u].cat \notin request[t].cats
    /\ Goto(t, IF Op(t) = "CreateService" THEN "done" ELSE "filed")
    /\ UNCHANGED <<committed, request, next, seen, gone, added, purged, alone, begun>>

\* ListServiceRestrictedCategories: only a restricted service is purged.
CheckRestricted(t) ==
    /\ at[t] = "filed"
    /\ Goto(t, IF \E k \in request[t].cats : Restricted(k) THEN "purge" ELSE "done")
    /\ UNCHANGED <<committed, request, next, seen, gone, added, purged, alone, begun>>

-----------------------------------------------------------------------------
(***************************************************************************)
(* Categories.                                                             *)
(***************************************************************************)

CreateCategory(t) ==
    /\ at[t] = "begun"
    /\ Op(t) = "CreateCategory"
    /\ Goto(t, "done")
    /\ UNCHANGED <<committed, request, next, seen, gone, added, purged, alone, begun>>

\* UpdateCategory reads the row it will write; an omitted visibility is what
\* that row has.
ReadCategory(t) ==
    /\ at[t] = "begun"
    /\ Op(t) = "UpdateCategory"
    /\ request[t].cat \in categories
    /\ next' = [next EXCEPT ![t] = IF request[t].vis = Keep THEN vis[request[t].cat] ELSE request[t].vis]
    /\ Goto(t, "read")
    /\ UNCHANGED <<committed, request, seen, gone, added, purged, alone, begun>>

\* Mutant: restricting a category leaves its services in the default views.
WriteCategoryOnly(t) ==
    /\ at[t] = "read"
    /\ request[t].cat \in categories
    /\ CategoryFree(t, request[t].cat)
    /\ Goto(t, "done")
    /\ UNCHANGED <<committed, request, next, seen, gone, added, purged, alone, begun>>

\* WriteCategory writes the row, and goes on to purge when the category ends up restricted.
WriteCategory(t) ==
    /\ at[t] = "read"
    /\ request[t].cat \in categories
    /\ CategoryFree(t, request[t].cat)
    /\ Goto(t, IF next[t] # Public THEN "purge" ELSE "done")
    /\ UNCHANGED <<committed, request, next, seen, gone, added, purged, alone, begun>>

CountServices(t) ==
    /\ at[t] = "begun"
    /\ Op(t) = "DeleteCategory"
    /\ request[t].cat \in categories
    /\ \A s \in services : request[t].cat \notin filed[s]
    /\ Goto(t, "counted")
    /\ UNCHANGED <<committed, request, next, seen, gone, added, purged, alone, begun>>

\* Mutant: the foreign key no longer restricts, and the count is trusted.
DeleteCounted(t) ==
    /\ at[t] = "counted"
    /\ request[t].cat \in categories
    /\ CategoryFree(t, request[t].cat)
    /\ Goto(t, "done")
    /\ UNCHANGED <<committed, request, next, seen, gone, added, purged, alone, begun>>

\* The DELETE waits for transactions that file services under the category, and
\* the foreign key refuses it when they have.
DeleteCategory(t) ==
    /\ at[t] = "counted"
    /\ request[t].cat \in categories
    /\ CategoryFree(t, request[t].cat)
    /\ \A u \in Others(t) : FilesService(u) => request[t].cat \notin request[u].cats
    /\ \A s \in services : request[t].cat \notin filed[s]
    /\ Goto(t, "done")
    /\ UNCHANGED <<committed, request, next, seen, gone, added, purged, alone, begun>>

\* Another transaction deleted it meanwhile: the DELETE finds no row, and so holds
\* nothing, and its audit row is committed all the same.
DeleteNothing(t) ==
    /\ at[t] = "counted"
    /\ request[t].cat \notin categories
    /\ audit' = [request |-> request[t], purged |-> purged[t]]
    /\ seen' = [seen EXCEPT ![t] = {}]
    /\ UNCHANGED <<services, filed, categories, vis, defaults>>
    /\ Close(t)

-----------------------------------------------------------------------------
(***************************************************************************)
(* The rows of role_defaults.                                              *)
(***************************************************************************)

\* What the DELETE a transaction has come to asks for, as committed now:
\* PurgeRoleDefaultsForService, ...ForCategory, ...NotIn, and DeleteRoleDefaults.
Doomed(t) ==
    {d \in defaults :
        \/ Op(t) = "UpdateService" /\ d[2] = request[t].svc
        \/ Op(t) = "UpdateCategory" /\ request[t].cat \in filed[d[2]]
        \/ /\ Op(t) = "SetRoleDefaults"
           /\ IF at[t] \in {"purge", "purging"} THEN d[1] \notin Configured ELSE d[1] = request[t].role}

IssueDelete(t) ==
    /\ at[t] \in {"purge", "clear"}
    /\ seen' = [seen EXCEPT ![t] = Doomed(t)]
    /\ Goto(t, IF at[t] = "purge" THEN "purging" ELSE "clearing")
    /\ UNCHANGED <<committed, request, next, gone, added, purged, alone, begun>>

\* It goes on when no other transaction holds one of the rows.
RowsFree(t) == \A u \in Others(t) : gone[u] \cap seen[t] = {}
RolesOf(rows) == {d[1] : d \in rows}

\* Mutant: the affected roles are read before the rows are deleted.
PurgeReadFirst(t) ==
    /\ at[t] = "purging"
    /\ \A u \in Others(t) : gone[u] \cap Doomed(t) = {}
    /\ gone' = [gone EXCEPT ![t] = Doomed(t)]
    /\ purged' = [purged EXCEPT ![t] = RolesOf(seen[t])]
    /\ seen' = [seen EXCEPT ![t] = {}]
    /\ Goto(t, IF Op(t) = "SetRoleDefaults" THEN "clear" ELSE "done")
    /\ UNCHANGED <<committed, request, next, added, alone, begun>>

\* DELETE ... RETURNING role: what it reports is what it deleted.
Purge(t) ==
    /\ at[t] = "purging"
    /\ RowsFree(t)
    /\ gone' = [gone EXCEPT ![t] = seen[t]]
    /\ purged' = [purged EXCEPT ![t] = RolesOf(seen[t])]
    /\ seen' = [seen EXCEPT ![t] = {}]
    /\ Goto(t, IF Op(t) = "SetRoleDefaults" THEN "clear" ELSE "done")
    /\ UNCHANGED <<committed, request, next, added, alone, begun>>

\* SetRoleDefaults, after its purge of stale roles: DeleteRoleDefaults.
ClearRole(t) ==
    /\ at[t] = "clearing"
    /\ RowsFree(t)
    /\ gone' = [gone EXCEPT ![t] = @ \cup seen[t]]
    /\ seen' = [seen EXCEPT ![t] = {}]
    /\ Goto(t, IF request[t].ids = {} THEN "done" ELSE "adding")
    /\ UNCHANGED <<committed, request, next, added, purged, alone, begun>>

\* Then one lookup, one check and one INSERT per service.  The INSERT waits for
\* an open transaction that wrote the same key, and fails on a committed one.
AddRoleDefault(t, s) ==
    LET row == <<request[t].role, s>> IN
    /\ at[t] = "adding"
    /\ s \in request[t].ids \cap services
    /\ ~IsRestricted(s)
    /\ row \notin (defaults \ gone[t]) \cup added[t]
    /\ \A u \in Others(t) : row \notin gone[u] \cup added[u]
    /\ added' = [added EXCEPT ![t] = @ \cup {row}]
    /\ Goto(t, IF Cardinality(added[t]) + 1 = Cardinality(request[t].ids) THEN "done" ELSE "adding")
    /\ UNCHANGED <<committed, request, next, seen, gone, purged, alone, begun>>

-----------------------------------------------------------------------------
Next ==
    \E t \in Txs :
        \/ \E r \in Requests : Begin(t, r)
        \/ FileService(t)
        \/ CheckRestricted(t)
        \/ CreateCategory(t)
        \/ ReadCategory(t)
        \/ WriteCategory(t)
        \/ CountServices(t)
        \/ DeleteCategory(t)
        \/ DeleteNothing(t)
        \/ IssueDelete(t)
        \/ Purge(t)
        \/ ClearRole(t)
        \/ \E s \in Services : AddRoleDefault(t, s)
        \/ Commit(t)
        \/ Rollback(t)

Spec == Init /\ [][Next]_vars

-----------------------------------------------------------------------------
(***************************************************************************)
(* Properties.                                                             *)
(***************************************************************************)

Stages == {"idle", "begun", "filed", "read", "counted", "purge", "purging", "clear", "clearing",
           "adding", "done"}
Rows == Roles \X Services

\* Every variable keeps its shape: above all, what ends up in
\* categories.visibility is a visibility, never the request's "left out".
TypeOK ==
    /\ services \subseteq Services /\ categories \subseteq Categories
    /\ filed \in [Services -> SUBSET Categories]
    /\ vis \in [Categories -> Visibilities \cup {Public}]
    /\ defaults \subseteq Rows
    /\ request \in [Txs -> Requests \cup {NoRequest}]
    /\ at \in [Txs -> Stages]
    /\ next \in [Txs -> Visibilities \cup {Public}]
    /\ seen \in [Txs -> SUBSET Rows] /\ gone \in [Txs -> SUBSET Rows]
    /\ added \in [Txs -> SUBSET Rows] /\ purged \in [Txs -> SUBSET Roles]
    /\ begun \in 0..MaxTx

\* Every service has a category, and every category it is filed under exists,
\* however filing services and deleting categories interleave (DeleteCategory:
\* "every service must carry at least one category").
EveryServiceIsFiled ==
    \A s \in services : filed[s] # {} /\ filed[s] \subseteq categories

\* A write no other overlapped does what its comment promises, whatever overlapping
\* writes did before: no default view keeps a service or category it leaves
\* restricted, the role it set has exactly the list, public throughout, unconfigured
\* roles have no rows, and a visibility left out stays what it was.
QuietWritesKeepPromises ==
    [][\A t \in Txs : alone[t] /\ Commit(t) =>
        LET r == request[t] IN
        /\ r.op = "UpdateService" /\ (\E k \in r.cats : Restricted(k)) => \A d \in defaults' : d[2] # r.svc
        /\ r.op = "UpdateCategory" /\ vis'[r.cat] # Public => \A d \in defaults' : r.cat \notin filed'[d[2]]
        /\ r.op = "UpdateCategory" /\ r.vis = Keep => vis' = vis
        /\ r.op = "SetRoleDefaults" =>
            /\ {d \in defaults' : d[1] = r.role} = {r.role} \X r.ids
            /\ \A d \in defaults' : d[1] \in Configured
            /\ \A s \in r.ids : ~IsRestricted(s)]_vars

\* No service leaves a default view without an audit row saying so: the role was
\* being set, or is among the purged roles of the newest row (admin.sql: "One
\* statement, so the read and the delete cannot disagree").
PurgesAreReported ==
    [][\A d \in defaults \ defaults' :
        \/ audit'.request.op = "SetRoleDefaults" /\ audit'.request.role = d[1]
        \/ d[1] \in audit'.purged]_vars

\* No write puts a restricted service into a default view, or restricts one that is
\* there (admin.sql: "default views stay public-only").  It does not hold: neither
\* of two open transactions sees the row the other one's check or purge is about.
DefaultsStayPublic ==
    [][DefaultsPublic => DefaultsPublic']_vars

\* An update that leaves the visibility out never changes what is committed
\* (admin.go: a caller that omits it "must not un-restrict the category").  It
\* does not hold: the row is read without a lock, and written back whole.
OmittedVisibilityIsKept ==
    [][\A t \in Txs : Commit(t) /\ request[t].op = "UpdateCategory" /\ request[t].vis = Keep
        => vis' = vis]_vars
=============================================================================
