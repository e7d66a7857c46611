---------------------------- MODULE CatalogLoad ----------------------------
(***************************************************************************)
(* catalog.Load against a catalogue that admins keep editing.  Load reads  *)
(* categories, then active services, then the pairs filing active services *)
(* under categories, in three statements and no transaction; each sees the *)
(* catalogue committed by then.  The pairs name a category by its slug,    *)
(* and what is restricted is looked up by slug in the categories read      *)
(* first (CatalogView).                                                    *)
(*                                                                         *)
(* An admin write is one step here: Load sees only what is committed.      *)
(***************************************************************************)
EXTENDS Naturals, CatalogView

CONSTANTS
    ServiceIds, CategoryIds, Slugs, Visibilities,
    NoSlug,         \* slug of a category that does not exist
    NoSnapshot,     \* nothing assembled yet
    MaxWrites       \* bound: admin writes that may overlap a load

ASSUME LoadAssumption ==
    /\ NoSlug \notin Slugs
    /\ Public \notin Visibilities
    /\ MaxWrites \in Nat

VARIABLES
    svc,            \* the tables services and service_categories
    cat,            \* the table categories
    stage,          \* how many of Load's statements have run
    got,            \* what they returned
    snapshot,       \* the snapshot assembled from that
    writes,         \* how many admin writes committed
    (* history, since Load began *)
    quiet,          \* no write committed
    catQuiet,       \* no category write committed
    restricted,     \* services that were active and restricted all along
    hidden          \* services a public reader was never entitled to see

loadVars == <<svc, cat, stage, got, snapshot, writes, quiet, catQuiet, restricted, hidden>>

Rows == [state : {"none", "active", "inactive"}, cats : SUBSET CategoryIds, beta : BOOLEAN]
NoService == [state |-> "none", cats |-> {}, beta |-> FALSE]
CategoryRows == [slug : Slugs \cup {NoSlug}, vis : Visibilities \cup {Public}]
NoCategory == [slug |-> NoSlug, vis |-> Public]

Existing == {k \in CategoryIds : cat[k].slug # NoSlug}
Active == {s \in ServiceIds : svc[s].state = "active"}
SlugFree(slug) == \A k \in CategoryIds : cat[k].slug # slug
Restriction(s) == {cat[k].vis : k \in svc[s].cats} \ {Public}

\* The rule the admins edit for, on the tables themselves.
Entitled(s, held, showBeta) ==
    /\ s \in Active
    /\ svc[s].beta => showBeta
    /\ Restriction(s) \subseteq held

RestrictedNow == {s \in Active : Restriction(s) # {}}
HiddenNow == {s \in ServiceIds : ~Entitled(s, {}, FALSE)}

\* The constraints every committed catalogue satisfies: a service has a
\* category (validated), pairs refer to categories, slugs are unique.
Consistent ==
    /\ \A s \in ServiceIds :
        IF svc[s].state = "none" THEN svc[s] = NoService
        ELSE svc[s].cats # {} /\ svc[s].cats \subseteq Existing
    /\ \A k \in CategoryIds : cat[k].slug = NoSlug => cat[k] = NoCategory
    /\ \A j, k \in Existing : cat[j].slug = cat[k].slug => j = k

NothingRead == [categories |-> {}, services |-> {}]

LoadInit ==
    /\ svc \in [ServiceIds -> Rows]
    /\ cat \in [CategoryIds -> CategoryRows]
    /\ Consistent
    /\ stage = 0
    /\ got = NothingRead
    /\ snapshot = NoSnapshot
    /\ writes = 0
    /\ quiet = TRUE
    /\ catQuiet = TRUE
    /\ restricted = {}
    /\ hidden = {}

-----------------------------------------------------------------------------
(***************************************************************************)
(* Load.                                                                   *)
(***************************************************************************)

\* What each statement returns, and the services with the slugs paired to them.
CategoryList == {[slug |-> cat[k].slug, vis |-> cat[k].vis] : k \in Existing}
ServiceList == {[id |-> s, beta |-> svc[s].beta] : s \in Active}
PairedWith(s) == IF s \in Active THEN {cat[k].slug : k \in svc[s].cats} ELSE {}
Filed(rows) == {[id |-> r.id, cats |-> PairedWith(r.id), beta |-> r.beta] : r \in rows}

\* ListCategories.
ReadCategories ==
    /\ stage = 0
    /\ got' = [got EXCEPT !.categories = CategoryList]
    /\ stage' = 1
    /\ snapshot' = NoSnapshot
    /\ quiet' = TRUE
    /\ catQuiet' = TRUE
    /\ restricted' = RestrictedNow
    /\ hidden' = HiddenNow
    /\ UNCHANGED <<svc, cat, writes>>

\* ListActiveServices.
ReadServices ==
    /\ stage = 1
    /\ got' = [got EXCEPT !.services = ServiceList]
    /\ stage' = 2
    /\ UNCHANGED <<svc, cat, snapshot, writes, quiet, catQuiet, restricted, hidden>>

\* ListActiveServiceCategories, and the assembly of the snapshot.
ReadPairs ==
    /\ stage = 2
    /\ snapshot' = NewSnapshot(Filed(got.services), got.categories)
    /\ got' = NothingRead
    /\ stage' = 0
    /\ UNCHANGED <<svc, cat, writes, quiet, catQuiet, restricted, hidden>>

-----------------------------------------------------------------------------
(***************************************************************************)
(* Admin writes, as they commit.                                           *)
(***************************************************************************)

Overlaps == stage # 0

Written ==
    /\ Overlaps
    /\ writes < MaxWrites
    /\ writes' = writes + 1
    /\ quiet' = FALSE
    /\ restricted' = restricted \cap RestrictedNow'
    /\ hidden' = hidden \cap HiddenNow'
    /\ UNCHANGED <<stage, got, snapshot>>

WriteService(s, row) ==
    /\ svc' = [svc EXCEPT ![s] = row]
    /\ UNCHANGED <<cat, catQuiet>>
    /\ Written

CreateService(s, cats, beta) ==
    /\ svc[s].state = "none"
    /\ cats # {} /\ cats \subseteq Existing
    /\ WriteService(s, [state |-> "active", cats |-> cats, beta |-> beta])

UpdateService(s, cats, beta) ==
    /\ svc[s].state # "none"
    /\ cats # {} /\ cats \subseteq Existing
    /\ WriteService(s, [svc[s] EXCEPT !.cats = cats, !.beta = beta])

SoftDeleteService(s) ==
    /\ svc[s].state = "active"
    /\ WriteService(s, [svc[s] EXCEPT !.state = "inactive"])

WriteCategory(k, row) ==
    /\ cat' = [cat EXCEPT ![k] = row]
    /\ catQuiet' = FALSE
    /\ UNCHANGED svc
    /\ Written

CreateCategory(k, slug, vis) ==
    /\ cat[k].slug = NoSlug
    /\ SlugFree(slug)
    /\ WriteCategory(k, [slug |-> slug, vis |-> vis])

UpdateCategory(k, slug, vis) ==
    /\ k \in Existing
    /\ slug # cat[k].slug => SlugFree(slug)
    /\ WriteCategory(k, [slug |-> slug, vis |-> vis])

DeleteCategory(k) ==
    /\ k \in Existing
    /\ \A s \in ServiceIds : k \notin svc[s].cats
    /\ WriteCategory(k, NoCategory)

LoadNext ==
    \/ ReadCategories
    \/ ReadServices
    \/ ReadPairs
    \/ \E s \in ServiceIds :
        \/ \E cats \in SUBSET CategoryIds, beta \in BOOLEAN :
            CreateService(s, cats, beta) \/ UpdateService(s, cats, beta)
        \/ SoftDeleteService(s)
    \/ \E k \in CategoryIds :
        \/ \E slug \in Slugs, vis \in Visibilities \cup {Public} :
            CreateCategory(k, slug, vis) \/ UpdateCategory(k, slug, vis)
        \/ DeleteCategory(k)

LoadSpec == LoadInit /\ [][LoadNext]_loadVars

-----------------------------------------------------------------------------
(***************************************************************************)
(* Properties.                                                             *)
(***************************************************************************)

\* Every variable keeps its shape, and every admin write of internal/service
\* leaves a consistent catalogue: categories in use are not deleted.
LoadTypeOK ==
    /\ svc \in [ServiceIds -> Rows]
    /\ cat \in [CategoryIds -> CategoryRows]
    /\ Consistent
    /\ stage \in 0..2
    /\ got.categories \subseteq Categories(Slugs, Visibilities)
    /\ got.services \subseteq [id : ServiceIds, beta : BOOLEAN]
    /\ writes \in 0..MaxWrites
    /\ restricted \subseteq ServiceIds /\ hidden \subseteq ServiceIds

Loaded == snapshot # NoSnapshot

Shown(held, showBeta) == {v.id : v \in VisibleTo(snapshot, held, showBeta).services}

\* A load no write overlapped gives every reader exactly the services the tables
\* entitle them to: the lookup by slug, the short cuts of VisibleTo and "restricted
\* wins" add up to the rule on category ids (docs/specs/service-visibility.md).
QuietLoadIsExact ==
    Loaded /\ quiet =>
        \A held \in SUBSET Visibilities, showBeta \in BOOLEAN :
            Shown(held, showBeta) = {s \in ServiceIds : Entitled(s, held, showBeta)}

\* Also in a snapshot torn by overlapping writes, every category a reader is
\* offered has a service that reader sees, and a restricted one is held: no
\* filter leads to an empty page (docs/specs/empty-facets.md).
NoCategoryWithoutService ==
    Loaded =>
        \A held \in SUBSET Visibilities, showBeta \in BOOLEAN :
            LET view == VisibleTo(snapshot, held, showBeta) IN
            \A c \in view.categories :
                /\ \E v \in view.services : c.slug \in v.cats
                /\ c.vis \in held \cup {Public}

\* Service writes alone, however they overlap the load, do not show a public
\* reader a service that stayed active and restricted all along: the categories
\* are read before the pairs, and both say what they said throughout.
RestrictedStaysHidden ==
    Loaded /\ catQuiet => Shown({}, FALSE) \cap restricted = {}

\* No snapshot shows a public reader a service that no catalogue committed since
\* the load began entitled them to.  It does not hold: a service deactivated
\* between the second and the third statement arrives without its categories, and
\* without them nothing restricts it; renaming a category has the same effect.
NeverShownWhatWasHidden ==
    Loaded => Shown({}, FALSE) \cap hidden = {}
=============================================================================
