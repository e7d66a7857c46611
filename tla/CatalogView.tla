---------------------------- MODULE CatalogView ----------------------------
(***************************************************************************)
(* How one reader sees the catalogue (internal/catalog/catalog.go): the    *)
(* snapshot Load assembles, the view prepared once for the public reader,  *)
(* and VisibleTo, which narrows the snapshot to what a reader may see.     *)
(*                                                                         *)
(* A service is its id, the slugs of its categories and whether its tag is *)
(* beta; a category its slug and the visibility slug restricting it.       *)
(* Lists are sets: nothing here depends on their order.                    *)
(***************************************************************************)
CONSTANT Public     \* the empty visibility slug

Services(Ids, Slugs) == [id : Ids, cats : SUBSET Slugs, beta : BOOLEAN]
Categories(Slugs, Visibilities) == [slug : Slugs, vis : Visibilities \cup {Public}]

\* Mutant: a service is hidden only if every restricted category is missing.
VisibleInSome(svc, categories, held, showBeta) ==
    /\ svc.beta => showBeta
    /\ LET restricted == {c \in categories : c.slug \in svc.cats /\ c.vis # Public} IN
       restricted = {} \/ \E c \in restricted : c.vis \in held

\* Restricted wins: every restricted category of the service must be held.
Visible(svc, categories, held, showBeta) ==
    /\ svc.beta => showBeta
    /\ \A c \in categories : c.slug \in svc.cats /\ c.vis # Public => c.vis \in held

Populated(categories, services) ==
    {c \in categories : \E svc \in services : c.slug \in svc.cats}

\* Mutant: a category is kept although the reader sees none of its services.
NarrowServicesOnly(services, categories, held, showBeta) ==
    [services   |-> {svc \in services : Visible(svc, categories, held, showBeta)},
     categories |-> Populated(categories, services)]

\* The services the reader sees, and the categories one of those is filed under.
Narrow(services, categories, held, showBeta) ==
    LET seen == {svc \in services : Visible(svc, categories, held, showBeta)} IN
    [services |-> seen, categories |-> Populated(categories, seen)]

IsRestricted(categories) == \E c \in categories : c.vis # Public
HasBeta(services) == \E svc \in services : svc.beta
HasEmptyCategory(services, categories) == Populated(categories, services) # categories

\* Mutant: restricted categories do not count when the public view is prepared.
NewSnapshotBetaOnly(services, categories) ==
    [services   |-> services,
     categories |-> categories,
     restricted |-> IsRestricted(categories),
     hasBeta    |-> HasBeta(services),
     public     |-> IF HasBeta(services) \/ HasEmptyCategory(services, categories)
                    THEN Narrow(services, categories, {}, FALSE)
                    ELSE [services |-> services, categories |-> categories]]

NewSnapshot(services, categories) ==
    [services   |-> services,
     categories |-> categories,
     restricted |-> IsRestricted(categories),
     hasBeta    |-> HasBeta(services),
     public     |-> IF \/ IsRestricted(categories)
                       \/ HasBeta(services)
                       \/ HasEmptyCategory(services, categories)
                    THEN Narrow(services, categories, {}, FALSE)
                    ELSE [services |-> services, categories |-> categories]]

VisibleTo(snap, held, showBeta) ==
    IF \/ ~snap.restricted /\ ~snap.hasBeta
       \/ held = {} /\ ~showBeta
    THEN snap.public
    ELSE Narrow(snap.services, snap.categories, held, showBeta)
=============================================================================
