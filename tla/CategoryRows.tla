---------------------------- MODULE CategoryRows ----------------------------
(***************************************************************************)
(* The category section (CategoriesAdmin.tsx): the rows, the order held    *)
(* locally over a move, the form that creates and renames, the dialog that *)
(* deletes, and the list of the server they are filtered against.  Every   *)
(* write that succeeds refetches the list (admin-hooks.ts).  Left out:     *)
(* labels, visibility groups, error texts and the focus.                   *)
(* External: the endpoints of the categories.                              *)
(***************************************************************************)
EXTENDS AdminNav

CONSTANTS Slugs
NoSlug == ""
ASSUME CategoryAssumption == NoSlug \notin Slugs /\ IsFiniteSet(Slugs)

VARIABLES
    categories,         \* the server's, in order
    catalog,            \* the list the screens have
    refetch,            \* the fetch of the list: none, asked, or what it read
    behind,             \* ghost: something changed that no refetch was started for
    order,              \* the order held since a move
    draft,              \* the form; editing is the slug of the row it edits
    confirmDelete,
    catWrites

categoryData == <<categories, catalog, refetch, behind>>
categoryScreen == <<order, draft, confirmDelete>>
categoryVars == <<categoryData, categoryScreen, catWrites>>

\* No lists of slugs.
NoOrder == <<NoSlug>>
NoFetch == <<NoSlug>>
Asked == <<NoSlug, NoSlug>>
EmptyDraft == [editing |-> NoSlug, slug |-> NoSlug]
Kinds == {"order", "create", "rename", "delete"}
Rankings == {l \in UNION {[1..n -> Slugs] : n \in 0..Cardinality(Slugs)} : IsInjective(l)}

\* The held order, filtered against the list, with what is new to it at the end.
\* Mutant: what is new to it is not shown.
RowsHeld == IF order = NoOrder THEN catalog ELSE KeptOf(order, ToSet(catalog))
Rows ==
    IF order = NoOrder THEN catalog
    ELSE KeptOf(order, ToSet(catalog)) \o LeftOf(catalog, ToSet(order))

-----------------------------------------------------------------------------
(* Writes *)

\* A write is sent; the one of its kind before it is no longer heard of.
Send(kind, of, to) ==
    /\ section = "categories"
    /\ Spend
    /\ catWrites' = Unheard(catWrites, {kind})
         \cup {[kind |-> kind, of |-> of, to |-> to, state |-> "sent", heard |-> TRUE, id |-> budget]}
    /\ UNCHANGED <<section, categoryData>>

Move(i, j) ==
    /\ {i, j} \subseteq DOMAIN Rows /\ (j = i + 1 \/ i = j + 1)
    /\ order' = [Rows EXCEPT ![i] = Rows[j], ![j] = Rows[i]]
    /\ Send("order", NoSlug, order')
    /\ UNCHANGED <<draft, confirmDelete>>

\* Nothing keeps the form from being sent twice.
SubmitCategory ==
    /\ draft.slug # NoSlug
    /\ IF draft.editing # NoSlug THEN Send("rename", draft.editing, <<draft.slug>>)
       ELSE Send("create", NoSlug, <<draft.slug>>)
    /\ UNCHANGED categoryScreen

ConfirmDelete ==
    /\ confirmDelete # NoSlug
    /\ Send("delete", confirmDelete, <<>>)
    /\ UNCHANGED categoryScreen

\* What the server makes of a write it accepts; an order has to be a permutation.
Acceptable(w) ==
    CASE w.kind = "order" -> ToSet(w.to) = ToSet(categories)
      [] w.kind = "create" -> w.to[1] \notin ToSet(categories)
      [] w.kind = "rename" -> w.of \in ToSet(categories) /\ w.to[1] \notin ToSet(categories) \ {w.of}
      [] w.kind = "delete" -> w.of \in ToSet(categories)
After(w) ==
    CASE w.kind = "order" -> w.to
      [] w.kind = "create" -> categories \o w.to
      [] w.kind = "rename" -> [i \in DOMAIN categories |->
                                 IF categories[i] = w.of THEN w.to[1] ELSE categories[i]]
      [] w.kind = "delete" -> LeftOf(categories, {w.of})

ServeCategory(w) ==
    /\ w.state = "sent"
    /\ \/ Acceptable(w) /\ categories' = After(w) /\ catWrites' = InState(catWrites, w, "stored")
       \/ UNCHANGED categories /\ catWrites' = InState(catWrites, w, "refused")
    /\ UNCHANGED <<nav, catalog, refetch, behind, categoryScreen>>

Invalidates(w) == TRUE

\* The answer: a success refetches the list and closes what the write came from, a
\* failure drops the held order.  An answer can be lost, which is a failure.
CategoryAnswered(w) ==
    /\ w.state # "sent"
    /\ catWrites' = catWrites \ {w}
    /\ \E ok \in {w.state = "stored", FALSE} :
        /\ refetch' = IF ok /\ Invalidates(w) THEN Asked ELSE refetch
        /\ behind' = IF ok THEN (behind /\ ~Invalidates(w)) ELSE (behind \/ w.state = "stored")
        /\ draft' = IF ok /\ w.heard /\ w.kind \in {"create", "rename"} THEN EmptyDraft ELSE draft
        /\ order' = IF ~ok /\ w.heard /\ w.kind = "order" THEN NoOrder ELSE order
        /\ confirmDelete' = IF w.heard /\ w.kind = "delete" THEN NoSlug ELSE confirmDelete
    /\ UNCHANGED <<nav, categories, catalog>>

OtherAdminEdits ==
    /\ Spend
    /\ \E s \in Slugs :
        categories' = IF s \in ToSet(categories) THEN LeftOf(categories, {s}) ELSE Append(categories, s)
    /\ behind' = TRUE
    /\ UNCHANGED <<section, catalog, refetch, categoryScreen, catWrites>>

-----------------------------------------------------------------------------
(* The list, the form and the dialog *)

fetching == <<nav, categories, categoryScreen, catWrites>>

\* The window gets the focus, or the admin screen is opened.
RefetchCategories ==
    /\ refetch = NoFetch
    /\ refetch' = Asked /\ behind' = FALSE
    /\ UNCHANGED <<fetching, catalog>>

ServeCategories ==
    /\ refetch = Asked
    /\ refetch' = categories
    /\ UNCHANGED <<fetching, catalog, behind>>

CategoriesArrive ==
    /\ refetch \notin {NoFetch, Asked}
    /\ catalog' = refetch /\ refetch' = NoFetch
    /\ UNCHANGED <<fetching, behind>>

CategoriesFail ==
    /\ refetch # NoFetch
    /\ refetch' = NoFetch /\ behind' = TRUE
    /\ UNCHANGED <<fetching, catalog>>

\* A row's "Bearbeiten" fills the form with it.
EditRow(s) ==
    /\ section = "categories" /\ s \in ToSet(Rows)
    /\ draft' = [editing |-> s, slug |-> s]
    /\ UNCHANGED <<nav, categoryData, order, confirmDelete, catWrites>>

TypeSlug(s) ==
    /\ section = "categories"
    /\ draft' = [draft EXCEPT !.slug = s]
    /\ UNCHANGED <<nav, categoryData, order, confirmDelete, catWrites>>

CancelEdit ==
    /\ draft.editing # NoSlug
    /\ draft' = EmptyDraft
    /\ UNCHANGED <<nav, categoryData, order, confirmDelete, catWrites>>

\* "Löschen" of a row, or the dialog is closed.
AskDelete(s) ==
    /\ section = "categories" /\ s \in ToSet(Rows) \cup {NoSlug}
    /\ (s = NoSlug) # (confirmDelete = NoSlug)
    /\ confirmDelete' = s
    /\ UNCHANGED <<nav, categoryData, order, draft, catWrites>>

\* A section is opened or left: the screen is mounted anew or gone.
CategoriesFollowSection ==
    /\ order' = NoOrder /\ draft' = EmptyDraft /\ confirmDelete' = NoSlug
    /\ catWrites' = Unheard(catWrites, Kinds)
    /\ UNCHANGED categoryData

-----------------------------------------------------------------------------
CategoriesInit ==
    /\ categories \in {l \in Rankings : Len(l) < Cardinality(Slugs)}
    /\ catalog = <<>> /\ refetch = Asked /\ behind = FALSE
    /\ order = NoOrder /\ draft = EmptyDraft /\ confirmDelete = NoSlug
    /\ catWrites = {}

CategoriesNext ==
    \/ SubmitCategory \/ ConfirmDelete \/ OtherAdminEdits \/ CancelEdit
    \/ RefetchCategories \/ ServeCategories \/ CategoriesArrive \/ CategoriesFail
    \/ \E i, j \in DOMAIN Rows : Move(i, j)
    \/ \E w \in catWrites : ServeCategory(w) \/ CategoryAnswered(w)
    \/ \E s \in Slugs \cup {NoSlug} : EditRow(s) \/ TypeSlug(s) \/ AskDelete(s)

-----------------------------------------------------------------------------
CategoriesTypeOK ==
    /\ categories \in Rankings /\ catalog \in Rankings /\ behind \in BOOLEAN
    /\ refetch \in Rankings \cup {NoFetch, Asked}
    /\ order \in Rankings \cup {NoOrder}
    /\ draft \in [editing : Slugs \cup {NoSlug}, slug : Slugs \cup {NoSlug}]
    /\ confirmDelete \in Slugs \cup {NoSlug}
    /\ catWrites \subseteq [kind : Kinds, of : Slugs \cup {NoSlug}, to : Rankings,
                           state : {"sent", "stored", "refused"}, heard : BOOLEAN, id : 0..MaxWrites]

\* When every write and fetch is answered, the rows are the categories of the server,
\* each of them once, whatever order is held, and in the server's order if none is
\* (CategoriesAdmin.tsx:62-65).
RowsAreTheCategories ==
    (catWrites = {} /\ refetch = NoFetch /\ ~behind) =>
        /\ ToSet(Rows) = ToSet(categories) /\ IsInjective(Rows)
        /\ order = NoOrder => Rows = categories

=============================================================================
