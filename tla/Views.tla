------------------------------- MODULE Views -------------------------------
(***************************************************************************)
(* The views of the launcher: the tab, the facet and the admin screen, in  *)
(* the history of the browser (view-history.ts, view-url.ts), the edit mode*)
(* of the favorites and the search they give way to (Dashboard.tsx).       *)
(*                                                                         *)
(* A view React is about to paint may be one the page cannot show: what is *)
(* set during render corrects it before anything else happens, so that the *)
(* user acts on a settled view only.  External: the browser's history, the *)
(* width of the window, and what the queries answer.                       *)
(***************************************************************************)
EXTENDS Naturals, Sequences

CONSTANTS
    Slugs,              \* category slugs a link may carry
    MaxEntries          \* bound: entries of the history

NoSlug == "none"     \* no category in the address

ASSUME ViewsAssumption == MaxEntries \in Nat \ {0} /\ NoSlug \notin Slugs

VARIABLES
    entries, at,        \* the addresses in the history and where the user is
    view,               \* the view in the state of the dashboard
    mobile,             \* the width is below the breakpoint
    searching,          \* the query is not blank
    searchOpen,         \* the phone's search field is revealed
    arrangeRequested,
    me,                 \* the user, as far as the views depend on it
    catalog,            \* what the facets of the catalog are, once it is loaded
    favorites           \* there is a favorite

history == <<entries, at>>
search == <<searching, searchOpen>>
data == <<me, catalog, favorites>>
vars == <<entries, at, view, mobile, searching, searchOpen, arrangeRequested, me, catalog, favorites>>

-----------------------------------------------------------------------------
(* Views and addresses *)

All == [kind |-> "all", slug |-> NoSlug]
Maintenance == [kind |-> "maintenance", slug |-> NoSlug]
Beta == [kind |-> "beta", slug |-> NoSlug]
Category(s) == [kind |-> "category", slug |-> s]
Filters == {All, Maintenance, Beta} \cup {Category(s) : s \in Slugs}
Tabs == {"favoriten", "dienste"}
AllViews == [tab : Tabs, filter : Filters, admin : BOOLEAN]

\* The parameters of an address; a link may contradict itself.
Addresses == [cat : Slugs \cup {NoSlug}, filter : {"", "wartung", "beta"}, tab : Tabs, admin : BOOLEAN]

\* Mutant: a view of the Dienste tab is named by its tab alone.
ViewToURLTabFirst(v) ==
    [cat |-> IF v.tab = "dienste" THEN NoSlug ELSE v.filter.slug,
     filter |-> CASE v.filter = Maintenance -> "wartung" [] v.filter = Beta -> "beta" [] OTHER -> "",
     tab |-> v.tab, admin |-> v.admin]
ViewToURL(v) ==
    [cat |-> v.filter.slug,
     filter |-> CASE v.filter = Maintenance -> "wartung" [] v.filter = Beta -> "beta" [] OTHER -> "",
     tab |-> IF v.filter = All THEN v.tab ELSE "favoriten",
     admin |-> v.admin]

ParseViewURL(u) ==
    LET filter == CASE u.cat # NoSlug -> Category(u.cat)
                    [] u.cat = NoSlug /\ u.filter = "wartung" -> Maintenance
                    [] u.cat = NoSlug /\ u.filter = "beta" -> Beta
                    [] OTHER -> All
    IN  [tab |-> IF filter # All THEN "dienste" ELSE u.tab, filter |-> filter, admin |-> u.admin]

-----------------------------------------------------------------------------
(* What the page shows *)

NotLoaded == [loaded |-> FALSE, slugs |-> {}, beta |-> FALSE, maintenance |-> FALSE]
Catalogs == {NotLoaded} \cup [loaded : {TRUE}, slugs : SUBSET Slugs, beta : BOOLEAN, maintenance : BOOLEAN]
Loaded == catalog.loaded

ShowMaintenanceFacet == catalog.maintenance
ShowBetaFacet == me.beta /\ catalog.beta

\* The facets the page offers, but for "Alle".
Pills == {Category(s) : s \in catalog.slugs}
         \cup {f \in {Maintenance} : ShowMaintenanceFacet} \cup {f \in {Beta} : ShowBetaFacet}

Arranging == arrangeRequested /\ view.tab = "favoriten" /\ me.manual /\ favorites
PhoneSearchOpen == mobile /\ (searchOpen \/ searching)
AdminOpen == view.admin /\ me.admin

ShowsTabs == ~AdminOpen /\ ~Arranging
ShowsArrange == ~AdminOpen /\ ~searching /\ view.tab = "favoriten" /\ Arranging
ShowsResults == ~AdminOpen /\ searching
ShowsPills == ~AdminOpen /\ ~mobile /\ view.tab = "dienste" /\ ~searching
ShowsSortMenu == ShowsTabs /\ ~searching /\ view.tab = "favoriten"
ShowsField == ~AdminOpen /\ (~mobile \/ PhoneSearchOpen)

\* The facet on screen is one the page no longer offers.
\* Mutant: the facet of the beta services outlives them.
StaleFacetButBeta ==
    \/ view.filter.kind = "category" /\ Loaded /\ view.filter.slug \notin catalog.slugs
    \/ view.filter = Beta /\ ~me.beta
    \/ view.filter = Maintenance /\ Loaded /\ ~catalog.maintenance
StaleFacet ==
    \/ view.filter.kind = "category" /\ Loaded /\ view.filter.slug \notin catalog.slugs
    \/ view.filter = Beta /\ (~me.beta \/ (Loaded /\ ~catalog.beta))
    \/ view.filter = Maintenance /\ Loaded /\ ~catalog.maintenance

\* The view the render corrects this one to, or this one.
Unfiltered == [view EXCEPT !.filter = All]
\* Mutant: on a phone the tab of the facet is corrected, not the facet.
CorrectedInVain ==
    CASE mobile /\ view.filter # All -> [view EXCEPT !.tab = "dienste"]
      [] view.admin /\ ~me.admin -> [view EXCEPT !.admin = FALSE]
      [] StaleFacet -> Unfiltered
      [] OTHER -> view
Corrected ==
    IF mobile /\ view.filter # All THEN Unfiltered
    ELSE IF view.admin /\ ~me.admin THEN [view EXCEPT !.admin = FALSE]
    ELSE IF StaleFacet THEN Unfiltered ELSE view
Valid ==
    /\ ~mobile \/ view.filter = All
    /\ ~view.admin \/ me.admin
    /\ ~StaleFacet

Init ==
    /\ entries \in [{1} -> Addresses] /\ at = 1
    /\ view = ParseViewURL(entries[at])
    /\ mobile \in BOOLEAN /\ searching = FALSE /\ searchOpen = FALSE
    /\ arrangeRequested = FALSE
    /\ me \in [admin : BOOLEAN, beta : BOOLEAN, manual : BOOLEAN]
    /\ catalog = NotLoaded /\ favorites = FALSE

-----------------------------------------------------------------------------
(* view-history.ts *)

Navigate(next) ==
    IF next = view THEN UNCHANGED <<history, view>>
    ELSE /\ at < MaxEntries
         /\ entries' = Append(SubSeq(entries, 1, at), ViewToURL(next))
         /\ at' = at + 1 /\ view' = next

\* Mutant: a correction is an entry of its own.
ReplacePushes(next) ==
    /\ entries' = Append(SubSeq(entries, 1, at), ViewToURL(next))
    /\ at' = at + 1 /\ view' = next
Replace(next) ==
    /\ entries' = [entries EXCEPT ![at] = ViewToURL(next)]
    /\ view' = next /\ UNCHANGED at

ClearSearch == searching' = FALSE /\ searchOpen' = FALSE

\* Back and Forward, by any number of entries.
PopState ==
    /\ Valid
    /\ at' \in DOMAIN entries \ {at}
    /\ view' = ParseViewURL(entries[at'])
    /\ ClearSearch
    /\ UNCHANGED <<entries, mobile, arrangeRequested, data>>

\* What is set during render, before the page is painted.
Correct ==
    /\ ~Valid
    /\ Replace(Corrected)
    /\ UNCHANGED <<mobile, search, arrangeRequested, data>>

-----------------------------------------------------------------------------
(* What the user does *)

OnTab ==
    /\ Valid /\ ShowsTabs
    /\ \E t \in Tabs : Navigate([tab |-> t, filter |-> All, admin |-> FALSE])
    /\ ClearSearch
    /\ UNCHANGED <<mobile, arrangeRequested, data>>

SelectFilter ==
    /\ Valid /\ ShowsPills
    /\ \E f \in Pills \cup {All} :
         Navigate([tab |-> "dienste", filter |-> IF f = view.filter THEN All ELSE f, admin |-> FALSE])
    /\ UNCHANGED <<mobile, search, arrangeRequested, data>>

\* The shortcut of the greeting, on a desktop only.
ShowMaintenance ==
    /\ Valid /\ ~AdminOpen /\ ~mobile /\ catalog.maintenance
    /\ Navigate([tab |-> "dienste", filter |-> Maintenance, admin |-> FALSE])
    /\ ClearSearch
    /\ UNCHANGED <<mobile, arrangeRequested, data>>

OnAdmin ==
    /\ Valid /\ me.admin
    /\ Navigate([view EXCEPT !.admin = TRUE])
    /\ UNCHANGED <<mobile, search, arrangeRequested, data>>

OnExit ==
    /\ Valid /\ AdminOpen
    /\ Navigate([view EXCEPT !.admin = FALSE])
    /\ UNCHANGED <<mobile, search, arrangeRequested, data>>

\* Mutant: a search masks the edit mode instead of cancelling it.
CancelsNothing == UNCHANGED arrangeRequested
CancelsArrange == arrangeRequested' = FALSE

\* A character that makes the query more than blanks.
OnSearch ==
    /\ Valid /\ ShowsField
    /\ searching' = TRUE
    /\ IF view.filter # All THEN Replace(Unfiltered) ELSE UNCHANGED <<history, view>>
    /\ CancelsArrange
    /\ UNCHANGED <<mobile, searchOpen, data>>

ClearQuery ==
    /\ Valid /\ ShowsField /\ searching
    /\ searching' = FALSE
    /\ UNCHANGED <<history, view, mobile, searchOpen, arrangeRequested, data>>

\* The phone's field is put away, or a result of the search is opened.
CloseSearch ==
    /\ Valid
    /\ (mobile /\ ShowsField) \/ ShowsResults
    /\ ClearSearch
    /\ UNCHANGED <<history, view, mobile, arrangeRequested, data>>

OpenSearch ==
    /\ Valid /\ ~AdminOpen /\ mobile
    /\ searchOpen' = TRUE
    /\ UNCHANGED <<history, view, mobile, searching, arrangeRequested, data>>

Arrange ==
    /\ Valid /\ ShowsSortMenu /\ me.manual /\ favorites
    /\ arrangeRequested' = TRUE
    /\ UNCHANGED <<history, view, mobile, search, data>>

EndArrange ==
    /\ Valid /\ ShowsArrange
    /\ arrangeRequested' = FALSE
    /\ UNCHANGED <<history, view, mobile, search, data>>

\* Preferences, set on this page or answered from another one.
SetPref ==
    /\ Valid
    /\ \E beta, manual \in BOOLEAN : me' = [me EXCEPT !.beta = beta, !.manual = manual]
    /\ UNCHANGED <<history, view, mobile, search, arrangeRequested, catalog, favorites>>

CatalogArrives ==
    /\ Valid
    /\ catalog' \in Catalogs \ {NotLoaded}
    /\ UNCHANGED <<history, view, mobile, search, arrangeRequested, me, favorites>>

FavoritesArrive ==
    /\ Valid
    /\ favorites' \in BOOLEAN
    /\ UNCHANGED <<history, view, mobile, search, arrangeRequested, me, catalog>>

\* The window crosses the breakpoint: the next render drops the phone's flag.
Cross ==
    /\ Valid
    /\ mobile' = ~mobile /\ searchOpen' = FALSE
    /\ UNCHANGED <<history, view, searching, arrangeRequested, data>>

User == OnTab \/ SelectFilter \/ ShowMaintenance \/ OnAdmin \/ OnExit
        \/ OnSearch \/ ClearQuery \/ CloseSearch \/ OpenSearch \/ Arrange \/ EndArrange
World == PopState \/ SetPref \/ CatalogArrives \/ FavoritesArrive \/ Cross
Next == Correct \/ User \/ World
Spec == Init /\ [][Next]_vars
\* A render in progress ends.
FairSpec == Spec /\ WF_vars(Correct)

-----------------------------------------------------------------------------
(* Properties *)

TypeOK ==
    /\ entries \in Seq(Addresses) /\ at \in DOMAIN entries
    /\ view \in AllViews
    /\ mobile \in BOOLEAN /\ searching \in BOOLEAN /\ searchOpen \in BOOLEAN
    /\ arrangeRequested \in BOOLEAN
    /\ me \in [admin : BOOLEAN, beta : BOOLEAN, manual : BOOLEAN]
    /\ catalog \in Catalogs /\ favorites \in BOOLEAN

\* The address in the bar always names the view in front of the user, so that a
\* reload or a copied link shows the same, whatever address the user came from
\* (view-url.ts, view-history.ts).
AddressNamesView == ParseViewURL(entries[at]) = view

\* A facet that narrows a list is one of the pills above the list: the user sees
\* what narrows it and can take it off, when links, preferences, catalogs and
\* screens change in any order (the guards of Dashboard.tsx:142-168 against the
\* pills of 464-524).
ActiveFacetHasPill ==
    (Valid /\ Loaded /\ ~AdminOpen /\ view.filter # All) => ShowsPills /\ view.filter \in Pills

\* One view at a time (docs/specs/search-view-state.md): the edit mode and the
\* results never show together, the tabs are absent only while the edit bar is
\* in their place, a query can be seen and cleared, and the phone's field never
\* waits in a layout without it.
OneViewAtATime ==
    /\ ~(Arranging /\ searching)
    /\ (Valid /\ ~AdminOpen /\ ~ShowsTabs) => ShowsArrange
    /\ (searching /\ ~AdminOpen) => ShowsField
    /\ searchOpen => mobile

\* A correction neither adds an entry to the history nor moves the user in it:
\* Back never lands on a view that throws the user forward again.
BackIsNotTrapped == [][~Valid => at' = at /\ Len(entries') = Len(entries)]_vars

\* The corrections of a view come to an end (Dashboard.tsx:138-141: each guard
\* fails on the view it corrected).
CorrectionsEnd == []<>Valid

=============================================================================
