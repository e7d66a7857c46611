---------------------------- MODULE ViewsProofs ----------------------------
(***************************************************************************)
(* What the views of the launcher keep, for every set of categories and a  *)
(* history of every length: the address names the view, and no two views   *)
(* show at a time.                                                         *)
(***************************************************************************)
EXTENDS Views, SequenceTheorems, TLAPS

\* A view an address can name: a facet belongs to the Dienste tab.
Canonical(v) == v \in AllViews /\ (v.filter # All => v.tab = "dienste")

\* A search takes the facet and the edit mode away, and nothing brings them back
\* before it is over; the phone's field is open on a phone only.
SearchStandsAlone ==
    /\ searching => view.filter = All /\ ~arrangeRequested
    /\ searchOpen => mobile

VInv == TypeOK /\ AddressNamesView /\ SearchStandsAlone

-----------------------------------------------------------------------------
(* Views and addresses *)

LEMMA KindsOfFilters ==
    ASSUME NEW f \in Filters
    PROVE  \/ f = All
           \/ f = Maintenance
           \/ f = Beta
           \/ f.slug \in Slugs /\ f = Category(f.slug)
BY DEF Filters, Category

\* Reading an address gives a view that an address can name.
LEMMA ParsedIsCanonical ==
    ASSUME NEW u \in Addresses
    PROVE  Canonical(ParseViewURL(u))
<1> DEFINE f == ParseViewURL(u).filter
<1>1. f \in Filters
  BY DEF ParseViewURL, Addresses, Filters
<1>2. ParseViewURL(u) = [tab |-> IF f # All THEN "dienste" ELSE u.tab, filter |-> f, admin |-> u.admin]
  BY DEF ParseViewURL
<1> HIDE DEF f
<1>3. u.tab \in Tabs /\ u.admin \in BOOLEAN
  BY DEF Addresses
<1> QED
  BY <1>1, <1>2, <1>3 DEF Canonical, AllViews, Tabs

LEMMA FacetsDiffer ==
    /\ All # Maintenance /\ All # Beta /\ Maintenance # Beta
    /\ All.slug = NoSlug /\ Maintenance.slug = NoSlug /\ Beta.slug = NoSlug
    /\ \A s : Category(s) \notin {All, Maintenance, Beta} /\ Category(s).slug = s
<1>1. All.kind = "all" /\ Maintenance.kind = "maintenance" /\ Beta.kind = "beta"
  BY DEF All, Maintenance, Beta
<1>2. \A s : Category(s).kind = "category"
  BY DEF Category
<1>3. /\ All.slug = NoSlug /\ Maintenance.slug = NoSlug /\ Beta.slug = NoSlug
      /\ \A s : Category(s).slug = s
  BY DEF All, Maintenance, Beta, Category
<1> QED
  BY <1>1, <1>2, <1>3

\* What the view is written to reads as the view.
LEMMA WrittenReadsBack ==
    ASSUME ViewsAssumption, NEW v, Canonical(v)
    PROVE  ViewToURL(v) \in Addresses /\ ParseViewURL(ViewToURL(v)) = v
<1> DEFINE u == ViewToURL(v)
           name == CASE v.filter = Maintenance -> "wartung" [] v.filter = Beta -> "beta" [] OTHER -> ""
<1>1. v.filter \in Filters /\ v.tab \in Tabs /\ v.admin \in BOOLEAN
  BY DEF Canonical, AllViews
<1>2. v = [tab |-> v.tab, filter |-> v.filter, admin |-> v.admin]
  BY DEF Canonical, AllViews
<1>3. /\ v.filter.slug \in Slugs \cup {NoSlug}
      /\ name \in {"", "wartung", "beta"}
      /\ name = "wartung" <=> v.filter = Maintenance
      /\ name = "beta" <=> v.filter = Beta
      /\ v.filter = Category(v.filter.slug) \/ v.filter.slug = NoSlug
      /\ v.filter.slug # NoSlug <=> v.filter = Category(v.filter.slug)
  BY <1>1, KindsOfFilters, FacetsDiffer DEF ViewsAssumption
<1>4. u = [cat |-> v.filter.slug, filter |-> name,
           tab |-> IF v.filter = All THEN v.tab ELSE "favoriten", admin |-> v.admin]
  BY DEF ViewToURL
<1> HIDE DEF name, u
<1>5. /\ u.cat = v.filter.slug /\ u.filter = name /\ u.admin = v.admin
      /\ v.filter = All => u.tab = v.tab
  BY <1>4
<1>6. u \in Addresses
  BY <1>1, <1>3, <1>4 DEF Addresses, Tabs
<1> DEFINE read == CASE u.cat # NoSlug -> Category(u.cat)
                    [] u.cat = NoSlug /\ u.filter = "wartung" -> Maintenance
                    [] u.cat = NoSlug /\ u.filter = "beta" -> Beta
                    [] OTHER -> All
<1>7. read = v.filter
  BY <1>1, <1>3, <1>5, KindsOfFilters, FacetsDiffer
<1>8. ParseViewURL(u) = [tab |-> IF read # All THEN "dienste" ELSE u.tab, filter |-> read, admin |-> u.admin]
  BY DEF ParseViewURL
<1> HIDE DEF read
<1>9. (IF read # All THEN "dienste" ELSE u.tab) = v.tab
  BY <1>5, <1>7 DEF Canonical
<1> QED
  BY <1>2, <1>5, <1>6, <1>7, <1>8, <1>9 DEF u

LEMMA ShownIsCanonical ==
    ASSUME TypeOK, AddressNamesView
    PROVE  Canonical(view)
BY ParsedIsCanonical, ElementOfSeq DEF TypeOK, AddressNamesView

-----------------------------------------------------------------------------
(* The history *)

\* Both ways of writing the history leave the user at an entry that names the view.
LEMMA NavigateKeeps ==
    ASSUME ViewsAssumption, TypeOK, AddressNamesView, NEW v, Canonical(v), Navigate(v)
    PROVE  /\ entries' \in Seq(Addresses) /\ at' \in DOMAIN entries'
           /\ view' = v /\ view' \in AllViews
           /\ AddressNamesView'
<1>1. CASE v = view
  BY <1>1 DEF Navigate, TypeOK, AddressNamesView, history
<1>2. CASE v # view
  <2> DEFINE head == SubSeq(entries, 1, at)
             u == ViewToURL(v)
  <2>1. entries' = Append(head, u) /\ at' = at + 1 /\ view' = v
    BY <1>2 DEF Navigate
  <2>2. u \in Addresses /\ ParseViewURL(u) = v
    BY WrittenReadsBack
  <2>3. at \in 1..Len(entries) /\ Len(entries) \in Nat /\ entries \in Seq(Addresses)
    BY DEF TypeOK
  <2>4. head \in Seq(Addresses) /\ Len(head) = at
    BY <2>3, SubSeqProperties
  <2> HIDE DEF head, u
  <2>5. /\ entries' \in Seq(Addresses) /\ Len(entries') = at + 1
        /\ entries'[at + 1] = u
    BY <2>1, <2>2, <2>3, <2>4, AppendProperties
  <2> QED
    BY <2>1, <2>2, <2>3, <2>5 DEF AddressNamesView, Canonical
<1> QED
  BY <1>1, <1>2

LEMMA ReplaceKeeps ==
    ASSUME ViewsAssumption, TypeOK, AddressNamesView, NEW v, Canonical(v), Replace(v)
    PROVE  /\ entries' \in Seq(Addresses) /\ at' \in DOMAIN entries'
           /\ view' = v /\ view' \in AllViews
           /\ AddressNamesView'
           /\ at' = at /\ Len(entries') = Len(entries)
<1> DEFINE u == ViewToURL(v)
<1>1. u \in Addresses /\ ParseViewURL(u) = v
  BY WrittenReadsBack
<1>2. entries' = [entries EXCEPT ![at] = u] /\ at' = at /\ view' = v
  BY DEF Replace
<1>3. at \in 1..Len(entries) /\ entries \in Seq(Addresses)
  BY DEF TypeOK
<1> HIDE DEF u
<1>4. /\ entries' \in Seq(Addresses) /\ Len(entries') = Len(entries)
      /\ entries'[at] = u
  BY <1>1, <1>2, <1>3, ExceptSeq
<1> QED
  BY <1>1, <1>2, <1>3, <1>4 DEF AddressNamesView, Canonical

-----------------------------------------------------------------------------
(* The steps *)

\* The views the page goes to.
LEMMA DestinationsAreCanonical ==
    ASSUME Canonical(view)
    PROVE  /\ \A t \in Tabs : Canonical([tab |-> t, filter |-> All, admin |-> FALSE])
           /\ \A f \in Filters : Canonical([tab |-> "dienste", filter |-> f, admin |-> FALSE])
           /\ \A b \in BOOLEAN : Canonical([view EXCEPT !.admin = b])
           /\ \A b \in BOOLEAN : [view EXCEPT !.admin = b].filter = view.filter
           /\ Canonical(Unfiltered) /\ Unfiltered.filter = All
           /\ Canonical(Corrected)
           /\ view.filter = All => Corrected.filter = All
BY DEF Canonical, AllViews, Tabs, Filters, Unfiltered, Corrected

LEMMA Destinations ==
    ASSUME TypeOK
    PROVE  Pills \subseteq Filters
<1>1. catalog.slugs \subseteq Slugs
  <2>1. CASE catalog = NotLoaded
    BY <2>1 DEF NotLoaded
  <2>2. CASE catalog \in [loaded : {TRUE}, slugs : SUBSET Slugs, beta : BOOLEAN, maintenance : BOOLEAN]
    BY <2>2
  <2> QED
    BY <2>1, <2>2 DEF TypeOK, Catalogs
<1> QED
  BY <1>1 DEF Pills, Filters

\* What a step does to the history: nothing, an entry for a view an address can
\* name, another view at the entry the user is at, or a move to another entry.
LEMMA ViewSteps ==
    ASSUME ViewsAssumption, VInv, [Next]_vars
    PROVE  \/ UNCHANGED <<history, view>>
           \/ \E v : Canonical(v) /\ Navigate(v)
           \/ \E v : Canonical(v) /\ Replace(v)
           \/ PopState
<1>1. Canonical(view) /\ Pills \subseteq Filters /\ All \in Filters /\ Maintenance \in Filters
  BY ShownIsCanonical, Destinations DEF VInv, Filters
<1>2. CASE Correct
  BY <1>1, <1>2, DestinationsAreCanonical DEF Correct
<1>3. CASE OnTab
  <2>1. PICK t \in Tabs : Navigate([tab |-> t, filter |-> All, admin |-> FALSE])
    BY <1>3 DEF OnTab
  <2> QED
    BY <1>1, <2>1, DestinationsAreCanonical
<1>4. CASE SelectFilter
  <2>1. PICK f \in Filters : Navigate([tab |-> "dienste", filter |-> f, admin |-> FALSE])
    BY <1>1, <1>4 DEF SelectFilter
  <2> QED
    BY <1>1, <2>1, DestinationsAreCanonical
<1>5. CASE ShowMaintenance
  BY <1>1, <1>5, DestinationsAreCanonical DEF ShowMaintenance, ClearSearch
<1>6. CASE OnAdmin \/ OnExit
  BY <1>1, <1>6, DestinationsAreCanonical DEF OnAdmin, OnExit
<1>7. CASE OnSearch
  BY <1>1, <1>7, DestinationsAreCanonical DEF OnSearch
<1>8. CASE ClearQuery \/ CloseSearch \/ OpenSearch \/ Arrange \/ EndArrange
  BY <1>8 DEF ClearQuery, CloseSearch, OpenSearch, Arrange, EndArrange
<1>9. CASE SetPref \/ CatalogArrives \/ FavoritesArrive \/ Cross
  BY <1>9 DEF SetPref, CatalogArrives, FavoritesArrive, Cross
<1>10. CASE UNCHANGED vars
  BY <1>10 DEF vars, history
<1> QED
  BY <1>2, <1>3, <1>4, <1>5, <1>6, <1>7, <1>8, <1>9, <1>10 DEF Next, User, World

LEMMA HistoryStep ==
    ASSUME ViewsAssumption, VInv, [Next]_vars
    PROVE  /\ entries' \in Seq(Addresses) /\ at' \in DOMAIN entries' /\ view' \in AllViews
           /\ AddressNamesView'
<1>1. CASE UNCHANGED <<history, view>>
  BY <1>1 DEF history, VInv, TypeOK, AddressNamesView
<1>2. CASE \E v : Canonical(v) /\ Navigate(v)
  BY <1>2, NavigateKeeps DEF VInv
<1>3. CASE \E v : Canonical(v) /\ Replace(v)
  BY <1>3, ReplaceKeeps DEF VInv
<1>4. CASE PopState
  <2>1. entries' = entries /\ at' \in DOMAIN entries /\ view' = ParseViewURL(entries[at'])
    BY <1>4 DEF PopState
  <2>2. entries[at'] \in Addresses
    BY <2>1, ElementOfSeq DEF VInv, TypeOK
  <2> QED
    BY <2>1, <2>2, ParsedIsCanonical DEF VInv, TypeOK, AddressNamesView, Canonical
<1> QED
  BY <1>1, <1>2, <1>3, <1>4, ViewSteps

LEMMA TypeStep ==
    ASSUME ViewsAssumption, VInv, [Next]_vars
    PROVE  TypeOK'
<1>1. /\ mobile' \in BOOLEAN /\ searching' \in BOOLEAN /\ searchOpen' \in BOOLEAN
      /\ arrangeRequested' \in BOOLEAN
      /\ me' \in [admin : BOOLEAN, beta : BOOLEAN, manual : BOOLEAN]
      /\ catalog' \in Catalogs /\ favorites' \in BOOLEAN
  BY DEF VInv, TypeOK, Next, User, World, vars, search, data, Correct, OnTab, SelectFilter,
     ShowMaintenance, OnAdmin, OnExit, OnSearch, CancelsArrange, ClearQuery, CloseSearch, OpenSearch,
     Arrange, EndArrange, SetPref, CatalogArrives, FavoritesArrive, Cross, PopState, ClearSearch
<1> QED
  BY <1>1, HistoryStep DEF TypeOK

LEMMA SearchStep ==
    ASSUME ViewsAssumption, VInv, [Next]_vars
    PROVE  SearchStandsAlone'
<1> USE DEF SearchStandsAlone
<1>0. /\ searching => view.filter = All /\ ~arrangeRequested
      /\ searchOpen => mobile
      /\ searching \in BOOLEAN /\ searchOpen \in BOOLEAN /\ mobile \in BOOLEAN
      /\ arrangeRequested \in BOOLEAN
  BY DEF VInv, TypeOK
<1>1. CASE OnSearch
  <2>1. view'.filter = All
    BY <1>1, DestinationsAreCanonical, ShownIsCanonical DEF OnSearch, Replace, VInv
  <2> QED
    BY <1>1, <2>1 DEF OnSearch, CancelsArrange, VInv
<1>2. CASE PopState \/ OnTab \/ ShowMaintenance \/ CloseSearch
  BY <1>2 DEF PopState, OnTab, ShowMaintenance, CloseSearch, ClearSearch
<1>3. CASE Correct
  <2>1. view' = Corrected /\ UNCHANGED <<mobile, searching, searchOpen, arrangeRequested>>
    BY <1>3 DEF Correct, Replace, search
  <2> QED
    BY <2>1, DestinationsAreCanonical, ShownIsCanonical DEF VInv
<1>4. CASE SelectFilter
  BY <1>4 DEF SelectFilter, ShowsPills, search, VInv
<1>5. CASE OnAdmin \/ OnExit
  <2>1. \E b \in BOOLEAN : view' = [view EXCEPT !.admin = b]
    BY <1>5 DEF OnAdmin, OnExit, Navigate, VInv, TypeOK, AllViews
  <2>2. view'.filter = view.filter /\ UNCHANGED <<mobile, searching, searchOpen, arrangeRequested>>
    BY <1>5, <2>1, DestinationsAreCanonical, ShownIsCanonical DEF OnAdmin, OnExit, search, VInv
  <2> QED
    BY <2>2 DEF VInv
<1>6. CASE ClearQuery \/ OpenSearch \/ EndArrange \/ Cross
  <2>1. CASE ClearQuery
    BY <1>0, <2>1 DEF ClearQuery
  <2>2. CASE OpenSearch
    BY <1>0, <2>2 DEF OpenSearch
  <2>3. CASE EndArrange
    BY <1>0, <2>3 DEF EndArrange, search
  <2>4. CASE Cross
    BY <1>0, <2>4 DEF Cross
  <2> QED
    BY <1>6, <2>1, <2>2, <2>3, <2>4
<1>7. CASE Arrange
  BY <1>0, <1>7 DEF Arrange, ShowsSortMenu, search
<1>8. CASE SetPref \/ CatalogArrives \/ FavoritesArrive \/ UNCHANGED vars
  <2>1. UNCHANGED <<view, mobile, searching, searchOpen, arrangeRequested>>
    BY <1>8 DEF SetPref, CatalogArrives, FavoritesArrive, vars, search
  <2> QED
    BY <1>0, <2>1
<1> QED
  BY <1>1, <1>2, <1>3, <1>4, <1>5, <1>6, <1>7, <1>8 DEF Next, User, World

-----------------------------------------------------------------------------

LEMMA InitInvariant == ASSUME ViewsAssumption, Init PROVE VInv
<1>1. entries \in Seq(Addresses) /\ DOMAIN entries = {1} /\ entries[1] \in Addresses
  <2>1. entries \in [1..1 -> Addresses] /\ 1..1 = {1}
    BY DEF Init
  <2>2. entries \in Seq(Addresses)
    BY <2>1, SeqDef
  <2> QED
    BY <2>1, <2>2
<1>2. at \in DOMAIN entries /\ view = ParseViewURL(entries[at]) /\ view \in AllViews
  BY <1>1, ParsedIsCanonical DEF Init, Canonical
<1> QED
  BY <1>1, <1>2 DEF Init, VInv, TypeOK, AddressNamesView, SearchStandsAlone, Catalogs

\* Every variable keeps its shape, and the invariants of the history and the search.
THEOREM ViewsInvariant == Spec => []VInv
<1>1. Init => VInv
  BY ViewsAssumption, InitInvariant
<1>2. VInv /\ [Next]_vars => VInv'
  BY ViewsAssumption, TypeStep, HistoryStep, SearchStep DEF VInv
<1> QED
  BY <1>1, <1>2, PTL DEF Spec

\* A reload, or a copied link, shows the view in front of the user.
THEOREM AddressesNameViews == Spec => []AddressNamesView
<1>1. VInv => AddressNamesView
  BY DEF VInv
<1> QED
  BY <1>1, ViewsInvariant, PTL

\* A facet that narrows the list can be seen and taken off.
THEOREM ActiveFacetsHavePills == Spec => []ActiveFacetHasPill
<1>1. VInv => ActiveFacetHasPill
  <2> SUFFICES ASSUME VInv, Valid, Loaded, ~AdminOpen, view.filter # All
               PROVE  ShowsPills /\ view.filter \in Pills
    BY DEF ActiveFacetHasPill
  <2>1. ShowsPills
    BY ShownIsCanonical DEF VInv, SearchStandsAlone, Valid, Canonical, ShowsPills
  <2>2. ~StaleFacet /\ view.filter \in Filters
    BY ShownIsCanonical DEF VInv, Valid, Canonical, AllViews
  <2>3. CASE view.filter = Maintenance
    <3>1. catalog.maintenance
      BY <2>2, <2>3 DEF StaleFacet
    <3> QED
      BY <2>1, <2>3, <3>1 DEF Pills, ShowMaintenanceFacet
  <2>4. CASE view.filter = Beta
    <3>1. me.beta /\ catalog.beta
      BY <2>2, <2>4 DEF StaleFacet
    <3> QED
      BY <2>1, <2>4, <3>1 DEF Pills, ShowBetaFacet
  <2>5. CASE view.filter = Category(view.filter.slug)
    <3>1. view.filter.kind = "category"
      BY <2>5 DEF Category
    <3>2. view.filter.slug \in catalog.slugs
      BY <2>2, <3>1 DEF StaleFacet
    <3> QED
      BY <2>1, <2>5, <3>2 DEF Pills
  <2> QED
    BY <2>1, <2>2, <2>3, <2>4, <2>5, KindsOfFilters
<1> QED
  BY <1>1, ViewsInvariant, PTL

\* The edit mode and the results never show together, and no view is left without
\* the controls that leave it.
THEOREM ViewsExclude == Spec => []OneViewAtATime
<1>1. VInv => OneViewAtATime
  BY DEF VInv, SearchStandsAlone, OneViewAtATime, Arranging, ShowsTabs, ShowsArrange,
     ShowsField, PhoneSearchOpen
<1> QED
  BY <1>1, ViewsInvariant, PTL

\* A correction neither adds an entry to the history nor moves the user in it.
THEOREM CorrectionsStay == Spec => BackIsNotTrapped
<1>1. ASSUME VInv, [Next]_vars PROVE [~Valid => at' = at /\ Len(entries') = Len(entries)]_vars
  <2> SUFFICES ASSUME ~Valid, ~UNCHANGED vars PROVE at' = at /\ Len(entries') = Len(entries)
    OBVIOUS
  <2>1. Correct
    BY <1>1 DEF Next, User, World, OnTab, SelectFilter, ShowMaintenance, OnAdmin, OnExit, OnSearch,
       ClearQuery, CloseSearch, OpenSearch, Arrange, EndArrange, SetPref, CatalogArrives,
       FavoritesArrive, Cross, PopState
  <2> QED
    BY <1>1, <2>1, ViewsAssumption, ReplaceKeeps, ShownIsCanonical, DestinationsAreCanonical
       DEF Correct, VInv
<1> QED
  BY <1>1, ViewsInvariant, PTL DEF Spec, BackIsNotTrapped
=============================================================================
