------------------------------- MODULE Search -------------------------------
(***************************************************************************)
(* The search of the launcher: the query, its debounced copy, the answers  *)
(* of the server and what the live region says of them (hooks.ts,          *)
(* Dashboard.tsx), the phone's field laid over the app bar (GlobalSearch)  *)
(* and the menus and dialogs that own the keyboard while they are up       *)
(* (TopBar, NotificationBell, FavoritesOrder, Popover, Dialog).  The page  *)
(* is the launcher with its Favoriten tab; the admin screen has no search. *)
(*                                                                         *)
(* External: TanStack Query, which cancels the fetch of a query nobody     *)
(* observes any more and gives an observer whose query has no data and no  *)
(* error the data its last query had (placeholderData); the browser, which *)
(* focuses what is pressed, the body if that takes no focus, and moves the *)
(* focus to the body when the element that has it goes away or becomes     *)
(* inert.  The counts of the tabs are left out, they all are 0.            *)
(***************************************************************************)
EXTENDS Naturals

CONSTANTS
    Words,              \* queries that are not blank
    Hits                \* the number of services each of them finds

\* The keys of the live region keep a search apart from a tab, whatever is typed.
ASSUME SearchAssumption == Words \cap {"", "tab", "none"} = {} /\ Hits \in [Words -> Nat]

VARIABLES
    query, debounced,
    cache,              \* the words whose answer is in the query cache
    asked,              \* the fetch for debounced is under way
    failed,             \* the words whose last fetch failed
    lastData,           \* the last word the observer had an answer for
    lists,              \* the catalogue and the favorites: "loading", "failed", "loaded"
    previous,           \* the last settled count the live region was told of
    first,              \* history: the first one, its silent baseline
    spoken,             \* the message the live region was set to last
    mobile, searchOpen,
    menu,               \* the panel that is open
    dialog,             \* the dialog that is open
    sheetOpen,          \* the flag of the sort menu's sheet, a dialog on phones only
    back,               \* where that dialog returns the focus to
    showBeta,
    arranging,          \* the edit mode of the favorites, which replaces the sort menu
    focus,              \* where the keyboard is
    strayed             \* history: it was taken away from a dialog that is still up

results == <<cache, asked, failed, lastData>>
layers == <<menu, dialog, sheetOpen, back, showBeta, arranging, strayed>>
searchVars == <<query, debounced, cache, asked, failed, lastData, lists, previous, first, spoken,
          mobile, searchOpen, menu, dialog, sheetOpen, back, showBeta, arranging, focus, strayed>>

Blank == ""
Queries == Words \cup {Blank}
Nothing == [key |-> "tab", of |-> "tab"]
Silent == [key |-> "none", of |-> "none"]
Messages == [key : Queries \cup {"tab"}, of : Queries \cup {"tab"}] \cup {Silent}
Menus == {"none", "account", "bell", "sort"}
Dialogs == {"none", "beta", "notice"}
PagePlaces == {"body", "field", "pill", "avatar", "bell", "sort", "content"}
Places == PagePlaces \cup {"panel", "row", "dialog"}

-----------------------------------------------------------------------------
(* What is on screen *)

Searching == query # Blank
\* The word whose services the search shows; Blank while it has none to show.
Answer ==
    IF debounced \in cache THEN debounced
    ELSE IF debounced \in failed THEN Blank ELSE lastData
SearchFailed == Searching /\ debounced \in failed
SearchPending == Searching /\ debounced \notin failed /\ Answer = Blank
Settled == lists # "loading" /\ ~SearchPending /\ ~SearchFailed

PhoneSearchOpen == mobile /\ (searchOpen \/ Searching)
SheetShown == sheetOpen /\ mobile /\ ~Searching
DialogShown == dialog # "none" \/ SheetShown
LayerUp == menu # "none" \/ DialogShown
Trigger(m) == CASE m = "account" -> "avatar" [] m = "bell" -> "bell" [] m = "sort" -> "sort"
\* The bar is inert under the phone's field, with the panels of its buttons in it; the
\* sort menu makes way for a search and for the edit mode.
Usable(p) ==
    CASE p \in {"avatar", "bell"} -> ~PhoneSearchOpen
      [] p = "pill" -> mobile /\ ~PhoneSearchOpen
      [] p = "field" -> ~mobile \/ PhoneSearchOpen
      [] p = "sort" -> ~Searching /\ ~arranging
      [] p = "panel" -> menu = "sort" \/ (menu # "none" /\ ~PhoneSearchOpen)
      [] p = "row" -> menu = "bell" /\ ~PhoneSearchOpen
      [] p = "dialog" -> DialogShown
      [] OTHER -> TRUE

-----------------------------------------------------------------------------
(* Effects: what runs after the render of every step *)

Count(m) == IF m.of \in Words THEN Hits[m.of] ELSE 0
Told == IF Searching THEN [key |-> debounced, of |-> Answer] ELSE Nothing
\* A settle is news if its key or its count is another; the first one never is.
\* Mutant: only another key is news.
NewsByKey(last, now) == last # Silent /\ last.key # now.key
News(last, now) == last # Silent /\ (last.key # now.key \/ Count(last) # Count(now))

Announce ==
    /\ previous' = IF Settled' THEN Told' ELSE previous
    /\ first' = IF Settled' /\ first = Silent THEN Told' ELSE first
    /\ spoken' = IF Settled' /\ News(previous, Told') THEN Told' ELSE spoken

\* The focus goes to p, which an element that cannot have it leaves where it is, or
\* back to the pill if the phone's field stood down.
FocusTo(p) ==
    \E q, f \in Places :
        /\ q = p /\ f = focus
        /\ focus' = IF PhoneSearchOpen /\ ~PhoneSearchOpen' /\ mobile' THEN "pill"
                    ELSE IF Usable(q)' THEN q
                    ELSE IF Usable(f)' THEN f ELSE "body"

\* The focus stays, unless what has it in the content is replaced.
FocusStays == \E p \in {focus} \cup (IF focus = "content" THEN {"body"} ELSE {}) : FocusTo(p)

-----------------------------------------------------------------------------
(* The query and its answers *)

\* onSearch; a search takes the sort menu off the page, and its sheet with it, and
\* ends the edit mode.
SetQuery(q) ==
    /\ query' = q
    /\ sheetOpen' = (sheetOpen /\ q = Blank)
    /\ arranging' = (arranging /\ q = Blank)
    /\ UNCHANGED <<debounced, results, lists, mobile, menu, dialog, back, showBeta>>
    /\ strayed' = (strayed /\ LayerUp')

Type ==
    /\ focus = "field"
    /\ \E q \in Queries \ {query} : SetQuery(q)
    /\ UNCHANGED searchOpen
    /\ Announce /\ FocusTo("field")

\* The button inside the field, which goes away with the text; a press closes a panel
\* that is open first.
ClearText ==
    /\ Usable("field") /\ Searching /\ menu = "none" /\ ~DialogShown
    /\ SetQuery(Blank) /\ UNCHANGED searchOpen
    /\ Announce /\ FocusTo("body")

\* clearSearch, by Back, which leaves panels and dialogs as they are, by the button
\* beside the phone's field, or by something pressed in the content: a result opened
\* in a new tab, a change of tab and back.
ClearSearch ==
    /\ Searching \/ searchOpen
    /\ ~(DialogShown /\ PhoneSearchOpen)
    /\ SetQuery(Blank) /\ searchOpen' = FALSE
    /\ Announce
    /\ \/ FocusStays
       \/ menu = "none" /\ ~DialogShown /\ \E p \in {"content", "body"} : FocusTo(p)

\* Back under a dialog: the phone's field stands down, and its effect takes the focus
\* from the dialog.
BackUnderDialog ==
    /\ DialogShown /\ PhoneSearchOpen
    /\ query' = Blank /\ searchOpen' = FALSE /\ strayed' = TRUE
    /\ UNCHANGED <<debounced, results, lists, mobile, menu, dialog, sheetOpen, back, showBeta, arranging>>
    /\ Announce /\ FocusTo("pill")

\* Mutant: the fetch is enabled by the query of the render before.
EnabledLate(q) == debounced # Blank
Enabled(q) == q # Blank

\* The debounced copy catches up; the observer moves to its query, and what was
\* under way for the one before is cancelled.
Debounce ==
    /\ debounced # query
    /\ debounced' = query
    /\ asked' = (Enabled(query) /\ query \notin cache)
    /\ failed' = failed \ ({query} \ cache)
    /\ lastData' = IF query \in cache THEN query ELSE lastData
    /\ UNCHANGED <<query, cache, lists, mobile, searchOpen, layers>>
    /\ Announce /\ FocusStays

\* When the window gets the focus, a stale or missing answer is fetched again.
Refetch ==
    /\ Enabled(debounced) /\ ~asked
    /\ asked' = TRUE /\ failed' = failed \ ({debounced} \ cache)
    /\ UNCHANGED <<query, debounced, cache, lastData, lists, mobile, searchOpen, layers>>
    /\ Announce /\ FocusStays

Answered ==
    /\ asked
    /\ asked' = FALSE /\ failed' = failed \ {debounced}
    /\ cache' = cache \cup {debounced} /\ lastData' = debounced
    /\ UNCHANGED <<query, debounced, lists, mobile, searchOpen, layers>>
    /\ Announce /\ FocusStays

FetchFails ==
    /\ asked
    /\ asked' = FALSE /\ failed' = failed \cup {debounced}
    /\ UNCHANGED <<query, debounced, cache, lastData, lists, mobile, searchOpen, layers>>
    /\ Announce /\ FocusStays

\* A query nobody observes is dropped after a while.
Collected ==
    /\ \E w \in (cache \cup failed) \ {debounced} : cache' = cache \ {w} /\ failed' = failed \ {w}
    /\ UNCHANGED <<query, debounced, asked, lastData, lists, previous, first, spoken,
                   mobile, searchOpen, layers, focus>>

\* The catalogue and the favorites arrive or fail, and after a failure are fetched
\* again as if for the first time.
ListsTurn ==
    /\ \/ lists = "loading" /\ lists' \in {"loaded", "failed"}
       \/ lists = "failed" /\ lists' = "loading"
    /\ UNCHANGED <<query, debounced, results, mobile, searchOpen, layers>>
    /\ Announce /\ FocusStays

-----------------------------------------------------------------------------
(* The field *)

text == <<query, debounced, results, lists, previous, first, spoken>>

\* Mutant: the shortcut competes with what is layered over the launcher.
HotkeyCompetes == TRUE
OverlayOpen == LayerUp
HotkeyHeard == ~OverlayOpen

\* Ctrl+K, or "/" where nothing is typed.
Hotkey ==
    /\ HotkeyHeard
    /\ searchOpen' = (mobile \/ searchOpen)
    /\ UNCHANGED <<text, mobile, layers>>
    /\ FocusTo("field")

\* A press on the field, or on the pill, which lays the field over the bar: a panel
\* that is open takes it for a press outside and closes.
ClickField ==
    /\ ~DialogShown
    /\ searchOpen' = (searchOpen \/ Usable("pill"))
    /\ menu' = "none"
    /\ strayed' = FALSE
    /\ UNCHANGED <<text, mobile, dialog, sheetOpen, back, showBeta, arranging>>
    /\ FocusTo("field")

\* Escape in the field: the phone's stands down with its query, the desktop's
\* only gives up the focus.  A dialog takes the key before it.
EscapeField ==
    /\ focus = "field" /\ ~DialogShown
    /\ IF mobile THEN SetQuery(Blank) /\ searchOpen' = FALSE /\ Announce
       ELSE UNCHANGED <<text, searchOpen, mobile, layers>>
    /\ FocusTo("body")

\* What is mounted anew when the window crosses the breakpoint.
Remounted(p) == p \in {"field", "sort", "pill"} \/ (p = "panel" /\ menu = "sort")
                \/ (p = "dialog" /\ SheetShown)
\* The window crosses the breakpoint: the flag of the phone's field is dropped,
\* the flag of the sheet stays, and takes the focus when it is back on a phone.
\* Bound: not with the sheet's flag set under another dialog, nor under a panel of
\* the bar, with which the sheet would compete for the keys.
Cross ==
    /\ sheetOpen => dialog = "none" /\ menu \in {"none", "sort"}
    /\ mobile' = ~mobile /\ searchOpen' = FALSE
    /\ menu' = IF menu = "sort" THEN "none" ELSE menu
    /\ back' = IF sheetOpen THEN (IF Remounted(focus) THEN "body" ELSE focus) ELSE back
    /\ UNCHANGED <<text, dialog, sheetOpen, showBeta, arranging>>
    /\ strayed' = (strayed /\ LayerUp' /\ ~SheetShown')
    /\ IF SheetShown' THEN focus' = "dialog"
       ELSE IF Remounted(focus) THEN focus' = "body" ELSE FocusTo(focus)

-----------------------------------------------------------------------------
(* Panels and dialogs *)

page == <<text, mobile, searchOpen>>

\* The trigger of a panel is pressed, with another panel open or not.
OpenPanel(m) ==
    /\ ~DialogShown /\ Usable(Trigger(m))
    /\ m = "sort" => ~mobile
    /\ menu' = IF menu = m THEN "none" ELSE m
    /\ focus' = IF menu = m THEN Trigger(m) ELSE "panel"
    /\ strayed' = FALSE
    /\ UNCHANGED <<page, dialog, sheetOpen, back, showBeta, arranging>>

\* The sort menu of a phone is a sheet.
OpenSheet ==
    /\ mobile /\ menu = "none"
    /\ ~DialogShown /\ Usable("sort")
    /\ sheetOpen' = TRUE /\ back' = "sort" /\ focus' = "dialog"
    /\ UNCHANGED <<page, menu, dialog, showBeta, arranging, strayed>>

\* Escape closes the panel on top, and nothing under a dialog; the field takes the
\* key for itself.
EscapeMenu ==
    /\ menu # "none" /\ ~DialogShown /\ focus # "field"
    /\ menu' = "none" /\ strayed' = FALSE
    /\ UNCHANGED <<page, dialog, sheetOpen, back, showBeta, arranging>>
    /\ FocusTo(Trigger(menu))

\* A press outside the panel, on the page, on what takes the focus or on its blank
\* parts; under a dialog the panel ignores it.
PressOutside ==
    /\ menu # "none" /\ ~DialogShown
    /\ menu' = "none" /\ strayed' = FALSE
    /\ \E p \in PagePlaces : Usable(p) /\ focus' = p
    /\ UNCHANGED <<page, dialog, sheetOpen, back, showBeta, arranging>>

\* A press that is not a click, on the scrim of a dialog, which stays up.
PressScrim ==
    /\ DialogShown
    /\ focus' = "body" /\ strayed' = TRUE
    /\ UNCHANGED <<page, menu, dialog, sheetOpen, back, showBeta, arranging>>

\* Tab, or a press without effect on the page or the panel's own trigger.  A panel
\* keeps the keyboard or pulls it in, unless it is inert; a dialog only keeps it.
\* Bound: behind a dialog, a keyboard that strayed presses no button.
Wander ==
    /\ \E p \in IF DialogShown THEN PagePlaces \cup {"dialog"}
              ELSE IF menu = "none" THEN PagePlaces ELSE {"panel", "row", Trigger(menu)} :
        Usable(p) /\ focus' = p
    /\ ~(DialogShown /\ focus = "dialog")
    /\ UNCHANGED <<page, layers>>

\* A row of the bell's panel is opened; the panel stays under the notice.
OpenNotice ==
    /\ Usable("row") /\ ~DialogShown
    /\ dialog' = "notice" /\ back' = "row" /\ focus' = "dialog" /\ strayed' = FALSE
    /\ UNCHANGED <<page, menu, sheetOpen, showBeta, arranging>>

\* The switch of the account menu: off at once, on only after the warning; the
\* menu has gone, and its switch with it, when the dialog looks where the focus is.
ToggleBeta ==
    /\ menu = "account" /\ Usable("panel") /\ ~DialogShown
    /\ IF showBeta
       THEN showBeta' = FALSE /\ focus' = "panel" /\ UNCHANGED <<menu, dialog, back>>
       ELSE menu' = "none" /\ dialog' = "beta" /\ back' = "body" /\ focus' = "dialog" /\ UNCHANGED showBeta
    /\ strayed' = FALSE
    /\ UNCHANGED <<page, sheetOpen, arranging>>

\* Whoever renders the dialog renders again: its closure is another, so the effect
\* gives the focus back, if it can, and takes it again.
Rerender ==
    /\ dialog # "none"
    /\ back' = IF Usable(back) /\ back # "body" THEN back ELSE focus
    /\ focus' = "dialog"
    /\ UNCHANGED <<page, menu, dialog, sheetOpen, showBeta, arranging, strayed>>

\* The notice behind the row is gone from the lists of the panel.
RowGoes ==
    /\ menu = "bell"
    /\ focus' = IF focus = "row" THEN "body" ELSE focus
    /\ back' = IF back = "row" THEN "body" ELSE back
    /\ UNCHANGED <<page, menu, dialog, sheetOpen, showBeta, arranging, strayed>>

\* What the content shows is replaced, and with it what has the focus there.
ContentGoes ==
    /\ "content" \in {focus, back}
    /\ focus' = IF focus = "content" THEN "body" ELSE focus
    /\ back' = IF back = "content" THEN "body" ELSE back
    /\ UNCHANGED <<page, menu, dialog, sheetOpen, showBeta, arranging, strayed>>

\* Mutant: a dialog that is closed leaves the focus where it falls.
LeaveFocus == "body"
\* The focus after the dialog: where it was, or the trigger its owner names.
Returned ==
    IF back \notin {"dialog", "body"} /\ Usable(back) THEN back
    ELSE IF dialog = "beta" THEN "avatar" ELSE focus

\* The dialog is closed, by any of its buttons, by Escape or on its scrim.
CloseDialog ==
    /\ DialogShown
    /\ IF dialog = "none" THEN sheetOpen' = FALSE /\ UNCHANGED dialog
       ELSE dialog' = "none" /\ UNCHANGED sheetOpen
    /\ back' = "body"
    /\ showBeta' \in IF dialog = "beta" THEN {showBeta, TRUE} ELSE {showBeta}
    /\ UNCHANGED <<page, menu, arranging>>
    /\ strayed' = (strayed /\ LayerUp')
    /\ FocusTo(Returned)

\* Anordnen, in the sort menu or its sheet: the edit mode takes the place of the
\* tabs, with menu, trigger and sheet among them; nobody takes the focus.
Arrange ==
    /\ (menu = "sort" /\ ~DialogShown) \/ SheetShown
    /\ arranging' = TRUE /\ menu' = "none" /\ sheetOpen' = FALSE /\ back' = "body"
    /\ strayed' = FALSE /\ focus' = "body"
    /\ UNCHANGED <<page, dialog, showBeta>>

\* Fertig or Abbrechen; the bar with both goes away.
EndArrange ==
    /\ arranging /\ menu = "none" /\ ~DialogShown
    /\ arranging' = FALSE
    /\ UNCHANGED <<page, menu, dialog, sheetOpen, back, showBeta, strayed>>
    /\ FocusTo("body")

-----------------------------------------------------------------------------
SearchInit ==
    /\ query = Blank /\ debounced = Blank
    /\ cache = {} /\ asked = FALSE /\ failed = {} /\ lastData = Blank
    /\ lists = "loading" /\ previous = Silent /\ first = Silent /\ spoken = Silent
    /\ mobile \in BOOLEAN /\ searchOpen = FALSE
    /\ menu = "none" /\ dialog = "none" /\ sheetOpen = FALSE /\ back = "body" /\ showBeta \in BOOLEAN
    /\ arranging = FALSE /\ focus = "body" /\ strayed = FALSE

Typing == Type \/ ClearText \/ ClearSearch \/ BackUnderDialog \/ EscapeField
Fetching == Debounce \/ Refetch \/ Answered \/ FetchFails \/ Collected \/ ListsTurn
Field == Hotkey \/ ClickField \/ Cross
Layers == (\E m \in Menus \ {"none"} : OpenPanel(m)) \/ OpenSheet \/ EscapeMenu \/ PressOutside
          \/ PressScrim \/ Wander \/ OpenNotice \/ ToggleBeta \/ Rerender \/ RowGoes \/ ContentGoes
          \/ CloseDialog \/ Arrange \/ EndArrange
SearchNext == Typing \/ Fetching \/ Field \/ Layers
SearchSpec == SearchInit /\ [][SearchNext]_searchVars
\* The timer of a query that stays fires, and a fetch ends, one way or the other.
SearchFairSpec == SearchSpec /\ WF_searchVars(Debounce) /\ WF_searchVars(Answered \/ FetchFails)

-----------------------------------------------------------------------------
(* Properties *)

SearchTypeOK ==
    /\ query \in Queries /\ debounced \in Queries
    /\ cache \subseteq Words /\ asked \in BOOLEAN /\ failed \subseteq Words /\ lastData \in Queries
    /\ lists \in {"loading", "failed", "loaded"}
    /\ previous \in Messages /\ first \in Messages /\ spoken \in Messages
    /\ mobile \in BOOLEAN /\ searchOpen \in BOOLEAN
    /\ sheetOpen \in BOOLEAN /\ showBeta \in BOOLEAN /\ arranging \in BOOLEAN /\ strayed \in BOOLEAN
    /\ menu \in Menus /\ dialog \in Dialogs /\ back \in Places /\ focus \in Places

\* When nothing is under way, the services on screen are the answer to the words
\* in the field, and the last number said aloud is theirs, however queries,
\* answers and failures followed each other.  Only the search that the page first
\* settled on goes unsaid: one typed before the catalogue and the favorites came.
QuietSearchIsRight ==
    (lists # "loading" /\ Searching /\ debounced = query /\ ~asked /\ query \notin failed)
        => /\ Answer = query
           /\ \/ spoken.key = query /\ Count(spoken) = Hits[query]
              \/ spoken = Silent /\ first.key = query

\* A search is answered or says that it failed, unless the user changes it first
\* (Dashboard.tsx:230-235: never a stuck spinner).
SearchEnds ==
    \A w \in Words : query = w ~> (query # w \/ SearchFailed \/ Answer = w)

\* A dialog that is up has the keyboard, and so has a panel under no dialog, as far
\* as it is not inert and its row not gone: nothing is typed into the search from
\* under them (GlobalSearch.tsx:291-300, NotificationBell.tsx:69-98).  Excepted is a
\* keyboard that was taken out from under a dialog, by a press on the scrim that did
\* not close it or by the phone's field standing down under it (strayed).
SearchYieldsToLayers ==
    ~strayed =>
        /\ DialogShown => focus = "dialog"
        /\ menu # "none" => focus \in {"dialog", "panel", "row", "body", "pill", Trigger(menu)}

\* A panel or a dialog that closes gives the keyboard back to what is on screen
\* behind it, never to nothing (dialog.tsx:7-12, TopBar.tsx:208-225).  Excepted are a
\* press outside the panel, which says itself where the focus goes; Anordnen, which
\* leaves it on nothing; a dialog whose opener is itself gone; a keyboard that had
\* strayed; and the bar covered by the phone's field, as it can be when a window
\* with a panel open and a query becomes narrow.
Closes == (LayerUp /\ ~LayerUp') \/ (DialogShown /\ ~DialogShown')
OwnerGone == DialogShown /\ dialog # "beta" /\ back \in {"body", "dialog"}
FocusReturns ==
    [][(/\ Closes /\ mobile' = mobile
        /\ ~PressOutside /\ ~Arrange /\ ~OwnerGone /\ ~strayed /\ ~PhoneSearchOpen)
            => focus' # "body"]_searchVars

\* The live region tells the count of a search once it has settled
\* (hooks.ts:47-49, Dashboard.tsx:252-257).
OnlySettledIsSpoken == spoken.key \in Words => spoken.of = spoken.key

=============================================================================
