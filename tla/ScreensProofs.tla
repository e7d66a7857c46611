--------------------------- MODULE ScreensProofs ---------------------------
(***************************************************************************)
(* Proofs about two screens of the web UI: the search of the launcher, for *)
(* every set of queries and hits, and the forms of the admin screen, for   *)
(* every number of forms, writes and records.                              *)
(***************************************************************************)
EXTENDS AdminScreens, Search, FiniteSetTheorems, SequenceTheorems, TLAPS

-----------------------------------------------------------------------------
(***************************************************************************)
(* Search: the answers and what is said of them.                           *)
(***************************************************************************)

\* The queries and the answers keep their types.
TextOK ==
    /\ query \in Queries /\ debounced \in Queries
    /\ cache \subseteq Words /\ asked \in BOOLEAN /\ failed \subseteq Words /\ lastData \in Queries
    /\ lists \in {"loading", "failed", "loaded"}
    /\ previous \in Messages /\ first \in Messages /\ spoken \in Messages

\* A query that is not being fetched and has not failed has its answer.
AnswersArrive ==
    /\ asked => debounced # Blank
    /\ debounced # Blank /\ ~asked /\ debounced \notin failed => debounced \in cache

\* What settled last is what the region was told last, and if that was a search,
\* its key and number were said aloud: unless nothing was said so far, because
\* nothing but the first to settle has settled.
SettledIsTold ==
    /\ Settled => previous = Told
    /\ previous = Silent => spoken = Silent
    /\ previous = Silent <=> first = Silent
    /\ spoken = Silent => previous.key = first.key
    /\ spoken # Silent /\ previous.key \in Words
        => spoken.key = previous.key /\ Count(spoken) = Count(previous)

AnswersInv == TextOK /\ AnswersArrive /\ SettledIsTold

\* The panels and dialogs do not touch the text or the bar.
LEMMA LayersKeepThePage ==
    ASSUME Layers
    PROVE  UNCHANGED page
BY DEF Layers, OpenPanel, OpenSheet, EscapeMenu, PressOutside, PressScrim, Wander, OpenNotice,
   ToggleBeta, Rerender, RowGoes, ContentGoes, CloseDialog, Arrange, EndArrange

\* A step types a query, is one of the six of the fetch, or does not touch the text.
LEMMA TextSteps ==
    ASSUME [SearchNext]_searchVars
    PROVE  \/ Announce /\ query' \in Queries /\ UNCHANGED <<debounced, results, lists>>
           \/ Debounce
           \/ Refetch
           \/ Answered
           \/ FetchFails
           \/ Collected
           \/ ListsTurn
           \/ UNCHANGED text
<1>1. ASSUME NEW q \in Queries, SetQuery(q), Announce
      PROVE  Announce /\ query' \in Queries /\ UNCHANGED <<debounced, results, lists>>
  BY <1>1 DEF SetQuery
<1>2. CASE Typing
  BY <1>1, <1>2 DEF Typing, Type, ClearText, ClearSearch, BackUnderDialog, EscapeField, Queries
<1>3. CASE Fetching
  BY <1>3 DEF Fetching
<1>4. CASE Field
  BY <1>4 DEF Field, Hotkey, ClickField, Cross
<1>5. CASE Layers
  <2>1. UNCHANGED page
    BY <1>5, LayersKeepThePage
  <2> QED
    BY <2>1 DEF page
<1>6. CASE UNCHANGED searchVars
  BY <1>6 DEF searchVars, text, results
<1> QED
  BY <1>2, <1>3, <1>4, <1>5, <1>6 DEF SearchNext

LEMMA ToldIsAMessage ==
    query \in Queries /\ debounced \in Queries /\ lastData \in Queries
        => Told \in Messages /\ Told # Silent
<1> SUFFICES ASSUME query \in Queries, debounced \in Queries, lastData \in Queries
             PROVE  Told \in Messages /\ Told # Silent
  OBVIOUS
<1>1. Answer \in Queries
  BY DEF Answer, Queries
<1>2. "none" \notin Queries \cup {"tab"}
  BY SearchAssumption DEF Queries, Blank
<1>3. CASE Searching
  BY <1>1, <1>2, <1>3 DEF Told, Messages, Silent
<1>4. CASE ~Searching
  BY <1>2, <1>4 DEF Told, Messages, Silent, Nothing
<1> QED
  BY <1>3, <1>4

\* The same after a step.
LEMMA ToldNextIsAMessage ==
    (query \in Queries /\ debounced \in Queries /\ lastData \in Queries
        => Told \in Messages /\ Told # Silent)'
BY ToldIsAMessage, PTL

LEMMA TextTyped ==
    ASSUME TextOK, AnswersArrive, [SearchNext]_searchVars
    PROVE  TextOK'
<1> USE DEF TextOK
<1>1. ASSUME query' \in Queries, debounced' \in Queries, lastData' \in Queries, Announce
      PROVE  previous' \in Messages /\ first' \in Messages /\ spoken' \in Messages
  <2>1. Told' \in Messages
    BY <1>1, ToldNextIsAMessage
  <2> QED
    BY <1>1, <2>1 DEF Announce
<1>2. debounced \in Words \/ ~asked
  BY DEF AnswersArrive, Queries
<1>3. CASE Announce /\ query' \in Queries /\ UNCHANGED <<debounced, results, lists>>
  BY <1>1, <1>3 DEF results
<1>4. CASE Debounce
  <2>1. asked' \in BOOLEAN
    BY <1>4 DEF Debounce
  <2>2. /\ query' = query /\ debounced' = query /\ cache' = cache /\ failed' \subseteq failed
        /\ lastData' \in {query, lastData} /\ Announce /\ lists' = lists
    BY <1>4 DEF Debounce
  <2> QED
    BY <1>1, <2>1, <2>2
<1>5. CASE Refetch
  <2>1. /\ UNCHANGED <<query, debounced, cache, lastData>> /\ asked' = TRUE /\ failed' \subseteq failed
        /\ Announce /\ lists' = lists
    BY <1>5 DEF Refetch
  <2> QED
    BY <1>1, <2>1
<1>6. CASE Answered
  <2>1. /\ UNCHANGED <<query, debounced>> /\ asked' = FALSE /\ failed' \subseteq failed
        /\ cache' = cache \cup {debounced} /\ lastData' = debounced /\ Announce /\ lists' = lists /\ asked
    BY <1>6 DEF Answered
  <2> QED
    BY <1>1, <1>2, <2>1
<1>7. CASE FetchFails
  <2>1. /\ UNCHANGED <<query, debounced, cache, lastData>> /\ asked' = FALSE
        /\ failed' = failed \cup {debounced} /\ Announce /\ lists' = lists /\ asked
    BY <1>7 DEF FetchFails
  <2> QED
    BY <1>1, <1>2, <2>1
<1>8. CASE Collected
  BY <1>8 DEF Collected
<1>9. CASE ListsTurn
  <2>1. UNCHANGED <<query, debounced, results>> /\ lists' \in {"loading", "failed", "loaded"} /\ Announce
    BY <1>9 DEF ListsTurn
  <2> QED
    BY <1>1, <2>1 DEF results
<1>10. CASE UNCHANGED text
  BY <1>10 DEF text, results
<1> QED
  BY <1>3, <1>4, <1>5, <1>6, <1>7, <1>8, <1>9, <1>10, TextSteps

\* Whatever ends a fetch leaves an answer or a failure.
LEMMA AnswersStep ==
    ASSUME TextOK, AnswersArrive, [SearchNext]_searchVars
    PROVE  AnswersArrive'
<1> USE DEF AnswersArrive
<1>1. CASE Debounce
  BY <1>1 DEF Debounce, Enabled
<1>2. CASE Refetch
  BY <1>2 DEF Refetch, Enabled
<1>3. CASE Answered
  BY <1>3 DEF Answered
<1>4. CASE FetchFails
  BY <1>4 DEF FetchFails
<1>5. CASE Collected
  BY <1>5 DEF Collected
<1>6. CASE UNCHANGED <<debounced, results, lists>> \/ ListsTurn \/ UNCHANGED text
  BY <1>6 DEF text, results, ListsTurn
<1> QED
  BY <1>1, <1>2, <1>3, <1>4, <1>5, <1>6, TextSteps

\* The effect of a render tells the region what is settled, and says what is news.
LEMMA AnnouncedIsTold ==
    ASSUME TextOK, TextOK', SettledIsTold, Announce
    PROVE  SettledIsTold'
<1> USE DEF SettledIsTold
<1>1. Told' # Silent
  BY ToldNextIsAMessage DEF TextOK
<1>2. CASE ~Settled'
  BY <1>2 DEF Announce
<1>3. CASE Settled' /\ News(previous, Told')
  <2>1. previous' = Told' /\ spoken' = Told' /\ first' = first /\ previous # Silent
    BY <1>3 DEF Announce, News
  <2> QED
    BY <1>1, <2>1
<1>4. CASE Settled' /\ previous = Silent
  <2>1. previous' = Told' /\ spoken' = spoken /\ first' = Told'
    BY <1>4 DEF Announce, News
  <2> QED
    BY <1>1, <1>4, <2>1
<1>5. CASE Settled' /\ previous # Silent /\ ~News(previous, Told')
  <2>1. previous' = Told' /\ spoken' = spoken /\ first' = first
    BY <1>5 DEF Announce
  <2>2. previous.key = previous'.key /\ Count(previous) = Count(previous')
    BY <1>5, <2>1 DEF News
  <2>3. Count(spoken') = Count(spoken)
    BY <2>1
  <2> QED
    BY <1>1, <1>5, <2>1, <2>2, <2>3
<1> QED
  BY <1>2, <1>3, <1>4, <1>5

LEMMA ToldStep ==
    ASSUME TextOK, AnswersArrive, SettledIsTold, [SearchNext]_searchVars
    PROVE  SettledIsTold'
<1>1. TextOK'
  BY TextTyped
<1>2. CASE Announce
  BY <1>1, <1>2, AnnouncedIsTold
<1>3. CASE Collected
  <2>1. /\ UNCHANGED <<query, debounced, lastData, lists, previous, first, spoken>>
        /\ debounced \in cache <=> debounced \in cache'
        /\ debounced \in failed <=> debounced \in failed'
    BY <1>3 DEF Collected
  <2>2. Searching' = Searching /\ Answer' = Answer
    BY <2>1 DEF Searching, Answer
  <2>3. Told' = Told /\ (Settled' <=> Settled)
    BY <2>1, <2>2 DEF Told, Settled, SearchPending, SearchFailed
  <2> QED
    BY <2>1, <2>3 DEF SettledIsTold
<1>4. CASE UNCHANGED text
  <2>1. UNCHANGED <<query, debounced, cache, asked, failed, lastData, lists, previous, first, spoken>>
    BY <1>4 DEF text, results
  <2>2. Searching' = Searching /\ Answer' = Answer
    BY <2>1 DEF Searching, Answer
  <2>3. Told' = Told /\ (Settled' <=> Settled)
    BY <2>1, <2>2 DEF Told, Settled, SearchPending, SearchFailed
  <2> QED
    BY <2>1, <2>3 DEF SettledIsTold
<1> QED
  BY <1>2, <1>3, <1>4, TextSteps DEF Debounce, Refetch, Answered, FetchFails, ListsTurn

THEOREM AnswersInvariant == SearchSpec => []AnswersInv
<1>1. SearchInit => AnswersInv
  <2> SUFFICES ASSUME SearchInit PROVE AnswersInv
    OBVIOUS
  <2>1. TextOK
    BY DEF SearchInit, TextOK, Queries, Messages, Nothing, Silent
  <2>2. AnswersArrive
    BY DEF SearchInit, AnswersArrive
  <2>3. SettledIsTold
    BY DEF SearchInit, SettledIsTold, Settled
  <2> QED
    BY <2>1, <2>2, <2>3 DEF AnswersInv
<1>2. AnswersInv /\ [SearchNext]_searchVars => AnswersInv'
  BY TextTyped, AnswersStep, ToldStep DEF AnswersInv
<1> QED
  BY <1>1, <1>2, PTL DEF SearchSpec

\* When nothing is under way, the services on screen are the answer to the words in
\* the field, and the last number said aloud is theirs, or nothing was said yet and
\* they are the search that the page first settled on.
THEOREM QuietSearchesAreRight == SearchSpec => []QuietSearchIsRight
<1>1. AnswersInv => QuietSearchIsRight
  <2> SUFFICES ASSUME AnswersInv, lists # "loading", Searching, debounced = query, ~asked,
                      query \notin failed
               PROVE  /\ Answer = query
                      /\ \/ spoken.key = query /\ Count(spoken) = Hits[query]
                         \/ spoken = Silent /\ first.key = query
    BY DEF QuietSearchIsRight
  <2>1. query \in Words /\ query \in cache
    BY DEF AnswersInv, AnswersArrive, TextOK, Searching, Queries
  <2>2. Answer = query
    BY <2>1 DEF Answer
  <2>3. Settled
    BY <2>1, <2>2 DEF Settled, SearchPending, SearchFailed, Searching
  <2>4. previous = [key |-> query, of |-> query]
    BY <2>2, <2>3 DEF AnswersInv, SettledIsTold, Told
  <2>5. previous.key = query /\ Count(previous) = Hits[query]
    BY <2>1, <2>4 DEF Count
  <2> QED
    BY <2>1, <2>2, <2>5 DEF AnswersInv, SettledIsTold
<1> QED
  BY <1>1, AnswersInvariant, PTL

-----------------------------------------------------------------------------
(***************************************************************************)
(* Search: the keyboard.                                                   *)
(***************************************************************************)

\* What is open, and where the keyboard is, keep their types.
LayersOK ==
    /\ mobile \in BOOLEAN /\ searchOpen \in BOOLEAN
    /\ sheetOpen \in BOOLEAN /\ showBeta \in BOOLEAN /\ arranging \in BOOLEAN /\ strayed \in BOOLEAN
    /\ menu \in Menus /\ dialog \in Dialogs /\ back \in Places /\ focus \in Places

\* A search and the edit mode take the sort menu away, and its sheet is the only layer
\* there is.
SortYields ==
    /\ sheetOpen \/ menu = "sort" => ~Searching /\ ~arranging
    /\ sheetOpen /\ mobile => dialog = "none" /\ menu = "none"

\* The keyboard is on something the user can use, and so is what a dialog that is open
\* will give it back to: the row of its notice, or what the sheet was opened from.
BackOfSheet == {"body", "avatar", "bell", "sort", "content"}
KeyboardIsHeld ==
    /\ Usable(focus)
    /\ strayed => LayerUp
    /\ strayed \/ dialog # "none" => menu # "sort"
    /\ dialog = "none" => back \in BackOfSheet
    /\ SheetShown => Usable(back)
    /\ dialog = "beta" => menu = "none"
    /\ ~strayed /\ dialog # "none" =>
          back \in {"row", "body", "dialog"} /\ (back = "row" => menu = "bell")

KeyboardInv == LayersOK /\ SortYields /\ KeyboardIsHeld /\ SearchYieldsToLayers

\* Where the focus may land when it is sent to p.
LEMMA FocusLands ==
    ASSUME NEW p \in Places, focus \in Places, FocusTo(p)
    PROVE  /\ Usable(focus)' /\ focus' \in Places
           /\ focus' \in {p, "pill", "body", focus}
           /\ Usable(p)' /\ (~PhoneSearchOpen \/ PhoneSearchOpen' \/ ~mobile') => focus' = p
<1>1. Usable("body")' /\ (mobile' /\ ~PhoneSearchOpen' => Usable("pill")')
  BY DEF Usable
<1>2. PICK q \in Places, f \in Places :
        /\ q = p /\ f = focus
        /\ focus' = IF PhoneSearchOpen /\ ~PhoneSearchOpen' /\ mobile' THEN "pill"
                    ELSE IF Usable(q)' THEN q
                    ELSE IF Usable(f)' THEN f ELSE "body"
  BY DEF FocusTo
<1>3. /\ q = p /\ f = focus
      /\ focus' \in {"pill", "body", q, f}
      /\ Usable(q)' /\ (~PhoneSearchOpen \/ PhoneSearchOpen' \/ ~mobile') => focus' = q
  BY <1>2
<1>4. Usable(focus)'
  <2>1. CASE PhoneSearchOpen /\ ~PhoneSearchOpen' /\ mobile'
    BY <1>1, <1>2, <2>1
  <2>2. CASE ~(PhoneSearchOpen /\ ~PhoneSearchOpen' /\ mobile') /\ Usable(q)'
    BY <1>2, <2>2
  <2>3. CASE ~(PhoneSearchOpen /\ ~PhoneSearchOpen' /\ mobile') /\ ~Usable(q)' /\ Usable(f)'
    BY <1>2, <2>3
  <2>4. CASE ~(PhoneSearchOpen /\ ~PhoneSearchOpen' /\ mobile') /\ ~Usable(q)' /\ ~Usable(f)'
    BY <1>1, <1>2, <2>4
  <2> QED
    BY <2>1, <2>2, <2>3, <2>4
<1> QED
  BY <1>2, <1>3, <1>4 DEF Places, PagePlaces

\* Nothing on screen changes while what is laid over it stays.
LEMMA SameScreen ==
    ASSUME UNCHANGED <<query, mobile, searchOpen, menu, dialog, sheetOpen, arranging>>
    PROVE  /\ PhoneSearchOpen' = PhoneSearchOpen
           /\ SortYields' = SortYields
           /\ DialogShown' = DialogShown
           /\ SheetShown' = SheetShown
           /\ LayerUp' = LayerUp
           /\ \A p \in Places : Usable(p)' = Usable(p)
BY DEF SortYields, Searching, DialogShown, SheetShown, LayerUp, Usable, PhoneSearchOpen

\* The keyboard keeps its place while an answer comes and goes, unless it was in the
\* content.
LEMMA KeyboardStays ==
    ASSUME KeyboardInv, UNCHANGED <<query, mobile, searchOpen, layers>>,
           FocusStays \/ UNCHANGED focus
    PROVE  KeyboardInv'
<1>1. /\ PhoneSearchOpen' = PhoneSearchOpen
      /\ SortYields' = SortYields
      /\ DialogShown' = DialogShown
      /\ SheetShown' = SheetShown
      /\ LayerUp' = LayerUp
      /\ \A p \in Places : Usable(p)' = Usable(p)
  BY SameScreen DEF layers
<1>2. focus \in Places /\ back \in Places /\ Usable(focus) /\ "body" \in Places /\ Usable("body")
  BY DEF KeyboardInv, LayersOK, KeyboardIsHeld, Places, PagePlaces, Usable
<1>3. focus' = focus \/ (focus = "content" /\ focus' = "body")
  <2>1. CASE UNCHANGED focus
    BY <2>1
  <2>2. CASE FocusStays
    <3>1. PICK p \in {focus} \cup (IF focus = "content" THEN {"body"} ELSE {}) : FocusTo(p)
      BY <2>2 DEF FocusStays
    <3>2. p \in Places /\ Usable(p)'
      BY <1>1, <1>2, <3>1
    <3>3. focus' = p
      BY <1>1, <1>2, <3>1, <3>2, FocusLands
    <3> QED
      BY <3>1, <3>3
  <2> QED
    BY <2>1, <2>2
<1>4. focus' \in Places /\ Usable(focus)'
  BY <1>1, <1>2, <1>3
<1>5. LayersOK' /\ KeyboardIsHeld'
  BY <1>1, <1>2, <1>4 DEF KeyboardInv, LayersOK, KeyboardIsHeld, layers
<1>6. SearchYieldsToLayers'
  <2>1. menu = menu' /\ strayed = strayed'
    BY DEF layers
  <2>2. menu # "none" => Trigger(menu) # "content"
    BY DEF Trigger, KeyboardInv, LayersOK, Menus
  <2> QED
    BY <1>1, <1>3, <2>1, <2>2 DEF KeyboardInv, SearchYieldsToLayers
<1> QED
  BY <1>1, <1>5, <1>6 DEF KeyboardInv

\* A query changes, under a layer only to the blank one and with the focus kept.
LEMMA KeyboardAfterTyping ==
    ASSUME KeyboardInv, NEW q \in Queries, SetQuery(q), searchOpen' \in {searchOpen, FALSE},
           NEW p \in Places, FocusTo(p),
           \/ strayed \/ ~LayerUp
           \/ q = Blank /\ p = focus /\ ~(DialogShown /\ PhoneSearchOpen)
    PROVE  KeyboardInv'
<1>1. /\ query' = q /\ sheetOpen' = (sheetOpen /\ q = Blank) /\ arranging' = (arranging /\ q = Blank)
      /\ strayed' = (strayed /\ LayerUp')
      /\ UNCHANGED <<mobile, menu, dialog, back, showBeta>>
    BY DEF SetQuery
<1>2. Usable(focus)' /\ focus' \in Places /\ focus' \in {p, "pill", "body", focus}
      /\ (Usable(p)' /\ ~PhoneSearchOpen => focus' = p)
  BY FocusLands DEF KeyboardInv, LayersOK
<1>3. /\ SheetShown' => SheetShown /\ q = Blank
      /\ DialogShown' => DialogShown
      /\ LayerUp' => LayerUp
      /\ sheetOpen' => sheetOpen /\ q = Blank
  BY <1>1 DEF KeyboardInv, SortYields, DialogShown, SheetShown, LayerUp
<1>4. SortYields'
  <2>1. menu = "sort" => q = Blank
    BY DEF KeyboardInv, KeyboardIsHeld, LayerUp
  <2>2. sheetOpen' \/ menu' = "sort" => ~Searching' /\ ~arranging'
    BY <1>1, <1>3, <2>1 DEF KeyboardInv, SortYields, Searching
  <2> QED
    BY <1>1, <1>3, <2>2 DEF KeyboardInv, SortYields
<1>5. LayersOK'
  <2>1. sheetOpen' \in BOOLEAN /\ arranging' \in BOOLEAN /\ strayed' \in BOOLEAN /\ searchOpen' \in BOOLEAN
    BY <1>1 DEF KeyboardInv, LayersOK
  <2> QED
    BY <1>1, <1>2, <2>1 DEF KeyboardInv, LayersOK
<1>6. SheetShown' => Usable(back)'
  <2> SUFFICES ASSUME SheetShown' PROVE Usable(back)'
    OBVIOUS
  <2>1. SheetShown /\ ~Searching' /\ q = Blank /\ dialog = "none" /\ ~arranging
    BY <1>3 DEF SheetShown, KeyboardInv, SortYields
  <2>2. PhoneSearchOpen' => PhoneSearchOpen
    BY <1>1, <2>1 DEF PhoneSearchOpen
  <2>3. ~arranging'
    BY <1>1, <2>1
  <2>4. Usable(back) /\ back \in BackOfSheet /\ back' = back
    BY <1>1, <2>1 DEF KeyboardInv, KeyboardIsHeld
  <2> QED
    BY <2>1, <2>2, <2>3, <2>4 DEF Usable, BackOfSheet
<1>7. KeyboardIsHeld'
  <2>1. ~strayed' /\ dialog # "none" => ~strayed
    BY <1>1 DEF LayerUp, DialogShown
  <2> QED
    BY <1>1, <1>2, <1>6, <2>1 DEF KeyboardInv, KeyboardIsHeld
<1>8. SearchYieldsToLayers'
  <2> SUFFICES ASSUME ~strayed', LayerUp'
               PROVE  /\ DialogShown' => focus' = "dialog"
                      /\ menu # "none" => focus' \in {"dialog", "panel", "row", "body", "pill", Trigger(menu)}
    BY <1>1 DEF SearchYieldsToLayers, LayerUp
  <2>1. ~strayed /\ p = focus /\ ~(DialogShown /\ PhoneSearchOpen)
    BY <1>1, <1>3
  <2>2. CASE DialogShown
    <3>1. p = "dialog" /\ focus = "dialog"
      BY <2>1, <2>2 DEF KeyboardInv, SearchYieldsToLayers
    <3>2. DialogShown' => focus' = "dialog"
      BY <1>2, <2>1, <2>2, <3>1 DEF Usable
    <3> QED
      BY <1>2, <3>1, <3>2
  <2>3. CASE ~DialogShown
    BY <1>2, <1>3, <2>1, <2>3 DEF KeyboardInv, SearchYieldsToLayers
  <2> QED
    BY <2>2, <2>3
<1> QED
  BY <1>4, <1>5, <1>7, <1>8 DEF KeyboardInv

\* In the field, nothing is laid over the launcher, unless the keyboard strayed there.
LEMMA FieldIsAlone ==
    ASSUME KeyboardInv, focus = "field"
    PROVE  strayed \/ ~LayerUp
<1>1. menu # "none" => Trigger(menu) # "field"
  BY DEF Trigger, KeyboardInv, LayersOK, Menus
<1> QED
  BY <1>1 DEF KeyboardInv, SearchYieldsToLayers, LayerUp

LEMMA KeyboardTyping ==
    ASSUME KeyboardInv, Typing
    PROVE  KeyboardInv'
<1> USE DEF Queries
<1>0. "field" \in Places /\ "body" \in Places /\ "content" \in Places /\ "pill" \in Places /\ focus \in Places
  BY DEF Places, PagePlaces, KeyboardInv, LayersOK
<1>1. CASE Type
  <2>1. PICK q \in Queries : SetQuery(q)
    BY <1>1 DEF Type
  <2>2. searchOpen' = searchOpen /\ FocusTo("field") /\ focus = "field"
    BY <1>1 DEF Type
  <2> QED
    BY <1>0, <2>1, <2>2, FieldIsAlone, KeyboardAfterTyping
<1>2. CASE ClearText
  <2>1. SetQuery(Blank) /\ searchOpen' = searchOpen /\ FocusTo("body") /\ ~LayerUp
    BY <1>2 DEF ClearText, LayerUp
  <2> QED
    BY <1>0, <2>1, KeyboardAfterTyping
<1>3. CASE ClearSearch
  <2>1. SetQuery(Blank) /\ searchOpen' = FALSE /\ ~(DialogShown /\ PhoneSearchOpen)
    BY <1>3 DEF ClearSearch
  <2>2. ASSUME NEW p \in {"content", "body"}, ~LayerUp, FocusTo(p) PROVE KeyboardInv'
    BY <1>0, <2>1, <2>2, KeyboardAfterTyping
  <2>3. CASE FocusTo(focus)
    BY <1>0, <2>1, <2>3, KeyboardAfterTyping
  <2>4. CASE focus = "content" /\ FocusTo("body")
    <3>1. strayed \/ ~LayerUp
      <4>1. menu # "none" => Trigger(menu) # "content"
        BY DEF Trigger, KeyboardInv, LayersOK, Menus
      <4> QED
        BY <2>4, <4>1 DEF KeyboardInv, SearchYieldsToLayers, LayerUp
    <3> QED
      BY <1>0, <2>1, <2>4, <3>1, KeyboardAfterTyping
  <2>5. CASE FocusStays
    <3>1. PICK p \in {focus} \cup (IF focus = "content" THEN {"body"} ELSE {}) : FocusTo(p)
      BY <2>5 DEF FocusStays
    <3> QED
      BY <2>3, <2>4, <3>1
  <2> QED
    BY <1>3, <2>2, <2>5 DEF ClearSearch, LayerUp
<1>4. CASE BackUnderDialog
  <2>1. /\ query' = Blank /\ searchOpen' = FALSE /\ strayed' = TRUE
        /\ UNCHANGED <<mobile, menu, dialog, sheetOpen, back, showBeta, arranging>>
        /\ FocusTo("pill") /\ DialogShown
    BY <1>4 DEF BackUnderDialog
  <2>2. Usable(focus)' /\ focus' \in Places
    BY <1>0, <2>1, FocusLands
  <2>3. ~Searching' /\ ~PhoneSearchOpen'
    BY <2>1 DEF Searching, PhoneSearchOpen
  <2>4. SortYields'
    BY <2>1, <2>3 DEF KeyboardInv, SortYields
  <2>5. LayerUp'
    BY <2>1, <2>3 DEF LayerUp, DialogShown, SheetShown
  <2>6. SheetShown' => Usable(back)'
    <3> SUFFICES ASSUME SheetShown' PROVE Usable(back)'
      OBVIOUS
    <3>1. sheetOpen /\ mobile
      BY <2>1 DEF SheetShown
    <3>2. dialog = "none" /\ ~arranging' /\ back' \in BackOfSheet
      BY <2>1, <3>1 DEF KeyboardInv, SortYields, KeyboardIsHeld
    <3> QED
      BY <2>3, <3>2 DEF Usable, BackOfSheet
  <2>7. LayersOK'
    BY <2>1, <2>2 DEF KeyboardInv, LayersOK
  <2>8. menu # "sort"
    BY <2>1 DEF KeyboardInv, KeyboardIsHeld, SortYields, DialogShown, SheetShown
  <2>9. KeyboardIsHeld'
    BY <2>1, <2>2, <2>5, <2>6, <2>8 DEF KeyboardInv, KeyboardIsHeld
  <2> QED
    BY <2>1, <2>4, <2>7, <2>9 DEF KeyboardInv, SearchYieldsToLayers
<1>5. CASE EscapeField /\ mobile
  <2>1. SetQuery(Blank) /\ searchOpen' = FALSE /\ FocusTo("body") /\ focus = "field"
    BY <1>5 DEF EscapeField
  <2> QED
    BY <1>0, <2>1, FieldIsAlone, KeyboardAfterTyping
<1>6. CASE EscapeField /\ ~mobile
  <2>1. UNCHANGED <<query, mobile, searchOpen, layers>> /\ FocusTo("body") /\ focus = "field"
    BY <1>6 DEF EscapeField, text
  <2>2. /\ PhoneSearchOpen' = PhoneSearchOpen
        /\ SortYields' = SortYields
        /\ DialogShown' = DialogShown
        /\ SheetShown' = SheetShown
        /\ LayerUp' = LayerUp
        /\ \A p \in Places : Usable(p)' = Usable(p)
    BY <2>1, SameScreen DEF layers
  <2>3. strayed \/ ~LayerUp
    BY <2>1, FieldIsAlone
  <2>4. Usable(focus)' /\ focus' \in Places
    BY <1>0, <2>1, FocusLands
  <2>5. SearchYieldsToLayers'
    BY <2>1, <2>2, <2>3 DEF SearchYieldsToLayers, LayerUp, layers
  <2>6. LayersOK' /\ KeyboardIsHeld'
    BY <2>1, <2>2, <2>4 DEF KeyboardInv, LayersOK, KeyboardIsHeld, layers
  <2> QED
    BY <2>2, <2>5, <2>6 DEF KeyboardInv
<1> QED
  BY <1>1, <1>2, <1>3, <1>4, <1>5, <1>6 DEF Typing

LEMMA KeyboardField ==
    ASSUME KeyboardInv, Field
    PROVE  KeyboardInv'
<1>0. "field" \in Places /\ "body" \in Places /\ "dialog" \in Places /\ focus \in Places
  BY DEF Places, PagePlaces, KeyboardInv, LayersOK
<1>1. CASE Hotkey
  <2>1. /\ UNCHANGED <<query, mobile, menu, dialog, sheetOpen, back, showBeta, arranging, strayed>>
        /\ searchOpen' \in BOOLEAN /\ ~LayerUp /\ FocusTo("field")
    BY <1>1 DEF Hotkey, HotkeyHeard, OverlayOpen, text, layers, KeyboardInv, LayersOK
  <2>2. Usable(focus)' /\ focus' \in Places
    BY <1>0, <2>1, FocusLands
  <2>3. ~LayerUp' /\ ~DialogShown' /\ ~SheetShown' /\ SortYields'
    BY <2>1 DEF LayerUp, DialogShown, SheetShown, SortYields, Searching, KeyboardInv
  <2>4. LayersOK' /\ KeyboardIsHeld'
    BY <2>1, <2>2, <2>3 DEF KeyboardInv, LayersOK, KeyboardIsHeld, LayerUp, DialogShown
  <2> QED
    BY <2>1, <2>3, <2>4 DEF KeyboardInv, SearchYieldsToLayers, LayerUp
<1>2. CASE ClickField
  <2>1. /\ UNCHANGED <<query, mobile, dialog, sheetOpen, back, showBeta, arranging>>
        /\ searchOpen' \in BOOLEAN /\ menu' = "none" /\ strayed' = FALSE
        /\ ~DialogShown /\ FocusTo("field")
    BY <1>2 DEF ClickField, text
  <2>2. Usable(focus)' /\ focus' \in Places
    BY <1>0, <2>1, FocusLands
  <2>3. ~LayerUp' /\ ~DialogShown' /\ ~SheetShown' /\ SortYields' /\ dialog = "none"
    BY <2>1 DEF LayerUp, DialogShown, SheetShown, SortYields, Searching, KeyboardInv
  <2>4. LayersOK' /\ KeyboardIsHeld'
    BY <2>1, <2>2, <2>3 DEF KeyboardInv, LayersOK, KeyboardIsHeld, Menus
  <2> QED
    BY <2>1, <2>3, <2>4 DEF KeyboardInv, SearchYieldsToLayers
<1>3. CASE Cross
  <2>0. PICK kept \in Places : kept = IF Remounted(focus) THEN "body" ELSE focus
    BY <1>0
  <2>1. /\ sheetOpen => dialog = "none" /\ menu \in {"none", "sort"}
        /\ mobile' = ~mobile /\ searchOpen' = FALSE
        /\ menu' = IF menu = "sort" THEN "none" ELSE menu
        /\ back' = IF sheetOpen THEN kept ELSE back
        /\ strayed' = (strayed /\ LayerUp' /\ ~SheetShown')
        /\ UNCHANGED <<query, dialog, sheetOpen, showBeta, arranging>>
    BY <1>3, <2>0 DEF Cross, text
  <2>2. \/ SheetShown' /\ focus' = "dialog"
        \/ ~SheetShown' /\ Remounted(focus) /\ focus' = "body"
        \/ ~SheetShown' /\ ~Remounted(focus) /\ FocusTo(focus)
    BY <1>3 DEF Cross
  <2>3. /\ kept \notin {"field", "sort", "pill"} /\ (kept = "panel" => menu # "sort")
        /\ (SheetShown => kept # "dialog") /\ kept \in {"body", focus}
    BY <2>0 DEF Remounted
  <2>4. Usable(kept)
    BY <2>3 DEF KeyboardInv, KeyboardIsHeld, Usable
  <2>5. sheetOpen => ~Searching /\ ~PhoneSearchOpen' /\ kept \in {"body", "avatar", "bell", "content"}
    <3> SUFFICES ASSUME sheetOpen
                 PROVE  ~Searching /\ ~PhoneSearchOpen' /\ kept \in {"body", "avatar", "bell", "content"}
      OBVIOUS
    <3>1. ~Searching /\ ~Searching' /\ dialog = "none" /\ menu \in {"none", "sort"}
      BY <2>1 DEF KeyboardInv, SortYields, Searching
    <3>2. kept \notin {"panel", "row", "dialog"}
      BY <2>3, <2>4, <3>1 DEF Usable, DialogShown
    <3> QED
      BY <2>1, <2>3, <3>1, <3>2 DEF PhoneSearchOpen, Places, PagePlaces
  <2>6. focus' \in Places /\ Usable(focus)' /\ focus' \in {"dialog", "body", "pill", focus}
    <3>1. CASE SheetShown' /\ focus' = "dialog"
      BY <1>0, <3>1 DEF Usable, DialogShown
    <3>2. CASE focus' = "body"
      BY <1>0, <3>2 DEF Usable
    <3>3. CASE FocusTo(focus)
      BY <1>0, <3>3, FocusLands
    <3> QED
      BY <2>2, <3>1, <3>2, <3>3
  <2>7. LayersOK'
    <3>1. menu' \in Menus /\ back' \in Places
      BY <2>0, <2>1 DEF KeyboardInv, LayersOK, Menus
    <3>2. mobile' \in BOOLEAN /\ strayed' \in BOOLEAN /\ searchOpen' \in BOOLEAN
      BY <2>1
    <3> QED
      BY <2>1, <2>6, <3>1, <3>2 DEF KeyboardInv, LayersOK
  <2>8. SortYields'
    BY <2>1 DEF KeyboardInv, SortYields, Searching
  <2>9. KeyboardIsHeld'
    <3>1. SheetShown' => Usable(back)'
      BY <2>1, <2>5 DEF SheetShown, Usable
    <3>2. dialog' = "none" => back' \in BackOfSheet
      BY <2>1, <2>5 DEF KeyboardInv, KeyboardIsHeld, BackOfSheet
    <3>3. ~strayed' /\ dialog' # "none" =>
            back' \in {"row", "body", "dialog"} /\ (back' = "row" => menu' = "bell")
      <4> SUFFICES ASSUME ~strayed', dialog' # "none"
                   PROVE  back' \in {"row", "body", "dialog"} /\ (back' = "row" => menu' = "bell")
        OBVIOUS
      <4>1. ~strayed /\ ~sheetOpen /\ dialog # "none"
        BY <2>1 DEF LayerUp, DialogShown, SheetShown
      <4> QED
        BY <2>1, <4>1 DEF KeyboardInv, KeyboardIsHeld
    <3>4. menu' # "sort" /\ (dialog' = "beta" => menu' = "none")
      BY <2>1 DEF KeyboardInv, KeyboardIsHeld
    <3> QED
      BY <2>1, <2>6, <3>1, <3>2, <3>3, <3>4 DEF KeyboardIsHeld
  <2>10. SearchYieldsToLayers'
    <3> SUFFICES ASSUME ~strayed'
                 PROVE  /\ DialogShown' => focus' = "dialog"
                        /\ menu' # "none" =>
                              focus' \in {"dialog", "panel", "row", "body", "pill", Trigger(menu')}
      BY DEF SearchYieldsToLayers
    <3>1. CASE SheetShown'
      BY <2>2, <3>1
    <3>2. CASE ~SheetShown' /\ strayed
      <4>1. ~LayerUp'
        BY <2>1, <3>2
      <4> QED
        BY <4>1 DEF LayerUp
    <3>3. CASE ~SheetShown' /\ ~strayed
      <4>1. menu' # "none" => menu' = menu
        BY <2>1
      <4>2. menu' # "none" => focus' \in {"dialog", "panel", "row", "body", "pill", Trigger(menu')}
        BY <2>6, <3>3, <4>1 DEF KeyboardInv, SearchYieldsToLayers
      <4>3. DialogShown' => focus' = "dialog"
        <5> SUFFICES ASSUME DialogShown' PROVE focus' = "dialog"
          OBVIOUS
        <5>1. dialog # "none" /\ ~sheetOpen
          BY <2>1, <3>3 DEF DialogShown
        <5>2. focus = "dialog" /\ ~Remounted(focus)
          BY <3>3, <5>1 DEF KeyboardInv, SearchYieldsToLayers, DialogShown, SheetShown, Remounted
        <5>3. FocusTo("dialog")
          BY <2>2, <3>3, <5>2
        <5>4. Usable("dialog")'
          BY DEF Usable
        <5>5. ~PhoneSearchOpen \/ ~mobile'
          BY <2>1 DEF PhoneSearchOpen, KeyboardInv, LayersOK
        <5> QED
          BY <1>0, <5>3, <5>4, <5>5, FocusLands
      <4> QED
        BY <4>2, <4>3
    <3> QED
      BY <3>1, <3>2, <3>3
  <2> QED
    BY <2>7, <2>8, <2>9, <2>10 DEF KeyboardInv
<1> QED
  BY <1>1, <1>2, <1>3 DEF Field

\* Panels and dialogs come and go, the keyboard moves among them, and some of it is
\* taken away from them.
LEMMA KeyboardLayers ==
    ASSUME KeyboardInv, Layers
    PROVE  KeyboardInv'
<1>0. UNCHANGED <<query, mobile, searchOpen>> /\ focus \in Places
  BY LayersKeepThePage DEF page, text, KeyboardInv, LayersOK
<1>1. Searching' = Searching /\ PhoneSearchOpen' = PhoneSearchOpen
  BY <1>0 DEF Searching, PhoneSearchOpen
<1> USE DEF KeyboardInv, LayersOK, SortYields, KeyboardIsHeld, SearchYieldsToLayers, BackOfSheet,
            LayerUp, DialogShown, SheetShown, PagePlaces
<1>2. ASSUME NEW m \in Menus \ {"none"}, OpenPanel(m) PROVE KeyboardInv'
  <2>1. /\ ~DialogShown /\ Usable(Trigger(m)) /\ strayed' = FALSE
        /\ UNCHANGED <<dialog, sheetOpen, back, showBeta, arranging>>
        /\ menu' \in {"none", m} /\ focus' = (IF menu' = "none" THEN Trigger(m) ELSE "panel")
        /\ (m = "sort" => ~mobile)
    BY <1>2 DEF OpenPanel
  <2>2. Trigger(m) \in {"avatar", "bell", "sort"} /\ (m # "sort" => Trigger(m) \in {"avatar", "bell"})
        /\ (m = "sort" => Trigger(m) = "sort")
    BY DEF Trigger, Menus
  <2>3. Usable(Trigger(m))' /\ (m = "sort" => ~Searching /\ ~arranging) /\ (m # "sort" => ~PhoneSearchOpen)
    BY <1>0, <1>1, <2>1, <2>2 DEF Usable
  <2>4. Usable(focus)'
    BY <1>1, <2>1, <2>3 DEF Usable
  <2>5. dialog = "none" /\ ~SheetShown' /\ ~DialogShown'
    BY <1>0, <1>1, <2>1
  <2> QED
    BY <1>0, <1>1, <2>1, <2>2, <2>3, <2>4, <2>5 DEF Places, Menus
<1>3. CASE OpenSheet
  BY <1>0, <1>1, <1>3 DEF OpenSheet, Usable, Places, layers
<1>4. CASE EscapeMenu
  <2>1. /\ ~DialogShown /\ menu # "none" /\ UNCHANGED <<dialog, sheetOpen, back, showBeta, arranging>>
        /\ menu' = "none" /\ strayed' = FALSE
    BY <1>4 DEF EscapeMenu
  <2>2. PICK at \in Places : at = Trigger(menu)
    BY <2>1 DEF Trigger, Menus, Places
  <2>3. FocusTo(at)
    BY <1>4, <2>2 DEF EscapeMenu
  <2>4. Usable(focus)' /\ focus' \in Places
    BY <1>0, <2>3, FocusLands
  <2> QED
    BY <1>0, <1>1, <2>1, <2>4 DEF Menus
<1>5. CASE PressOutside
  <2>1. /\ ~DialogShown /\ UNCHANGED <<dialog, sheetOpen, back, showBeta, arranging>>
        /\ menu' = "none" /\ strayed' = FALSE
    BY <1>5 DEF PressOutside
  <2>2. PICK p \in PagePlaces : Usable(p) /\ focus' = p
    BY <1>5 DEF PressOutside
  <2>3. Usable(focus)' /\ focus' \in Places
    BY <1>0, <1>1, <2>1, <2>2 DEF Usable, Places
  <2> QED
    BY <1>0, <1>1, <2>1, <2>3 DEF Menus
<1>6. CASE PressScrim
  <2>1. DialogShown /\ focus' = "body" /\ strayed' = TRUE
        /\ UNCHANGED <<menu, dialog, sheetOpen, back, showBeta, arranging>>
    BY <1>6 DEF PressScrim
  <2>2. SheetShown' = SheetShown /\ (SheetShown => Usable(back)') /\ Usable(focus)'
    BY <1>0, <1>1, <2>1 DEF Usable
  <2>3. menu # "sort"
    BY <2>1
  <2> QED
    BY <1>0, <1>1, <2>1, <2>2, <2>3 DEF Places
<1>7. CASE Wander
  <2>1. UNCHANGED <<menu, dialog, sheetOpen, back, showBeta, arranging, strayed>>
        /\ ~(DialogShown /\ focus = "dialog")
    BY <1>7 DEF Wander, layers
  <2>2. /\ PhoneSearchOpen' = PhoneSearchOpen
        /\ SortYields' = SortYields
        /\ DialogShown' = DialogShown
        /\ SheetShown' = SheetShown
        /\ LayerUp' = LayerUp
        /\ \A p \in Places : Usable(p)' = Usable(p)
    BY <1>0, <2>1, SameScreen
  <2>3. PICK p \in Places : /\ Usable(p) /\ focus' = p
                            /\ ~DialogShown /\ menu # "none" => p \in {"panel", "row", Trigger(menu)}
    <3>1. CASE DialogShown
      BY <1>7, <3>1 DEF Wander, Places
    <3>2. CASE ~DialogShown /\ menu = "none"
      BY <1>7, <3>2 DEF Wander, Places
    <3>3. CASE ~DialogShown /\ menu # "none"
      <4>1. Trigger(menu) \in Places
        BY <3>3 DEF Trigger, Menus, Places
      <4> QED
        BY <1>7, <3>3, <4>1 DEF Wander, Places
    <3> QED
      BY <3>1, <3>2, <3>3
  <2>4. Usable(focus)' /\ focus' \in Places
    BY <2>2, <2>3
  <2>5. ~strayed => ~DialogShown
    BY <2>1
  <2>6. SearchYieldsToLayers'
    <3> HIDE DEF DialogShown, SheetShown
    <3> QED
      BY <2>1, <2>2, <2>3, <2>5
  <2>7. KeyboardIsHeld'
    <3>1. back \in Places
      OBVIOUS
    <3> HIDE DEF DialogShown, SheetShown, LayerUp
    <3> QED
      BY <2>1, <2>2, <2>4, <3>1
  <2> QED
    BY <1>0, <2>1, <2>2, <2>4, <2>6, <2>7
<1>8. CASE OpenNotice
  BY <1>0, <1>1, <1>8 DEF OpenNotice, Usable, Places, Dialogs
<1>9. CASE ToggleBeta
  BY <1>0, <1>1, <1>9 DEF ToggleBeta, Usable, Places, Dialogs, Menus
<1>10. CASE Rerender
  BY <1>0, <1>1, <1>10 DEF Rerender, Usable, Places
<1>11. CASE RowGoes
  BY <1>0, <1>1, <1>11 DEF RowGoes, Usable, Places
<1>12. CASE ContentGoes
  BY <1>0, <1>1, <1>12 DEF ContentGoes, Usable, Places
<1>13. CASE CloseDialog
  <2>1. /\ DialogShown /\ UNCHANGED <<menu, arranging>> /\ back' = "body" /\ showBeta' \in BOOLEAN
        /\ dialog' = "none" /\ (sheetOpen' = FALSE \/ (sheetOpen' = sheetOpen /\ dialog # "none"))
        /\ strayed' = (strayed /\ LayerUp')
    BY <1>13 DEF CloseDialog
  <2>2. PICK at \in Places : at = Returned
    BY DEF Returned, Places
  <2>3. FocusTo(at)
    BY <1>13, <2>2 DEF CloseDialog
  <2>4. Usable(focus)' /\ focus' \in Places /\ focus' \in {at, "pill", "body", focus}
    BY <1>0, <2>3, FocusLands
  <2>5. ~DialogShown' /\ ~SheetShown' /\ sheetOpen' \in BOOLEAN /\ (sheetOpen' => sheetOpen)
    <3>1. CASE sheetOpen' = FALSE
      BY <2>1, <3>1
    <3>2. CASE sheetOpen' = sheetOpen /\ dialog # "none"
      BY <1>0, <2>1, <3>2
    <3> QED
      BY <2>1, <3>1, <3>2
  <2>6. menu # "sort"
    BY <2>1
  <2>7. KeyboardIsHeld'
    BY <2>1, <2>4, <2>5, <2>6
  <2>8. SearchYieldsToLayers'
    <3>1. ~strayed' /\ menu # "none" => ~strayed
      BY <2>1
    <3>2. ~strayed /\ menu # "none" => dialog = "notice" /\ focus = "dialog" /\ at \in {"row", "dialog"}
      BY <2>1, <2>2 DEF Returned, Dialogs
    <3> QED
      BY <2>1, <2>4, <2>5, <3>1, <3>2
  <2>9. LayersOK'
    BY <1>0, <2>1, <2>4, <2>5 DEF Dialogs, Places
  <2>10. SortYields'
    BY <1>0, <1>1, <2>1, <2>5
  <2> QED
    BY <2>7, <2>8, <2>9, <2>10
<1>14. CASE Arrange
  BY <1>0, <1>1, <1>14 DEF Arrange, Usable, Places, Menus
<1>15. CASE EndArrange
  <2>1. /\ menu = "none" /\ ~DialogShown /\ arranging' = FALSE /\ FocusTo("body")
        /\ UNCHANGED <<menu, dialog, sheetOpen, back, showBeta, strayed>>
    BY <1>15 DEF EndArrange
  <2>2. Usable(focus)' /\ focus' \in Places
    BY <1>0, <2>1, FocusLands DEF Places
  <2>3. ~SheetShown' /\ ~DialogShown' /\ ~LayerUp' /\ dialog = "none"
    BY <1>0, <1>1, <2>1
  <2>4. LayersOK' /\ SortYields'
    BY <1>0, <1>1, <2>1, <2>2
  <2>5. KeyboardIsHeld'
    <3> HIDE DEF DialogShown, SheetShown
    <3> QED
      BY <2>1, <2>2, <2>3
  <2> QED
    BY <2>1, <2>3, <2>4, <2>5
<1> QED
  BY <1>2, <1>3, <1>4, <1>5, <1>6, <1>7, <1>8, <1>9, <1>10, <1>11, <1>12, <1>13, <1>14, <1>15
     DEF Layers

THEOREM KeyboardInvariant == SearchSpec => []KeyboardInv
<1>1. SearchInit => KeyboardInv
  BY DEF SearchInit, KeyboardInv, LayersOK, SortYields, KeyboardIsHeld, BackOfSheet,
     SearchYieldsToLayers, LayerUp, DialogShown, SheetShown, Searching, Usable, Menus, Dialogs,
     Places, PagePlaces
<1>2. KeyboardInv /\ [SearchNext]_searchVars => KeyboardInv'
  <2> SUFFICES ASSUME KeyboardInv, [SearchNext]_searchVars PROVE KeyboardInv'
    OBVIOUS
  <2>1. CASE Fetching
    BY <2>1, KeyboardStays DEF Fetching, Debounce, Refetch, Answered, FetchFails, Collected, ListsTurn
  <2>2. CASE UNCHANGED searchVars
    BY <2>2, KeyboardStays DEF searchVars, layers
  <2> QED
    BY <2>1, <2>2, KeyboardTyping, KeyboardField, KeyboardLayers DEF SearchNext
<1> QED
  BY <1>1, <1>2, PTL DEF SearchSpec

\* Nothing is typed into the search from under a panel or a dialog, and a dialog that
\* is up has the keyboard.
THEOREM LayersHaveTheKeyboard == SearchSpec => []SearchYieldsToLayers
<1>1. KeyboardInv => SearchYieldsToLayers
  BY DEF KeyboardInv
<1> QED
  BY <1>1, KeyboardInvariant, PTL

\* The types of every variable of the search.
THEOREM SearchTypeCorrect == SearchSpec => []SearchTypeOK
<1>1. AnswersInv /\ KeyboardInv => SearchTypeOK
  BY DEF AnswersInv, KeyboardInv, TextOK, LayersOK, SearchTypeOK
<1> QED
  BY <1>1, AnswersInvariant, KeyboardInvariant, PTL

\* What a step that closes something does with the keyboard.
LEMMA ClosingReturns ==
    ASSUME KeyboardInv, SearchNext, Closes, mobile' = mobile,
           ~PressOutside, ~Arrange, ~OwnerGone, ~strayed, ~PhoneSearchOpen
    PROVE  focus' # "body"
<1>0. focus \in Places /\ "field" \in Places /\ (mobile = TRUE \/ mobile = FALSE)
  BY DEF KeyboardInv, LayersOK, Places, PagePlaces
<1>1. LayerUp
  BY DEF Closes, LayerUp
<1>2. CASE Typing
  <2>1. focus # "field"
    BY <1>1, FieldIsAlone
  <2>2. CASE Type \/ EscapeField
    BY <2>1, <2>2 DEF Type, EscapeField
  <2>3. CASE ClearText
    BY <1>1, <2>3 DEF ClearText, LayerUp
  <2>4. CASE ClearSearch
    <3>1. UNCHANGED <<menu, dialog, mobile>> /\ sheetOpen' = sheetOpen /\ ~Searching'
      BY <2>4 DEF ClearSearch, SetQuery, Searching, KeyboardInv, LayersOK
    <3> QED
      BY <3>1 DEF Closes, LayerUp, DialogShown, SheetShown
  <2>5. CASE BackUnderDialog
    BY <2>5 DEF BackUnderDialog
  <2> QED
    BY <1>2, <2>2, <2>3, <2>4, <2>5 DEF Typing
<1>3. CASE Fetching
  <2>1. LayerUp' = LayerUp /\ DialogShown' = DialogShown
    BY <1>3 DEF Fetching, Debounce, Refetch, Answered, FetchFails, Collected, ListsTurn, layers,
       LayerUp, DialogShown, SheetShown, Searching
  <2> QED
    BY <2>1 DEF Closes
<1>4. CASE Field
  <2>1. CASE Hotkey
    BY <1>1, <2>1 DEF Hotkey, HotkeyHeard, OverlayOpen
  <2>2. CASE ClickField
    <3>1. searchOpen' = (searchOpen \/ Usable("pill")) /\ FocusTo("field")
      BY <2>2 DEF ClickField
    <3>2. Usable("field")'
      <4>1. CASE mobile = TRUE
        <5>1. searchOpen' = TRUE
          BY <3>1, <4>1 DEF Usable
        <5> QED
          BY <4>1, <5>1 DEF Usable, PhoneSearchOpen
      <4>2. CASE mobile = FALSE
        BY <4>2 DEF Usable
      <4> QED
        BY <1>0, <4>1, <4>2
    <3>3. focus' = "field"
      BY <1>0, <3>1, <3>2, FocusLands
    <3> QED
      BY <3>3
  <2>3. CASE Cross
    <3>1. mobile' = ~mobile
      BY <2>3 DEF Cross
    <3>2. CASE mobile = TRUE
      BY <3>1, <3>2
    <3>3. CASE mobile = FALSE
      BY <3>1, <3>3
    <3> QED
      BY <1>0, <3>2, <3>3
  <2> QED
    BY <1>4, <2>1, <2>2, <2>3 DEF Field
<1>5. CASE Layers
  <2>0. UNCHANGED <<query, mobile, searchOpen>> /\ Searching' = Searching
        /\ PhoneSearchOpen' = PhoneSearchOpen
    BY <1>5, LayersKeepThePage DEF page, text, Searching, PhoneSearchOpen
  <2>1. ASSUME NEW m \in Menus \ {"none"}, OpenPanel(m) PROVE focus' # "body"
    BY <2>1 DEF OpenPanel, Trigger, Menus
  <2>2. CASE OpenSheet \/ OpenNotice \/ ToggleBeta \/ Rerender
    BY <2>2 DEF OpenSheet, OpenNotice, ToggleBeta, Rerender
  <2>3. CASE PressScrim \/ Wander \/ RowGoes \/ ContentGoes
    <3>1. UNCHANGED <<menu, dialog, sheetOpen>>
      BY <2>3 DEF PressScrim, Wander, RowGoes, ContentGoes, layers
    <3> QED
      BY <2>0, <3>1 DEF Closes, LayerUp, DialogShown, SheetShown
  <2>4. CASE EndArrange
    BY <1>1, <2>4 DEF EndArrange, LayerUp
  <2>5. CASE EscapeMenu
    <3>1. PICK at \in Places : at = Trigger(menu) /\ at \in {"avatar", "bell", "sort"}
                               /\ (at = "sort" => menu = "sort")
      BY <2>5 DEF EscapeMenu, Trigger, Menus, KeyboardInv, LayersOK, Places, PagePlaces
    <3>2. UNCHANGED arranging
      BY <2>5 DEF EscapeMenu
    <3>3. Usable(at)'
      BY <2>0, <3>1, <3>2 DEF Usable, KeyboardInv, SortYields
    <3>4. FocusTo(at)
      BY <2>5, <3>1 DEF EscapeMenu
    <3>5. focus' = at
      BY <1>0, <3>3, <3>4, FocusLands
    <3> QED
      BY <3>1, <3>5
  <2>6. CASE CloseDialog
    <3>1. PICK at \in Places : at = Returned
      BY DEF Returned, Places, PagePlaces, KeyboardInv, LayersOK
    <3>2. FocusTo(at) /\ DialogShown /\ UNCHANGED <<menu, arranging>>
      BY <2>6, <3>1 DEF CloseDialog
    <3>3. \/ at = "avatar"
          \/ at = back /\ at \notin {"body", "dialog"} /\ Usable(at)
      <4>1. CASE dialog = "beta"
        BY <3>1, <4>1 DEF Returned
      <4>2. CASE dialog = "notice"
        <5>1. back = "row" /\ Usable("row")
          BY <3>2, <4>2 DEF OwnerGone, KeyboardInv, KeyboardIsHeld, Usable
        <5> QED
          BY <3>1, <5>1 DEF Returned
      <4>3. CASE dialog = "none"
        <5>1. back \notin {"body", "dialog"} /\ Usable(back)
          BY <3>2, <4>3 DEF OwnerGone, DialogShown, KeyboardInv, KeyboardIsHeld
        <5> QED
          BY <3>1, <5>1 DEF Returned
      <4> QED
        BY <4>1, <4>2, <4>3 DEF KeyboardInv, LayersOK, Dialogs
    <3>4. Usable(at)'
      BY <2>0, <3>2, <3>3 DEF Usable
    <3>5. focus' = at
      BY <1>0, <2>0, <3>2, <3>4, FocusLands
    <3> QED
      BY <3>3, <3>5
  <2> QED
    BY <1>5, <2>1, <2>2, <2>3, <2>4, <2>5, <2>6 DEF Layers
<1> QED
  BY <1>2, <1>3, <1>4, <1>5 DEF SearchNext

\* A panel or a dialog that closes gives the keyboard back to what is on screen
\* behind it, but for the exceptions that the property names.
THEOREM FocusIsReturned == SearchSpec => FocusReturns
<1>1. KeyboardInv /\ [SearchNext]_searchVars =>
        [(/\ Closes /\ mobile' = mobile
          /\ ~PressOutside /\ ~Arrange /\ ~OwnerGone /\ ~strayed /\ ~PhoneSearchOpen)
            => focus' # "body"]_searchVars
  BY ClosingReturns
<1> QED
  BY <1>1, KeyboardInvariant, PTL DEF SearchSpec, FocusReturns

-----------------------------------------------------------------------------
(***************************************************************************)
(* The forms of the admin screen.                                          *)
(***************************************************************************)

\* The writes of the forms, and the fields of a form whatever is in them.
FormWrites == [kind : {"create", "update", "delete"}, screen : Screens, of : 0..MaxWrites,
               no : 0..MaxForms, state : {"sent", "stored", "refused"}, heard : BOOLEAN,
               id : 1..MaxWrites]
HasFields(f) == f = [no |-> f.no, of |-> f.of, keywords |-> f.keywords, input |-> f.input, valid |-> f.valid]

FormIds ==
    /\ budget \in 0..MaxWrites
    /\ records \subseteq [screen : Screens, id : 1..MaxWrites, no : 1..MaxForms]
    /\ formWrites \subseteq FormWrites
    /\ opened \in 0..MaxForms /\ form.no \in 0..opened /\ form.of \in 0..MaxWrites
    /\ confirm \in 0..MaxWrites /\ (confirm # NoRecord => section \in Screens)
    /\ HasFields(form) /\ (form # Closed => form.no > 0)

\* Forms and writes are numbered in turn, and no number is used twice.
NumbersAreFresh ==
    /\ \A r \in records : r.no <= opened
    /\ \A w \in formWrites : w.no <= opened /\ w.id > budget /\ (w.kind = "create" => w.no > 0)
    /\ \A w1, w2 \in formWrites : w1.id = w2.id => w1 = w2

Creates(no) == {w \in formWrites : w.kind = "create" /\ w.no = no}

\* A form has one creation under way at most, and while it is open it hears of it.
OneCreateUnderWay ==
    /\ \A no \in 1..MaxForms : \A w1, w2 \in Creates(no) : w1 = w2
    /\ \A w \in Creates(form.no) : w.heard

\* Unless an answer was lost, a form has made no record before its creation is stored,
\* and a form that is open and has made one is still to hear of it.
RecordsAreAnswered ==
    \A r \in records : r.no \notin unheardForms =>
        /\ \A w \in Creates(r.no) : w.state = "stored"
        /\ r.no = form.no => Creates(r.no) # {}

FInv == FormIds /\ NumbersAreFresh /\ OneCreateUnderWay /\ RecordsAreAnswered /\ OneRecordPerForm

\* The numbers are naturals; what the leaves below compare.
LEMMA FormNumbers ==
    ASSUME FormIds
    PROVE  /\ budget \in Nat /\ opened \in Nat /\ form.no \in Nat /\ opened <= MaxForms
           /\ \A r \in records : r.no \in 1..MaxForms /\ r.no \in Nat /\ r.no > 0
           /\ \A w \in formWrites : w \in FormWrites /\ w.no \in Nat /\ w.id \in Nat
<1> USE AdminNavAssumption, EditFormsAssumption
<1>1. \A r \in records : r.no \in 1..MaxForms
  BY DEF FormIds
<1>2. \A w \in formWrites : w \in FormWrites /\ w.no \in 0..MaxForms /\ w.id \in 1..MaxWrites
  BY DEF FormIds, FormWrites
<1> QED
  BY <1>1, <1>2 DEF FormIds

\* Nothing but the fields of the open form changes, or it is closed.
LEMMA FormEdited ==
    ASSUME FInv, budget' \in 0..budget, UNCHANGED <<records, opened, formWrites, unheardForms>>,
           confirm' \in 0..MaxWrites, confirm' # NoRecord => section' \in Screens,
           form' = Closed \/ (HasFields(form') /\ form'.no = form.no /\ form'.of = form.of
                              /\ (form # Closed \/ form' = form))
    PROVE  FInv'
<1> USE AdminNavAssumption, EditFormsAssumption
<1>1. Closed.no = 0 /\ Closed.of = 0 /\ HasFields(Closed)
  BY DEF Closed, HasFields, NoRecord
<1>2. \A no \in Nat : Creates(no)' = Creates(no)
  BY DEF Creates
<1>3. FormIds'
  BY <1>1 DEF FInv, FormIds
<1>4. NumbersAreFresh'
  BY FormNumbers DEF FInv, FormIds, NumbersAreFresh
<1>5. \A w \in Creates(0) : FALSE
  BY FormNumbers DEF FInv, NumbersAreFresh, Creates
<1>6. OneCreateUnderWay'
  BY <1>1, <1>2, <1>5 DEF FInv, OneCreateUnderWay, Creates
<1>7. RecordsAreAnswered'
  BY <1>1, <1>2, FormNumbers DEF FInv, RecordsAreAnswered, Creates
<1>8. OneRecordPerForm'
  BY DEF FInv, OneRecordPerForm
<1> QED
  BY <1>3, <1>4, <1>6, <1>7, <1>8 DEF FInv

\* A form that is opened has a number nothing has yet.
LEMMA FormOpened ==
    ASSUME FInv, NEW of \in 0..MaxWrites, OpenForm(of)
    PROVE  FInv'
<1> USE AdminNavAssumption, EditFormsAssumption
<1>1. /\ opened < MaxForms /\ opened' = opened + 1
      /\ UNCHANGED <<section, budget, records, confirm, formWrites, unheardForms>>
  BY DEF OpenForm, nav
<1>2. form'.no = opened + 1 /\ form'.of = of /\ HasFields(form')
  <2>1. PICK had \in Had(of) : form' = Opened(of, had)
    BY DEF OpenForm
  <2> QED
    BY <1>1, <2>1 DEF Opened, HasFields
<1>3. opened + 1 \in 0..MaxForms /\ opened < opened + 1
  BY <1>1, FormNumbers DEF FInv, FormIds
<1>4. \A no \in Nat : Creates(no)' = Creates(no)
  BY <1>1 DEF Creates
<1>5. Creates(opened + 1) = {} /\ \A r \in records : r.no # opened + 1
  BY <1>3, FormNumbers DEF FInv, NumbersAreFresh, Creates
<1>6. FormIds'
  BY <1>1, <1>2, <1>3 DEF FInv, FormIds
<1>7. NumbersAreFresh'
  BY <1>1, <1>3, FormNumbers DEF FInv, NumbersAreFresh
<1>8. OneCreateUnderWay'
  BY <1>1, <1>2, <1>3, <1>4, <1>5 DEF FInv, OneCreateUnderWay
<1>9. RecordsAreAnswered'
  BY <1>1, <1>2, <1>4, <1>5, FormNumbers DEF FInv, RecordsAreAnswered
<1>10. OneRecordPerForm'
  BY <1>1 DEF FInv, OneRecordPerForm
<1> QED
  BY <1>6, <1>7, <1>8, <1>9, <1>10 DEF FInv

\* A creation is sent only while the form hears of no write, so it has made no record.
LEMMA FormSubmitted ==
    ASSUME FInv, Submit
    PROVE  FInv'
<1> USE AdminNavAssumption, EditFormsAssumption
<1>1. PICK new : new = [kind |-> IF form.of = NoRecord THEN "create" ELSE "update", screen |-> section,
                        of |-> form.of, no |-> form.no, state |-> "sent", heard |-> TRUE, id |-> budget]
  OBVIOUS
<1>2. /\ FormOpen /\ ~Submitting /\ budget > 0 /\ budget' = budget - 1
      /\ formWrites' = formWrites \cup {new}
      /\ UNCHANGED <<section, records, opened, form, confirm, unheardForms>>
  BY <1>1 DEF Submit, Spend
<1>3. budget \in 1..MaxWrites /\ budget' \in 0..MaxWrites /\ budget' < budget
  BY <1>2 DEF FInv, FormIds
<1>4. form.no \in 1..MaxForms /\ section \in Screens /\ form.no <= opened
  BY <1>2, FormNumbers DEF FormOpen, FInv, FormIds
<1>5. /\ new \in FormWrites /\ new.no = form.no /\ new.id = budget /\ new.heard
      /\ (new.kind = "create" \/ new.kind = "update")
  BY <1>1, <1>3, <1>4 DEF FormWrites, FInv, FormIds
<1>6. Creates(form.no) = {}
  BY <1>2, <1>4 DEF Submitting, FInv, OneCreateUnderWay, Creates
<1>7. \A no \in Nat : Creates(no)' = IF no = form.no /\ new.kind = "create" THEN {new} ELSE Creates(no)
  BY <1>2, <1>5, <1>6 DEF Creates
<1> HIDE <1>1
<1>8. FormIds'
  BY <1>2, <1>3, <1>5 DEF FInv, FormIds
<1>9. NumbersAreFresh'
  <2>1. ASSUME NEW w \in formWrites' PROVE w.no <= opened' /\ w.id > budget' /\ (w.kind = "create" => w.no > 0)
    BY <1>2, <1>3, <1>4, <1>5, <2>1, FormNumbers DEF FInv, NumbersAreFresh
  <2>2. \A w \in formWrites : w.id # new.id
    BY <1>5, <1>3, FormNumbers DEF FInv, NumbersAreFresh
  <2> QED
    BY <1>2, <2>1, <2>2 DEF FInv, NumbersAreFresh
<1>10. OneCreateUnderWay'
  BY <1>2, <1>4, <1>5, <1>7 DEF FInv, OneCreateUnderWay
<1>11. RecordsAreAnswered'
  <2>1. \A r \in records : r.no # form.no \/ r.no \in unheardForms
    BY <1>6 DEF FInv, RecordsAreAnswered
  <2> QED
    BY <1>2, <1>7, <2>1, FormNumbers DEF FInv, RecordsAreAnswered
<1>12. OneRecordPerForm'
  BY <1>2 DEF FInv, OneRecordPerForm
<1> QED
  BY <1>8, <1>9, <1>10, <1>11, <1>12 DEF FInv

\* A deletion is sent, and the one before is no longer heard of.
LEMMA DeletionSent ==
    ASSUME FInv, ConfirmDeleteRecord
    PROVE  FInv'
<1> USE AdminNavAssumption, EditFormsAssumption
<1> DEFINE Hush(w) == IF w.kind \in {"delete"} THEN [w EXCEPT !.heard = FALSE] ELSE w
<1>0. section \in Screens
  BY DEF ConfirmDeleteRecord, FInv, FormIds
<1>1. PICK new : new = [kind |-> "delete", screen |-> section, of |-> confirm, no |-> 0,
                        state |-> "sent", heard |-> TRUE, id |-> budget]
  OBVIOUS
<1>2. /\ budget > 0 /\ budget' = budget - 1
      /\ formWrites' = {Hush(w) : w \in formWrites} \cup {new}
      /\ UNCHANGED <<section, records, opened, form, confirm, unheardForms>>
  BY <1>1 DEF ConfirmDeleteRecord, Spend, Unheard
<1>3. budget \in 1..MaxWrites /\ budget' \in 0..MaxWrites /\ budget' < budget
  BY <1>2 DEF FInv, FormIds
<1>5. /\ new \in FormWrites /\ new.no = 0 /\ new.id = budget /\ new.kind = "delete"
  BY <1>0, <1>1, <1>3 DEF FormWrites, FInv, FormIds
<1>6. \A w \in formWrites : /\ Hush(w) \in FormWrites
                            /\ Hush(w).kind = w.kind /\ Hush(w).no = w.no /\ Hush(w).id = w.id
                            /\ (w.kind = "create" => Hush(w) = w)
  BY FormNumbers DEF FormWrites, FInv
<1> HIDE DEF Hush
<1>7. \A no \in Nat : Creates(no)' = Creates(no)
  BY <1>2, <1>5, <1>6 DEF Creates
<1> HIDE <1>1
<1>8. FormIds'
  BY <1>2, <1>3, <1>5, <1>6 DEF FInv, FormIds
<1>9. NumbersAreFresh'
  <2>1. ASSUME NEW w \in formWrites' PROVE w.no <= opened' /\ w.id > budget' /\ (w.kind = "create" => w.no > 0)
    <3>1. CASE w = new
      BY <1>2, <1>3, <1>5, <3>1, FormNumbers DEF FInv
    <3>2. CASE \E v \in formWrites : w = Hush(v)
      BY <1>2, <1>3, <1>6, <3>2, FormNumbers DEF FInv, NumbersAreFresh
    <3> QED
      BY <1>2, <2>1, <3>1, <3>2
  <2>2. \A w \in formWrites : Hush(w).id # new.id
    BY <1>3, <1>5, <1>6, FormNumbers DEF FInv, NumbersAreFresh
  <2>3. \A v, w \in formWrites : Hush(v).id = Hush(w).id => v = w
    BY <1>6 DEF FInv, NumbersAreFresh
  <2> QED
    BY <1>2, <2>1, <2>2, <2>3 DEF FInv, NumbersAreFresh
<1>10. OneCreateUnderWay'
  BY <1>2, <1>7, FormNumbers DEF FInv, OneCreateUnderWay
<1>11. RecordsAreAnswered'
  BY <1>2, <1>7, FormNumbers DEF FInv, RecordsAreAnswered
<1>12. OneRecordPerForm'
  BY <1>2 DEF FInv, OneRecordPerForm
<1> QED
  BY <1>8, <1>9, <1>10, <1>11, <1>12 DEF FInv

\* The server stores a creation once, for a form that has made no record yet.
LEMMA FormServed ==
    ASSUME FInv, NEW w \in formWrites, ServeForm(w)
    PROVE  FInv'
<1> USE AdminNavAssumption, EditFormsAssumption
<1>1. PICK s \in {"stored", "refused"} :
        /\ formWrites' = InState(formWrites, w, s)
        /\ (records' = Stored(w) /\ s = "stored") \/ records' = records
        /\ w.state = "sent" /\ UNCHANGED <<section, budget, opened, form, confirm, unheardForms>>
  BY DEF ServeForm, nav
<1>2. PICK done : done = [w EXCEPT !.state = s]
  OBVIOUS
<1>3. /\ done \in FormWrites /\ done.state = s /\ done.kind = w.kind /\ done.no = w.no
      /\ done.id = w.id /\ done.heard = w.heard
  BY <1>2, FormNumbers DEF FInv, FormWrites
<1>4. formWrites' = (formWrites \ {w}) \cup {done}
  BY <1>1, <1>2 DEF InState
<1> HIDE <1>2
<1>5. \A no \in Nat : Creates(no)' = IF w \in Creates(no) THEN (Creates(no) \ {w}) \cup {done} ELSE Creates(no)
  BY <1>3, <1>4 DEF Creates
<1>6. \A v \in formWrites : w.kind = "create" /\ v \in Creates(w.no) => v = w
  BY FormNumbers DEF FInv, OneCreateUnderWay, NumbersAreFresh, Creates, FormWrites
<1>7. w.kind = "create" => w.no \in 1..MaxForms /\ w.id \in 1..MaxWrites /\ w.screen \in Screens /\ w.no <= opened
  BY FormNumbers DEF FInv, NumbersAreFresh, FormWrites, FormIds
<1>8. PICK new : new = [screen |-> w.screen, id |-> w.id, no |-> w.no]
  OBVIOUS
<1>9. /\ records' \subseteq records \cup (IF w.kind = "create" THEN {new} ELSE {})
      /\ w.kind = "create" => s = "stored" \/ records' = records
  BY <1>1, <1>8, FormNumbers DEF Stored, FInv, FormWrites
<1>10. /\ new.no = w.no
       /\ w.kind = "create" => new \in [screen : Screens, id : 1..MaxWrites, no : 1..MaxForms]
  BY <1>7, <1>8
<1> HIDE <1>8
<1>11. FormIds'
  BY <1>1, <1>3, <1>4, <1>9, <1>10 DEF FInv, FormIds
<1>12. NumbersAreFresh'
  <2>1. \A r \in records' : r.no <= opened
    BY <1>7, <1>9, <1>10 DEF FInv, NumbersAreFresh
  <2>2. \A v \in formWrites' : v.no <= opened /\ v.id > budget /\ (v.kind = "create" => v.no > 0)
    BY <1>3, <1>4 DEF FInv, NumbersAreFresh
  <2>3. \A u, v \in formWrites' : u.id = v.id => u = v
    BY <1>3, <1>4 DEF FInv, NumbersAreFresh
  <2> QED
    BY <1>1, <2>1, <2>2, <2>3 DEF NumbersAreFresh
<1>13. OneCreateUnderWay'
  <2>1. \A no \in 1..MaxForms : \A u, v \in Creates(no)' : u = v
    BY <1>3, <1>5 DEF FInv, OneCreateUnderWay
  <2>2. \A v \in Creates(form.no)' : v.heard
    <3>1. form.no \in Nat /\ form' = form
      BY <1>1, FormNumbers DEF FInv
    <3>2. \A v \in Creates(form.no) : v.heard
      BY DEF FInv, OneCreateUnderWay
    <3> QED
      BY <1>3, <1>5, <3>1, <3>2
  <2> QED
    BY <1>1, <2>1, <2>2 DEF OneCreateUnderWay
\* Before its creation is stored, the form has no record.
<1>14. w.kind = "create" /\ w.no \notin unheardForms => \A r \in records : r.no # w.no
  BY <1>1 DEF FInv, RecordsAreAnswered, Creates
<1>15. RecordsAreAnswered'
  <2> SUFFICES ASSUME NEW r \in records', r.no \notin unheardForms
               PROVE  /\ \A v \in Creates(r.no)' : v.state = "stored"
                      /\ r.no = form.no => Creates(r.no)' # {}
    BY <1>1 DEF RecordsAreAnswered
  <2>1. CASE w.kind = "create" /\ r.no = w.no
    <3>1. r \notin records /\ s = "stored"
      BY <1>9, <1>14, <2>1
    <3>2. Creates(w.no)' = {done}
      BY <1>5, <1>6, <1>7, <2>1 DEF Creates
    <3> QED
      BY <1>3, <2>1, <3>1, <3>2
  <2>2. CASE ~(w.kind = "create" /\ r.no = w.no)
    <3>1. r \in records
      BY <1>9, <1>10, <2>2
    <3>2. w \notin Creates(r.no) /\ r.no \in Nat
      BY <2>2, <3>1, FormNumbers DEF Creates, FInv
    <3> QED
      BY <1>5, <3>1, <3>2 DEF FInv, RecordsAreAnswered
  <2> QED
    BY <2>1, <2>2
<1>16. OneRecordPerForm'
  <2> SUFFICES ASSUME NEW r1 \in records', NEW r2 \in records', r1.no = r2.no, r1.no \notin unheardForms
               PROVE  r1 = r2
    BY <1>1 DEF OneRecordPerForm
  <2> QED
    BY <1>9, <1>10, <1>14 DEF FInv, OneRecordPerForm
<1> QED
  BY <1>11, <1>12, <1>13, <1>15, <1>16 DEF FInv

\* An answer is heard, and closes the form, or it is lost, and that is remembered.
LEMMA FormHeard ==
    ASSUME FInv, NEW w \in formWrites, FormAnswered(w)
    PROVE  FInv'
<1> USE AdminNavAssumption, EditFormsAssumption
<1>1. PICK ok \in {w.state = "stored", FALSE} :
        /\ form' = IF ok /\ w.heard /\ w.kind # "delete" THEN Closed ELSE form
        /\ unheardForms' = IF ~ok /\ w.state = "stored" THEN unheardForms \cup {w.no} ELSE unheardForms
  BY DEF FormAnswered
<1>2. /\ formWrites' = formWrites \ {w} /\ w.state # "sent"
      /\ confirm' \in {NoRecord, confirm}
      /\ UNCHANGED <<section, budget, records, opened>>
  BY DEF FormAnswered, nav
<1>3. ok => w.state = "stored"
  OBVIOUS
<1>4. Closed.no = 0 /\ Closed.of = 0 /\ HasFields(Closed)
  BY DEF Closed, HasFields, NoRecord
<1>5. \A no \in Nat : Creates(no)' = Creates(no) \ {w}
  BY <1>2 DEF Creates
<1>6. Creates(0) = {}
  BY FormNumbers DEF FInv, NumbersAreFresh, Creates
<1>7. FormIds'
  BY <1>1, <1>2, <1>4 DEF FInv, FormIds, NoRecord
<1>8. NumbersAreFresh'
  BY <1>2 DEF FInv, NumbersAreFresh
<1>9. form' = form \/ form' = Closed
  BY <1>1
<1>10. OneCreateUnderWay'
  BY <1>4, <1>5, <1>6, <1>9, FormNumbers DEF FInv, OneCreateUnderWay
<1>11. RecordsAreAnswered'
  <2> SUFFICES ASSUME NEW r \in records, r.no \notin unheardForms'
               PROVE  /\ \A v \in Creates(r.no)' : v.state = "stored"
                      /\ r.no = form'.no => Creates(r.no)' # {}
    BY <1>2 DEF RecordsAreAnswered
  <2>1. r.no \notin unheardForms /\ r.no \in Nat /\ r.no > 0
    BY <1>1, FormNumbers DEF FInv
  <2>2. \A v \in Creates(r.no)' : v.state = "stored"
    BY <1>5, <2>1 DEF FInv, RecordsAreAnswered
  <2>3. ASSUME r.no = form'.no PROVE Creates(r.no)' # {}
    <3>1. form' = form /\ r.no = form.no
      BY <1>4, <1>9, <2>1, <2>3
    <3>2. PICK v \in Creates(r.no) : v.state = "stored" /\ v.heard
      BY <2>1, <3>1 DEF FInv, RecordsAreAnswered, OneCreateUnderWay
    <3>3. CASE v # w
      BY <1>5, <2>1, <3>2, <3>3
    <3>4. CASE v = w
      <4>1. ok
        BY <1>1, <3>2, <3>4 DEF Creates
      <4>2. form' = Closed
        BY <1>1, <3>2, <3>4, <4>1 DEF Creates
      <4> QED
        BY <1>4, <2>1, <2>3, <4>2
    <3> QED
      BY <3>3, <3>4
  <2> QED
    BY <2>2, <2>3
<1>12. OneRecordPerForm'
  BY <1>1, <1>2 DEF FInv, OneRecordPerForm
<1> QED
  BY <1>7, <1>8, <1>10, <1>11, <1>12 DEF FInv

\* A section is left: its form is gone, and nothing hears of what it sent.
LEMMA FormsLeft ==
    ASSUME FInv, FormsFollowSection, budget' = budget
    PROVE  FInv'
<1> USE AdminNavAssumption, EditFormsAssumption
<1> DEFINE Hush(w) == IF w.kind \in {"create", "update", "delete"} THEN [w EXCEPT !.heard = FALSE] ELSE w
<1>1. /\ form' = Closed /\ confirm' = NoRecord
      /\ formWrites' = {Hush(w) : w \in formWrites}
      /\ UNCHANGED <<records, opened, unheardForms>>
  BY DEF FormsFollowSection, Unheard
<1>2. \A w \in formWrites : /\ Hush(w) \in FormWrites
                            /\ Hush(w).kind = w.kind /\ Hush(w).no = w.no /\ Hush(w).id = w.id
                            /\ Hush(w).state = w.state
  BY FormNumbers DEF FormWrites, FInv
<1> HIDE DEF Hush
<1>3. \A no \in Nat : Creates(no)' = {Hush(w) : w \in Creates(no)}
  BY <1>1, <1>2 DEF Creates
<1>4. Closed.no = 0 /\ Closed.of = 0 /\ HasFields(Closed)
  BY DEF Closed, HasFields, NoRecord
<1>5. Creates(0) = {}
  BY FormNumbers DEF FInv, NumbersAreFresh, Creates
<1>6. FormIds'
  BY <1>1, <1>2, <1>4 DEF FInv, FormIds, NoRecord
<1>7. NumbersAreFresh'
  BY <1>1, <1>2 DEF FInv, NumbersAreFresh
<1>8. OneCreateUnderWay'
  BY <1>1, <1>3, <1>4, <1>5 DEF FInv, OneCreateUnderWay
<1>9. RecordsAreAnswered'
  <2>1. \A r \in records : r.no \in Nat /\ r.no # form'.no
    BY <1>1, <1>4, FormNumbers DEF FInv
  <2> QED
    BY <1>1, <1>2, <1>3, <2>1 DEF FInv, RecordsAreAnswered, Creates
<1>10. OneRecordPerForm'
  BY <1>1 DEF FInv, OneRecordPerForm
<1> QED
  BY <1>6, <1>7, <1>8, <1>9, <1>10 DEF FInv

\* A step of the admin screen.
LEMMA FormsStep ==
    ASSUME FInv, [Next]_vars
    PROVE  FInv'
<1> USE AdminNavAssumption, EditFormsAssumption
<1>1. budget \in Nat /\ confirm \in 0..MaxWrites /\ (confirm # NoRecord => section \in Screens)
      /\ HasFields(form)
  BY FormNumbers DEF FInv, FormIds
<1>2. ASSUME NEW s \in Sections \cup {NoneOpen}, OpenSection(s) PROVE FInv'
  BY <1>2, FormsLeft DEF OpenSection
<1>3. ASSUME section' = section, budget' = budget \/ Spend, UNCHANGED formVars PROVE FInv'
  <2>1. budget' \in 0..budget
    BY <1>1, <1>3 DEF Spend
  <2> QED
    BY <1>1, <1>3, <2>1, FormEdited DEF formVars
<1>4. CASE RolesNext /\ UNCHANGED <<categoryVars, formVars, part>>
  <2>1. section' = section /\ (budget' = budget \/ Spend)
    BY <1>4 DEF RolesNext, RolesArrive, SelectRole, ServeRead, ReadFails, ReadArrives, MoveService,
       RemoveService, AddService, Edit, Save, ServeSave, SaveAnswered, OtherAdminSaves, nav
  <2> QED
    BY <1>3, <1>4, <2>1
<1>5. CASE CategoriesNext /\ UNCHANGED <<roleVars, formVars, part>>
  <2>1. section' = section /\ (budget' = budget \/ Spend)
    BY <1>5 DEF CategoriesNext, SubmitCategory, ConfirmDelete, OtherAdminEdits, CancelEdit, Send,
       RefetchCategories, ServeCategories, CategoriesArrive, CategoriesFail, Move, ServeCategory,
       CategoryAnswered, EditRow, TypeSlug, AskDelete, fetching, nav
  <2> QED
    BY <1>3, <1>5, <2>1
<1>6. CASE FormsNext
  <2>1. ASSUME UNCHANGED <<nav, records, opened, formWrites, unheardForms>>,
               form' = Closed \/ (HasFields(form') /\ form'.no = form.no /\ form'.of = form.of
                                  /\ (form # Closed \/ form' = form)),
               confirm' = confirm \/ confirm' = NoRecord
                 \/ (confirm' \in 0..MaxWrites /\ section \in Screens)
        PROVE  FInv'
    <3>1. budget' \in 0..budget /\ section' = section
      BY <1>1, <2>1 DEF nav
    <3> QED
      BY <1>1, <2>1, <3>1, FormEdited DEF NoRecord
  <2>2. CASE CancelForm
    BY <2>1, <2>2 DEF CancelForm, quiet
  <2>3. CASE Fill
    <3>1. HasFields(form') /\ form'.no = form.no /\ form'.of = form.of /\ form # Closed
      BY <1>1, <2>3 DEF Fill, HasFields, FormOpen
    <3> QED
      BY <2>1, <2>3, <3>1 DEF Fill, quiet
  <2>4. ASSUME NEW raw \in Inputs, TypeKeywords(raw) PROVE FInv'
    <3>1. HasFields(form') /\ form'.no = form.no /\ form'.of = form.of /\ form # Closed
      BY <1>1, <2>4 DEF TypeKeywords, HasFields, FormOpen
    <3> QED
      BY <2>1, <2>4, <3>1 DEF TypeKeywords, quiet
  <2>5. CASE AddKeywords
    <3>1. HasFields(form') /\ form'.no = form.no /\ form'.of = form.of /\ form # Closed
      BY <1>1, <2>5 DEF AddKeywords, HasFields, FormOpen
    <3> QED
      BY <2>1, <2>5, <3>1 DEF AddKeywords, quiet
  <2>6. ASSUME NEW k \in Terms, RemoveKeyword(k) PROVE FInv'
    <3>1. HasFields(form') /\ form'.no = form.no /\ form'.of = form.of /\ form # Closed
      BY <1>1, <2>6 DEF RemoveKeyword, HasFields, FormOpen
    <3> QED
      BY <2>1, <2>6, <3>1 DEF RemoveKeyword, quiet
  <2>7. ASSUME NEW id \in 0..MaxWrites, AskDeleteRecord(id) PROVE FInv'
    BY <1>1, <2>1, <2>7 DEF AskDeleteRecord
  <2>8. CASE DismissDelete
    BY <1>1, <2>1, <2>8 DEF DismissDelete
  <2> QED
    BY <1>6, <2>2, <2>3, <2>4, <2>5, <2>6, <2>7, <2>8, FormOpened, FormSubmitted, DeletionSent,
       FormServed, FormHeard DEF FormsNext
<1>7. CASE UNCHANGED vars
  BY <1>3, <1>7 DEF vars, nav
<1> QED
  BY <1>2, <1>4, <1>5, <1>6, <1>7 DEF Next

THEOREM FormsInvariant == Spec => []FInv
<1>1. Init => FInv
  <2>1. Closed.no = 0 /\ Closed.of = 0 /\ HasFields(Closed)
    BY DEF Closed, HasFields, NoRecord
  <2>2. Init => budget \in 0..MaxWrites /\ section = NoneOpen /\ FormsInit
    BY DEF Init, NavInit
  <2> QED
    BY <2>1, <2>2, AdminNavAssumption, EditFormsAssumption DEF FormsInit, FInv, FormIds, NumbersAreFresh,
       OneCreateUnderWay, Creates, RecordsAreAnswered, OneRecordPerForm, NoRecord
<1>2. FInv /\ [Next]_vars => FInv'
  BY FormsStep
<1> QED
  BY <1>1, <1>2, PTL DEF Spec

\* A form makes at most one record, however often it is sent, unless the answer to a
\* write that was stored got lost.
THEOREM FormsMakeOneRecord == Spec => []OneRecordPerForm
<1>1. FInv => OneRecordPerForm
  BY DEF FInv
<1> QED
  BY <1>1, FormsInvariant, PTL

-----------------------------------------------------------------------------
(***************************************************************************)
(* Lists: what is computed along a list, and what a filter keeps of it.    *)
(***************************************************************************)

\* A set of numbers has a least one: the intervals below its members are well-founded.
LEMMA LeastNumber ==
    ASSUME NEW T, T \subseteq Nat, T # {}
    PROVE  \E m \in T : \A k \in T : m <= k
<1> DEFINE U == {0..k : k \in T}
<1>1. \A k \in T : 0..k \in FiniteSubsetsOf(Nat)
  BY FS_Interval, 0 \in Int DEF FiniteSubsetsOf
<1>2. U \subseteq FiniteSubsetsOf(Nat) /\ U # {}
  BY <1>1
<1>3. PICK x \in U : \A y \in U : <<y, x>> \notin StrictSubsetOrdering(Nat)
  BY <1>2, FS_StrictSubsetOrderingWellFounded, WFMin
<1>4. PICK m \in T : x = 0..m
  BY <1>3
<1>5. ASSUME NEW k \in T, k < m PROVE FALSE
  <2>1. 0..k \subseteq 0..m /\ m \in 0..m /\ m \notin 0..k
    BY <1>5, m \in Nat, k \in Nat
  <2>2. <<0..k, 0..m>> \in StrictSubsetOrdering(Nat)
    BY <2>1 DEF StrictSubsetOrdering
  <2> QED BY <2>2, <1>3, <1>4
<1> QED BY <1>5

\* Counting from 0 to N reaches every number in between.
LEMMA CountUp ==
    ASSUME NEW N \in Nat, NEW T, 0 \in T, \A n \in 1..N : n - 1 \in T => n \in T
    PROVE  \A n \in 0..N : n \in T
<1> DEFINE Out == {n \in 0..N : n \notin T}
<1>1. SUFFICES ASSUME Out # {} PROVE FALSE
  OBVIOUS
<1>2. PICK m \in Out : \A k \in Out : m <= k
  BY <1>1, LeastNumber, Out \subseteq Nat
<1>3. m \in 1..N /\ m - 1 \in 0..N
  BY <1>2
<1>4. m - 1 \in T
  BY <1>2, <1>3
<1> QED BY <1>2, <1>3, <1>4

\* f starts with base and goes on by step.
StepsOf(f, N, X, base, step) ==
    f \in [0..N -> X] /\ f[0] = base /\ \A n \in 1..N : f[n] = step[<<n, f[n - 1]>>]

\* What is computed step by step exists.
LEMMA StepByStep ==
    ASSUME NEW N \in Nat, NEW X, NEW base \in X, NEW step \in [(1..N) \X X -> X]
    PROVE  \E f : StepsOf(f, N, X, base, step)
<1> DEFINE Upto(m) == \E f \in [0..m -> X] : f[0] = base /\ \A n \in 1..m : f[n] = step[<<n, f[n - 1]>>]
           T == {m \in 0..N : Upto(m)}
<1>1. 0 \in T
  <2> DEFINE f == [n \in 0..0 |-> base]
  <2>1. f \in [0..0 -> X] /\ f[0] = base /\ \A n \in 1..0 : f[n] = step[<<n, f[n - 1]>>]
    OBVIOUS
  <2>2. Upto(0)
    BY <2>1
  <2> QED BY <2>2
<1>2. ASSUME NEW m \in 1..N, m - 1 \in T PROVE m \in T
  <2>1. PICK f \in [0..(m - 1) -> X] : f[0] = base /\ \A n \in 1..(m - 1) : f[n] = step[<<n, f[n - 1]>>]
    BY <1>2
  <2> DEFINE g == [n \in 0..m |-> IF n = m THEN step[<<m, f[m - 1]>>] ELSE f[n]]
  <2>2. step[<<m, f[m - 1]>>] \in X
    BY <2>1, m - 1 \in 0..(m - 1)
  <2>3. g \in [0..m -> X] /\ g[0] = base
    BY <2>1, <2>2
  <2>4. ASSUME NEW n \in 1..m PROVE g[n] = step[<<n, g[n - 1]>>]
    <3>1. n - 1 \in 0..m /\ n - 1 # m /\ n \in 0..m
      OBVIOUS
    <3>2. g[n - 1] = f[n - 1] /\ g[n] = IF n = m THEN step[<<m, f[m - 1]>>] ELSE f[n]
      BY <3>1
    <3>3. n # m => n \in 1..(m - 1)
      OBVIOUS
    <3> HIDE DEF g
    <3> QED BY <3>2, <3>3, <2>1
  <2>5. Upto(m)
    BY <2>3, <2>4
  <2> QED BY <2>5
<1>3. \A n \in 0..N : n \in T
  BY <1>1, <1>2, CountUp
<1>4. Upto(N)
  BY <1>3
<1> QED BY <1>4 DEF StepsOf

\* f has what KeptOf keeps of the first n members.
Keeps(f, S, list, s) ==
    /\ f \in [0..Len(list) -> Seq(S)] /\ f[0] = <<>>
    /\ \A n \in 1..Len(list) :
         f[n] = IF list[n] \in s THEN Append(f[n - 1], list[n]) ELSE f[n - 1]

LEMMA KeptSteps ==
    ASSUME NEW S, NEW list \in Seq(S), NEW s
    PROVE  \E f : Keeps(f, S, list, s) /\ KeptOf(list, s) = f[Len(list)]
<1> DEFINE N == Len(list)
           X == Seq(S)
           step == [p \in (1..N) \X X |-> IF list[p[1]] \in s THEN Append(p[2], list[p[1]]) ELSE p[2]]
           Kept(f) == f = [n \in 0..N |-> IF n = 0 THEN <<>>
                              ELSE IF list[n] \in s THEN Append(f[n - 1], list[n]) ELSE f[n - 1]]
<1>0. N \in Nat /\ <<>> \in X
  OBVIOUS
<1>1. step \in [(1..N) \X X -> X]
  <2>1. ASSUME NEW p \in (1..N) \X X PROVE (IF list[p[1]] \in s THEN Append(p[2], list[p[1]]) ELSE p[2]) \in X
    <3>1. list[p[1]] \in S /\ p[2] \in Seq(S)
      OBVIOUS
    <3> QED BY <3>1
  <2> QED BY <2>1
<1>2. PICK f \in [0..N -> X] : f[0] = <<>> /\ \A n \in 1..N : f[n] = step[<<n, f[n - 1]>>]
  <2> DEFINE none == <<>>
  <2>1. N \in Nat /\ none \in X /\ step \in [(1..N) \X X -> X]
    BY <1>0, <1>1
  <2> HIDE DEF step, X, N, none
  <2>2. \E f : StepsOf(f, N, X, none, step)
    BY <2>1, StepByStep
  <2> QED BY <2>2 DEF none, StepsOf
<1>3. ASSUME NEW n \in 1..N PROVE f[n] = IF list[n] \in s THEN Append(f[n - 1], list[n]) ELSE f[n - 1]
  BY <1>2, n - 1 \in 0..N
<1>4. Kept(f)
  <2> DEFINE k == [n \in 0..N |-> IF n = 0 THEN <<>>
                     ELSE IF list[n] \in s THEN Append(f[n - 1], list[n]) ELSE f[n - 1]]
  <2>1. ASSUME NEW n \in 0..N PROVE f[n] = k[n]
    BY <1>2, <1>3, n = 0 \/ n \in 1..N
  <2>2. f = k
    BY <2>1, <1>2
  <2> QED BY <2>2
<1>5. Kept(CHOOSE g : Kept(g))
  BY <1>4
<1> HIDE DEF step
<1> DEFINE g == CHOOSE h : Kept(h)
<1>6. KeptOf(list, s) = g[N]
  BY DEF KeptOf
<1> HIDE DEF g
<1>7. g = [n \in 0..N |-> IF n = 0 THEN <<>>
                              ELSE IF list[n] \in s THEN Append(g[n - 1], list[n]) ELSE g[n - 1]]
  BY <1>5 DEF g
<1> DEFINE At(n) == IF n = 0 THEN <<>>
                    ELSE IF list[n] \in s THEN Append(g[n - 1], list[n]) ELSE g[n - 1]
<1>8. g[0] = <<>> /\ \A n \in 1..N : g[n] = IF list[n] \in s THEN Append(g[n - 1], list[n]) ELSE g[n - 1]
  <2>1. \A n \in 0..N : g[n] = At(n)
    <3>1. g = [n \in 0..N |-> At(n)]
      BY <1>7
    <3> HIDE DEF At
    <3> QED BY <3>1
  <2>2. 0 \in 0..N /\ \A n \in 1..N : n \in 0..N /\ n # 0
    BY <1>0
  <2> QED BY <2>1, <2>2
<1> DEFINE T == {n \in 0..N : g[n] = f[n]}
<1>9. \A n \in 0..N : n \in T
  <2>1. 0 \in T
    BY <1>8, <1>2, <1>0
  <2>2. \A n \in 1..N : n - 1 \in T => n \in T
    BY <1>8, <1>3
  <2> QED BY <2>1, <2>2, CountUp, <1>0
<1>10. KeptOf(list, s) = f[N]
  BY <1>6, <1>9, <1>0
<1> QED BY <1>10, <1>2, <1>3 DEF Keeps

\* k are the members of list that are in s, at the positions at.
Picks(k, at, list, s, n) ==
    /\ at \in [1..Len(k) -> 1..n]
    /\ \A i, j \in 1..Len(k) : at[i] = at[j] => i = j
    /\ \A i \in 1..Len(k) : k[i] = list[at[i]] /\ k[i] \in s
    /\ \A j \in 1..n : list[j] \in s => \E i \in 1..Len(k) : k[i] = list[j]

LEMMA PicksGrow ==
    ASSUME NEW S, NEW list \in Seq(S), NEW s, NEW n \in 1..Len(list),
           NEW k \in Seq(S), NEW at, Picks(k, at, list, s, n - 1)
    PROVE  \E up : Picks(IF list[n] \in s THEN Append(k, list[n]) ELSE k, up, list, s, n)
<1>1. CASE list[n] \notin s
  <2>1. at \in [1..Len(k) -> 1..n]
    BY 1..(n - 1) \subseteq 1..n DEF Picks
  <2>2. \A j \in 1..n : list[j] \in s => j \in 1..(n - 1)
    BY <1>1
  <2>3. Picks(k, at, list, s, n)
    BY <2>1, <2>2 DEF Picks
  <2> QED BY <2>3, <1>1
<1>2. CASE list[n] \in s
  <2> DEFINE m == Append(k, list[n])
             up == [i \in 1..Len(m) |-> IF i = Len(m) THEN n ELSE at[i]]
  <2>0. list[n] \in S
    OBVIOUS
  <2>1. /\ Len(m) = Len(k) + 1 /\ Len(k) \in Nat
        /\ m[Len(m)] = list[n] /\ \A i \in 1..Len(k) : m[i] = k[i]
    BY <2>0, AppendProperties
  <2> HIDE DEF m
  <2>2. /\ \A i \in 1..Len(k) : i \in 1..Len(m) /\ i # Len(m)
        /\ \A i \in 1..Len(m) : i = Len(m) \/ i \in 1..Len(k)
        /\ Len(m) \in 1..Len(m)
    BY <2>1
  <2>3. /\ \A i \in 1..Len(k) : up[i] = at[i]
        /\ up[Len(m)] = n
    BY <2>2
  <2>4. up \in [1..Len(m) -> 1..n]
    <3>1. \A i \in 1..Len(k) : at[i] \in 1..(n - 1)
      BY DEF Picks
    <3> QED BY <3>1, <2>2
  <2> HIDE DEF up
  <2>5. \A i, j \in 1..Len(m) : up[i] = up[j] => i = j
    <3>1. \A i \in 1..Len(k) : up[i] \in 1..(n - 1) /\ up[i] # n
      BY <2>3 DEF Picks
    <3> QED BY <3>1, <2>2, <2>3 DEF Picks
  <2>6. \A i \in 1..Len(m) : m[i] = list[up[i]] /\ m[i] \in s
    BY <2>1, <2>2, <2>3, <1>2 DEF Picks
  <2>7. \A j \in 1..n : list[j] \in s => \E i \in 1..Len(m) : m[i] = list[j]
    <3> TAKE j \in 1..n
    <3> HAVE list[j] \in s
    <3>1. CASE j = n
      BY <3>1, <2>1, <2>2
    <3>2. CASE j # n
      <4>1. j \in 1..(n - 1)
        BY <3>2
      <4>2. PICK i \in 1..Len(k) : k[i] = list[j]
        BY <4>1 DEF Picks
      <4> QED BY <4>2, <2>1, <2>2
    <3> QED BY <3>1, <3>2
  <2>8. Picks(m, up, list, s, n)
    BY <2>4, <2>5, <2>6, <2>7 DEF Picks
  <2> QED BY <2>8, <1>2 DEF m
<1> QED BY <1>1, <1>2

LEMMA KeptPicks ==
    ASSUME NEW S, NEW list \in Seq(S), NEW s
    PROVE  KeptOf(list, s) \in Seq(S) /\ \E at : Picks(KeptOf(list, s), at, list, s, Len(list))
<1>0. PICK f : Keeps(f, S, list, s) /\ KeptOf(list, s) = f[Len(list)]
  BY KeptSteps
<1>1. /\ f \in [0..Len(list) -> Seq(S)] /\ KeptOf(list, s) = f[Len(list)] /\ f[0] = <<>>
      /\ \A n \in 1..Len(list) : f[n] = IF list[n] \in s THEN Append(f[n - 1], list[n]) ELSE f[n - 1]
  BY <1>0 DEF Keeps
<1> DEFINE T == {n \in 0..Len(list) : \E at : Picks(f[n], at, list, s, n)}
<1>2. 0 \in T
  <2>1. Picks(f[0], <<>>, list, s, 0)
    BY <1>1 DEF Picks
  <2> QED BY <2>1
<1>3. ASSUME NEW n \in 1..Len(list), n - 1 \in T PROVE n \in T
  <2>1. PICK at : Picks(f[n - 1], at, list, s, n - 1)
    BY <1>3
  <2>2. f[n - 1] \in Seq(S)
    BY <1>1, n - 1 \in 0..Len(list)
  <2>3. \E up : Picks(f[n], up, list, s, n)
    <3> DEFINE k == f[n - 1]
    <3>1. k \in Seq(S) /\ Picks(k, at, list, s, n - 1)
      BY <2>1, <2>2
    <3>2. f[n] = IF list[n] \in s THEN Append(k, list[n]) ELSE k
      BY <1>1
    <3> HIDE DEF k
    <3>3. \E up : Picks(IF list[n] \in s THEN Append(k, list[n]) ELSE k, up, list, s, n)
      BY <3>1, PicksGrow
    <3> QED BY <3>2, <3>3
  <2> QED BY <2>3
<1>4. Len(list) \in T
  <2>1. Len(list) \in Nat /\ Len(list) \in 0..Len(list)
    OBVIOUS
  <2> HIDE DEF T
  <2> QED BY <2>1, <1>2, <1>3, CountUp
<1> QED BY <1>4, <1>1

\* Array.filter keeps what is to be kept, in the order and as often as it was.
LEMMA KeptProperties ==
    ASSUME NEW S, NEW list \in Seq(S), NEW s
    PROVE  /\ KeptOf(list, s) \in Seq(S)
           /\ ToSet(KeptOf(list, s)) = ToSet(list) \cap s
           /\ IsInjective(list) => IsInjective(KeptOf(list, s))
<1> DEFINE k == KeptOf(list, s)
<1>1. k \in Seq(S)
  BY KeptPicks
<1>2. PICK at : Picks(k, at, list, s, Len(list))
  BY KeptPicks
<1> HIDE DEF k
<1>3. DOMAIN k = 1..Len(k) /\ DOMAIN list = 1..Len(list)
  BY <1>1
<1>4. ToSet(k) = ToSet(list) \cap s
  <2>1. ASSUME NEW i \in 1..Len(k) PROVE k[i] \in ToSet(list) \cap s
    <3>1. at[i] \in 1..Len(list) /\ k[i] = list[at[i]] /\ k[i] \in s
      BY <1>2 DEF Picks
    <3> QED BY <3>1, <1>3 DEF ToSet
  <2>2. ASSUME NEW j \in 1..Len(list), list[j] \in s PROVE list[j] \in ToSet(k)
    <3>1. PICK i \in 1..Len(k) : k[i] = list[j]
      BY <1>2, <2>2 DEF Picks
    <3> QED BY <3>1, <1>3 DEF ToSet
  <2>3. ToSet(k) = {k[i] : i \in 1..Len(k)} /\ ToSet(list) = {list[i] : i \in 1..Len(list)}
    BY <1>3 DEF ToSet
  <2> QED BY <2>1, <2>2, <2>3
<1>5. IsInjective(list) => IsInjective(k)
  BY <1>2, <1>3 DEF Picks, IsInjective
<1> QED BY <1>1, <1>4, <1>5 DEF k

-----------------------------------------------------------------------------
(***************************************************************************)
(* The keywords of a form, for every set of terms and every lower case.    *)
(***************************************************************************)

\* What a list of keywords is in lower case.
Folded(l) == {Fold[l[i]] : i \in 1..Len(l)}
FoldsApart(l) == \A i, j \in 1..Len(l) : Fold[l[i]] = Fold[l[j]] => i = j

\* f has what MergeKeywords has made of the first n keywords of raw.
Merges(f, existing, raw) ==
    /\ f \in [0..Len(raw) -> Seq(Terms)] /\ f[0] = existing
    /\ \A n \in 1..Len(raw) :
         f[n] = IF raw[n] = NoTerm \/ Fold[raw[n]] \in {Fold[e] : e \in ToSet(f[n - 1])} THEN f[n - 1]
                ELSE Append(f[n - 1], raw[n])

LEMMA MergeSteps ==
    ASSUME NEW existing \in Seq(Terms), NEW raw \in Seq(Terms \cup {NoTerm})
    PROVE  \E f : Merges(f, existing, raw) /\ MergeKeywords(existing, raw) = f[Len(raw)]
<1> DEFINE N == Len(raw)
           X == Seq(Terms)
           Next1(l, k) == IF k = NoTerm \/ Fold[k] \in {Fold[e] : e \in ToSet(l)} THEN l ELSE Append(l, k)
           step == [p \in (1..N) \X X |-> Next1(p[2], raw[p[1]])]
           Made(f) == f = [n \in 0..N |-> IF n = 0 THEN existing
                     ELSE IF raw[n] = NoTerm \/ Fold[raw[n]] \in {Fold[e] : e \in ToSet(f[n - 1])} THEN f[n - 1]
                     ELSE Append(f[n - 1], raw[n])]
<1>0. N \in Nat
  OBVIOUS
<1>1. step \in [(1..N) \X X -> X]
  <2>1. ASSUME NEW p \in (1..N) \X X PROVE Next1(p[2], raw[p[1]]) \in X
    <3>1. raw[p[1]] \in Terms \cup {NoTerm} /\ p[2] \in Seq(Terms)
      OBVIOUS
    <3>2. CASE raw[p[1]] = NoTerm \/ Fold[raw[p[1]]] \in {Fold[e] : e \in ToSet(p[2])}
      BY <3>1, <3>2
    <3>3. CASE raw[p[1]] \in Terms /\ Fold[raw[p[1]]] \notin {Fold[e] : e \in ToSet(p[2])}
      BY <3>1, <3>3, KeywordAssumption
    <3> QED BY <3>1, <3>2, <3>3
  <2> HIDE DEF Next1
  <2> QED BY <2>1
<1>2. PICK f \in [0..N -> X] : f[0] = existing /\ \A n \in 1..N : f[n] = step[<<n, f[n - 1]>>]
  <2>1. existing \in X
    OBVIOUS
  <2> HIDE DEF step, X, N
  <2>2. \E f : StepsOf(f, N, X, existing, step)
    BY <1>0, <1>1, <2>1, StepByStep
  <2> QED BY <2>2 DEF StepsOf
<1>3. ASSUME NEW n \in 1..N PROVE f[n] = Next1(f[n - 1], raw[n])
  <2>1. n - 1 \in 0..N
    OBVIOUS
  <2>2. <<n, f[n - 1]>> \in (1..N) \X X
    BY <2>1, <1>2
  <2> HIDE DEF Next1
  <2> QED BY <2>2, <1>2
<1> DEFINE k == [n \in 0..N |-> IF n = 0 THEN existing ELSE Next1(f[n - 1], raw[n])]
<1>4. Made(f)
  <2>1. ASSUME NEW n \in 0..N PROVE f[n] = k[n]
    <3> HIDE DEF Next1
    <3> QED BY <1>2, <1>3, n = 0 \/ n \in 1..N
  <2>2. f = k
    <3> HIDE DEF Next1
    <3> QED BY <2>1, <1>2
  <2> QED BY <2>2
<1>5. Made(CHOOSE h : Made(h))
  BY <1>4
<1> DEFINE g == CHOOSE h : Made(h)
<1>6. MergeKeywords(existing, raw) = g[N]
  BY DEF MergeKeywords
<1> HIDE DEF g, step
<1>7. g = [n \in 0..N |-> IF n = 0 THEN existing ELSE Next1(g[n - 1], raw[n])]
  BY <1>5 DEF g
<1> HIDE DEF Next1
<1>8. g[0] = existing /\ \A n \in 1..N : g[n] = Next1(g[n - 1], raw[n])
  <2> DEFINE At(n) == IF n = 0 THEN existing ELSE Next1(g[n - 1], raw[n])
  <2>1. \A n \in 0..N : g[n] = At(n)
    <3>1. g = [n \in 0..N |-> At(n)]
      BY <1>7
    <3> HIDE DEF At
    <3> QED BY <3>1
  <2>2. 0 \in 0..N /\ \A n \in 1..N : n \in 0..N /\ n # 0
    BY <1>0
  <2> QED BY <2>1, <2>2
<1> DEFINE Same == {n \in 0..N : g[n] = f[n]}
<1>9. \A n \in 0..N : n \in Same
  <2>1. 0 \in Same
    BY <1>8, <1>2, <1>0
  <2>2. \A n \in 1..N : n - 1 \in Same => n \in Same
    BY <1>8, <1>3
  <2> QED BY <2>1, <2>2, CountUp, <1>0
<1>10. MergeKeywords(existing, raw) = f[N]
  BY <1>6, <1>9, <1>0
<1> QED BY <1>10, <1>2, <1>3 DEF Merges, Next1

\* One keyword more: it is there afterwards, once.
LEMMA MergeStep ==
    ASSUME NEW l \in Seq(Terms), FoldsApart(l), NEW k \in Terms \cup {NoTerm}, NEW m,
           m = IF k = NoTerm \/ Fold[k] \in {Fold[e] : e \in ToSet(l)} THEN l ELSE Append(l, k)
    PROVE  /\ m \in Seq(Terms) /\ FoldsApart(m)
           /\ Folded(m) = Folded(l) \cup (IF k = NoTerm THEN {} ELSE {Fold[k]})
<1>1. {Fold[e] : e \in ToSet(l)} = Folded(l)
  BY DOMAIN l = 1..Len(l) DEF ToSet, Folded
<1>2. CASE k = NoTerm
  BY <1>2
<1>3. CASE k # NoTerm /\ Fold[k] \in Folded(l)
  <2>1. m = l
    BY <1>1, <1>3
  <2> QED BY <2>1, <1>3
<1>4. CASE k # NoTerm /\ Fold[k] \notin Folded(l)
  <2>1. m = Append(l, k) /\ k \in Terms
    BY <1>1, <1>4
  <2>2. /\ m \in Seq(Terms) /\ Len(m) = Len(l) + 1 /\ Len(l) \in Nat
        /\ m[Len(m)] = k /\ \A i \in 1..Len(l) : m[i] = l[i]
    BY <2>1, AppendProperties
  <2>3. /\ \A i \in 1..Len(l) : i \in 1..Len(m) /\ i # Len(m)
        /\ \A i \in 1..Len(m) : i = Len(m) \/ i \in 1..Len(l)
        /\ Len(m) \in 1..Len(m)
    BY <2>2
  <2>4. \A i \in 1..Len(l) : Fold[l[i]] # Fold[k]
    BY <1>4 DEF Folded
  <2>5. FoldsApart(m)
    BY <2>2, <2>3, <2>4 DEF FoldsApart
  <2>6. Folded(m) = Folded(l) \cup {Fold[k]}
    BY <2>2, <2>3 DEF Folded
  <2> QED BY <2>2, <2>5, <2>6, <1>4
<1> QED BY <1>2, <1>3, <1>4

\* mergeKeywords: every keyword of the list and of what was typed, each once.
LEMMA MergeProperties ==
    ASSUME NEW existing \in Seq(Terms), FoldsApart(existing), NEW raw \in Seq(Terms \cup {NoTerm})
    PROVE  LET l == MergeKeywords(existing, raw) IN
           /\ l \in Seq(Terms) /\ FoldsApart(l)
           /\ Folded(l) = Folded(existing) \cup {Fold[raw[i]] : i \in {j \in 1..Len(raw) : raw[j] # NoTerm}}
<1>0. PICK f : Merges(f, existing, raw) /\ MergeKeywords(existing, raw) = f[Len(raw)]
  BY MergeSteps
<1>1. Len(raw) \in Nat
  OBVIOUS
<1> DEFINE Typed(n) == {Fold[raw[i]] : i \in {j \in 1..n : raw[j] # NoTerm}}
           Good(n) == /\ f[n] \in Seq(Terms) /\ FoldsApart(f[n])
                      /\ Folded(f[n]) = Folded(existing) \cup Typed(n)
           Upto == {n \in 0..Len(raw) : Good(n)}
<1>2. 0 \in Upto
  BY <1>0, <1>1 DEF Merges
<1>3. ASSUME NEW n \in 1..Len(raw), n - 1 \in Upto PROVE n \in Upto
  <2> DEFINE l == f[n - 1]
  <2>1. l \in Seq(Terms) /\ FoldsApart(l) /\ Folded(l) = Folded(existing) \cup Typed(n - 1)
    BY <1>3
  <2>2. f[n] = IF raw[n] = NoTerm \/ Fold[raw[n]] \in {Fold[e] : e \in ToSet(l)} THEN l ELSE Append(l, raw[n])
    BY <1>0 DEF Merges
  <2>3. raw[n] \in Terms \cup {NoTerm}
    OBVIOUS
  <2> HIDE DEF l
  <2>4. /\ f[n] \in Seq(Terms) /\ FoldsApart(f[n])
        /\ Folded(f[n]) = Folded(l) \cup (IF raw[n] = NoTerm THEN {} ELSE {Fold[raw[n]]})
    BY <2>1, <2>2, <2>3, MergeStep
  <2>5. 1..n = (1..(n - 1)) \cup {n}
    OBVIOUS
  <2>6. Typed(n) = Typed(n - 1) \cup (IF raw[n] = NoTerm THEN {} ELSE {Fold[raw[n]]})
    BY <2>5
  <2> HIDE DEF Typed
  <2> QED BY <2>1, <2>4, <2>6
<1>4. Len(raw) \in Upto
  <2>1. Len(raw) \in 0..Len(raw)
    BY <1>1
  <2> HIDE DEF Upto
  <2> QED BY <2>1, <1>1, <1>2, <1>3, CountUp
<1> QED BY <1>4, <1>0

\* A keyword that is taken out leaves the others as they were.
LEMMA RemovalKeepsApart ==
    ASSUME NEW l \in Seq(Terms), FoldsApart(l), NEW s
    PROVE  KeptOf(l, s) \in Seq(Terms) /\ FoldsApart(KeptOf(l, s))
<1> DEFINE k == KeptOf(l, s)
<1>1. k \in Seq(Terms)
  BY KeptPicks
<1>2. PICK at : Picks(k, at, l, s, Len(l))
  BY KeptPicks
<1> HIDE DEF k
<1>3. FoldsApart(k)
  BY <1>2 DEF Picks, FoldsApart
<1> QED BY <1>1, <1>3 DEF k

\* The keywords of the form are terms, and none is another one in other letters.
KeywordsOK ==
    /\ form.keywords \in Seq(Terms) /\ FoldsApart(form.keywords)
    /\ form.input \in Seq(Terms \cup {NoTerm})

LEMMA KeywordsStep ==
    ASSUME FInv, KeywordsOK, [Next]_vars
    PROVE  KeywordsOK'
<1> USE DEF KeywordsOK
<1>1. ASSUME form'.keywords = form.keywords, form'.input = form.input PROVE KeywordsOK'
  BY <1>1 DEF FoldsApart
<1>2. CASE form' = form
  BY <1>1, <1>2
<1>3. /\ <<>> \in Seq(Terms) /\ <<>> \in Seq(Terms \cup {NoTerm})
      /\ FoldsApart(<<>>) /\ \A k \in Terms : <<k>> \in Seq(Terms) /\ FoldsApart(<<k>>)
  BY DEF FoldsApart
<1>4. CASE form' = Closed
  BY <1>3, <1>4 DEF Closed, FoldsApart
<1>5. HasFields(form)
  BY DEF FInv, FormIds
<1>6. ASSUME NEW s \in Sections \cup {NoneOpen}, OpenSection(s) PROVE KeywordsOK'
  BY <1>4, <1>6 DEF OpenSection, FormsFollowSection
<1>7. CASE UNCHANGED formVars
  BY <1>2, <1>7 DEF formVars
<1>8. CASE FormsNext
  <2>1. CASE CancelForm
    BY <1>4, <2>1 DEF CancelForm
  <2>2. CASE Fill
    BY <1>1, <1>5, <2>2 DEF Fill, HasFields
  <2>3. ASSUME NEW raw \in Inputs, TypeKeywords(raw) PROVE KeywordsOK'
    <3>1. form'.keywords = form.keywords /\ form'.input = raw
      BY <1>5, <2>3 DEF TypeKeywords, HasFields
    <3>2. raw \in Seq(Terms \cup {NoTerm})
      <4> DEFINE TT == Terms \cup {NoTerm}
      <4>1. raw = <<>> \/ \E a, b \in TT : raw = <<a, b>>
        BY DEF Inputs
      <4> HIDE DEF TT
      <4>2. <<>> \in Seq(TT) /\ \A a, b \in TT : <<a, b>> \in Seq(TT)
        OBVIOUS
      <4>3. raw \in Seq(TT)
        BY <4>1, <4>2, Zenon
      <4> QED BY <4>3 DEF TT
    <3> QED BY <3>1, <3>2 DEF FoldsApart
  <2>4. CASE AddKeywords
    <3> DEFINE l == EffectiveKeywords
    <3>1. form'.keywords = l /\ form'.input = <<>>
      BY <1>5, <2>4 DEF AddKeywords, HasFields
    <3>2. l \in Seq(Terms) /\ FoldsApart(l)
      BY MergeProperties DEF EffectiveKeywords
    <3> QED BY <1>3, <3>1, <3>2 DEF FoldsApart
  <2>5. ASSUME NEW k \in Terms, RemoveKeyword(k) PROVE KeywordsOK'
    <3> DEFINE l == KeptOf(form.keywords, ToSet(form.keywords) \ {k})
    <3>1. form'.keywords = l /\ form'.input = form.input
      BY <1>5, <2>5 DEF RemoveKeyword, HasFields, LeftOf
    <3>2. l \in Seq(Terms) /\ FoldsApart(l)
      BY RemovalKeepsApart
    <3> QED BY <3>1, <3>2 DEF FoldsApart
  <2>6. ASSUME NEW of \in 0..MaxWrites, OpenForm(of) PROVE KeywordsOK'
    <3>1. PICK had \in Had(of) : form' = Opened(of, had)
      BY <2>6 DEF OpenForm
    <3>2. form'.keywords = had /\ form'.input = <<>>
      BY <3>1 DEF Opened
    <3>3. had \in Seq(Terms) /\ FoldsApart(had)
      BY <1>3 DEF Had
    <3> QED BY <1>3, <3>2, <3>3 DEF FoldsApart
  <2>7. ASSUME NEW of \in 0..MaxWrites, AskDeleteRecord(of) PROVE KeywordsOK'
    BY <1>2, <2>7 DEF AskDeleteRecord
  <2>8. CASE Submit
    BY <1>2, <2>8 DEF Submit
  <2>9. CASE DismissDelete \/ ConfirmDeleteRecord
    BY <1>2, <2>9 DEF DismissDelete, ConfirmDeleteRecord
  <2>10. ASSUME NEW w \in formWrites, ServeForm(w) PROVE KeywordsOK'
    BY <1>2, <2>10 DEF ServeForm
  <2>11. ASSUME NEW w \in formWrites, FormAnswered(w) PROVE KeywordsOK'
    BY <1>2, <1>4, <2>11 DEF FormAnswered
  <2> QED BY <1>8, <2>1, <2>2, <2>3, <2>4, <2>5, <2>6, <2>7, <2>8, <2>9, <2>10, <2>11 DEF FormsNext
<1>9. CASE UNCHANGED vars
  BY <1>7, <1>9 DEF vars
<1> QED BY <1>6, <1>7, <1>8, <1>9 DEF Next

THEOREM KeywordsInvariant == Spec => []KeywordsOK
<1>1. Init => KeywordsOK
  <2>1. <<>> \in Seq(Terms) /\ <<>> \in Seq(Terms \cup {NoTerm}) /\ FoldsApart(<<>>)
    BY DEF FoldsApart
  <2> QED BY <2>1 DEF Init, FormsInit, Closed, KeywordsOK
<1>2. FInv /\ KeywordsOK /\ [Next]_vars => KeywordsOK'
  BY KeywordsStep
<1> QED BY <1>1, <1>2, FormsInvariant, PTL DEF Spec

\* What a form would send as keywords: each once, and whatever was added or typed
\* (ServiceForm.tsx, mergeKeywords).
THEOREM KeywordsAreSentOnce == Spec => []KeywordsAreMerged
<1>1. KeywordsOK => KeywordsAreMerged
  <2> SUFFICES ASSUME KeywordsOK PROVE KeywordsAreMerged
    OBVIOUS
  <2> DEFINE l == EffectiveKeywords
             folded(s) == {Fold[k] : k \in s \ {NoTerm}}
  <2>1. /\ l \in Seq(Terms) /\ FoldsApart(l)
        /\ Folded(l) = Folded(form.keywords)
             \cup {Fold[form.input[i]] : i \in {j \in 1..Len(form.input) : form.input[j] # NoTerm}}
    BY MergeProperties DEF KeywordsOK, EffectiveKeywords
  <2> HIDE DEF l
  <2>2. \A t \in Seq(Terms) : folded(ToSet(t)) = Folded(t)
    <3> TAKE t \in Seq(Terms)
    <3>1. ToSet(t) = {t[i] : i \in 1..Len(t)}
      BY DEF ToSet
    <3>2. \A i \in 1..Len(t) : t[i] \in Terms /\ t[i] # NoTerm
      BY KeywordAssumption
    <3> QED BY <3>1, <3>2 DEF Folded
  <2>3. Cardinality(Folded(l)) = Len(l)
    <3> DEFINE f == [i \in 1..Len(l) |-> Fold[l[i]]]
    <3>1. Len(l) \in Nat /\ IsFiniteSet(1..Len(l)) /\ Cardinality(1..Len(l)) = Len(l)
      BY <2>1, FS_Interval
    <3>2. f \in Surjection(1..Len(l), Folded(l))
      BY DEF Surjection, Folded
    <3>3. f \in Injection(1..Len(l), Folded(l))
      BY <2>1 DEF Injection, IsInjective, Folded, FoldsApart
    <3> HIDE DEF f
    <3> QED BY <3>1, <3>2, <3>3, FS_Surjection
  <2>4. folded(ToSet(form.keywords) \cup ToSet(form.input))
          = Folded(form.keywords) \cup {Fold[form.input[i]] : i \in {j \in 1..Len(form.input) : form.input[j] # NoTerm}}
    <3>1. ToSet(form.input) = {form.input[i] : i \in 1..Len(form.input)}
      BY DEF ToSet, KeywordsOK
    <3>2. folded(ToSet(form.input)) = {Fold[form.input[i]] : i \in {j \in 1..Len(form.input) : form.input[j] # NoTerm}}
      BY <3>1
    <3>3. folded(ToSet(form.keywords)) = Folded(form.keywords)
      BY <2>2 DEF KeywordsOK
    <3> QED BY <3>2, <3>3
  <2> QED BY <2>1, <2>2, <2>3, <2>4 DEF KeywordsAreMerged, l
<1> QED BY <1>1, KeywordsInvariant, PTL

-----------------------------------------------------------------------------
(***************************************************************************)
(* Lists without repetitions.                                              *)
(***************************************************************************)

OnceEach(S) == {l \in Seq(S) : IsInjective(l)}

\* No such list is longer than what it is made of, so that bounding the length takes
\* none away.
LEMMA OnceEachIsBounded ==
    ASSUME NEW S, IsFiniteSet(S)
    PROVE  {l \in UNION {[1..n -> S] : n \in 0..Cardinality(S)} : IsInjective(l)} = OnceEach(S)
<1>1. Cardinality(S) \in Nat
  BY FS_CardinalityType
<1>2. ASSUME NEW n \in 0..Cardinality(S), NEW l \in [1..n -> S] PROVE l \in Seq(S)
  BY <1>1
<1>3. ASSUME NEW l \in OnceEach(S) PROVE Len(l) \in 0..Cardinality(S) /\ l \in [1..Len(l) -> S]
  <2>1. Len(l) \in Nat /\ l \in [1..Len(l) -> S] /\ IsInjective(l)
    BY DEF OnceEach
  <2>2. l \in Injection(1..Len(l), S)
    BY <2>1 DEF Injection
  <2>3. Cardinality(1..Len(l)) <= Cardinality(S)
    BY <2>2, FS_Injection
  <2>4. Cardinality(1..Len(l)) = Len(l)
    BY <2>1, FS_Interval
  <2> QED BY <1>1, <2>1, <2>3, <2>4
<1> QED BY <1>2, <1>3 DEF OnceEach

LEMMA SwapKeeps ==
    ASSUME NEW S, NEW l \in OnceEach(S), NEW i \in DOMAIN l, NEW j \in DOMAIN l,
           NEW m, m = [l EXCEPT ![i] = l[j], ![j] = l[i]]
    PROVE  m \in OnceEach(S) /\ ToSet(m) = ToSet(l)
<1>1. l \in Seq(S) /\ IsInjective(l) /\ DOMAIN l = 1..Len(l)
  BY DEF OnceEach
<1>2. DOMAIN m = DOMAIN l
  OBVIOUS
<1>3. \A k \in DOMAIN l : m[k] = IF k = j THEN l[i] ELSE IF k = i THEN l[j] ELSE l[k]
  OBVIOUS
<1>4. m \in Seq(S)
  BY <1>1
<1>5. IsInjective(m)
  <2>1. ASSUME NEW a \in DOMAIN l, NEW b \in DOMAIN l, m[a] = m[b] PROVE a = b
    BY <1>1, <1>3, <2>1 DEF IsInjective
  <2> QED BY <1>2, <2>1 DEF IsInjective
<1>6. ToSet(m) = ToSet(l)
  <2>1. ASSUME NEW k \in DOMAIN l PROVE m[k] \in ToSet(l)
    BY <1>3 DEF ToSet
  <2>2. ASSUME NEW k \in DOMAIN l PROVE l[k] \in ToSet(m)
    <3>1. \E h \in DOMAIN m : m[h] = l[k]
      BY <1>2, <1>3
    <3> QED BY <3>1 DEF ToSet
  <2>3. ToSet(m) = {m[k] : k \in DOMAIN l} /\ ToSet(l) = {l[k] : k \in DOMAIN l}
    BY <1>2 DEF ToSet
  <2> QED BY <2>1, <2>2, <2>3
<1> QED BY <1>4, <1>5, <1>6 DEF OnceEach

LEMMA JoinKeeps ==
    ASSUME NEW S, NEW l \in Seq(S), NEW r \in Seq(S)
    PROVE  /\ l \o r \in Seq(S) /\ ToSet(l \o r) = ToSet(l) \cup ToSet(r)
           /\ IsInjective(l) /\ IsInjective(r) /\ ToSet(l) \cap ToSet(r) = {} => IsInjective(l \o r)
<1> DEFINE m == l \o r
<1>1. /\ Len(l) \in Nat /\ Len(r) \in Nat
      /\ DOMAIN l = 1..Len(l) /\ DOMAIN r = 1..Len(r)
  OBVIOUS
<1>2. /\ m \in Seq(S) /\ Len(m) = Len(l) + Len(r) /\ DOMAIN m = 1..Len(m)
      /\ \A k \in 1..(Len(l) + Len(r)) : m[k] = IF k <= Len(l) THEN l[k] ELSE r[k - Len(l)]
  BY ConcatProperties
<1> HIDE DEF m
<1>3. /\ \A k \in 1..Len(l) : k \in 1..Len(m) /\ m[k] = l[k]
      /\ \A k \in 1..Len(r) : Len(l) + k \in 1..Len(m) /\ m[Len(l) + k] = r[k]
  <2>1. ASSUME NEW k \in 1..Len(l) PROVE k \in 1..Len(m) /\ m[k] = l[k]
    BY <1>1, <1>2
  <2>2. ASSUME NEW k \in 1..Len(r) PROVE Len(l) + k \in 1..Len(m) /\ m[Len(l) + k] = r[k]
    <3>1. Len(l) + k \in 1..(Len(l) + Len(r)) /\ ~(Len(l) + k <= Len(l)) /\ (Len(l) + k) - Len(l) = k
      BY <1>1
    <3> QED BY <1>2, <3>1
  <2> QED BY <2>1, <2>2
<1>4. \A k \in 1..Len(m) : k \in 1..Len(l) \/ \E h \in 1..Len(r) : k = Len(l) + h
  <2> TAKE k \in 1..Len(m)
  <2> SUFFICES ASSUME k \notin 1..Len(l) PROVE \E h \in 1..Len(r) : k = Len(l) + h
    OBVIOUS
  <2> DEFINE h == k - Len(l)
  <2>1. h \in 1..Len(r) /\ k = Len(l) + h
    BY <1>1, <1>2
  <2> HIDE DEF h
  <2> QED BY <2>1
<1>5. ToSet(m) = ToSet(l) \cup ToSet(r)
  <2>1. ASSUME NEW k \in 1..Len(m) PROVE m[k] \in ToSet(l) \cup ToSet(r)
    <3>1. CASE k \in 1..Len(l)
      BY <1>1, <1>3, <3>1 DEF ToSet
    <3>2. ASSUME NEW h \in 1..Len(r), k = Len(l) + h PROVE m[k] \in ToSet(r)
      BY <1>1, <1>3, <3>2 DEF ToSet
    <3> QED BY <1>4, <3>1, <3>2
  <2>2. ASSUME NEW k \in 1..Len(l) PROVE l[k] \in ToSet(m)
    BY <1>2, <1>3 DEF ToSet
  <2>3. ASSUME NEW k \in 1..Len(r) PROVE r[k] \in ToSet(m)
    <3>1. \E h \in DOMAIN m : m[h] = r[k]
      BY <1>2, <1>3
    <3> QED BY <3>1 DEF ToSet
  <2>4. /\ ToSet(m) = {m[k] : k \in 1..Len(m)} /\ ToSet(l) = {l[k] : k \in 1..Len(l)}
        /\ ToSet(r) = {r[k] : k \in 1..Len(r)}
    BY <1>1, <1>2 DEF ToSet
  <2> QED BY <2>1, <2>2, <2>3, <2>4
<1>6. ASSUME IsInjective(l), IsInjective(r), ToSet(l) \cap ToSet(r) = {} PROVE IsInjective(m)
  <2>1. \A k \in 1..Len(l), h \in 1..Len(r) : l[k] # r[h]
    BY <1>1, <1>6 DEF ToSet
  <2>2. ASSUME NEW a \in 1..Len(m), NEW b \in 1..Len(m), m[a] = m[b] PROVE a = b
    <3>1. CASE a \in 1..Len(l) /\ b \in 1..Len(l)
      BY <1>1, <1>3, <1>6, <2>2, <3>1 DEF IsInjective
    <3>2. ASSUME NEW h \in 1..Len(r), a = Len(l) + h PROVE a = b
      <4>1. m[a] = r[h]
        BY <1>3, <3>2
      <4>2. b \notin 1..Len(l)
        BY <1>3, <2>1, <2>2, <4>1
      <4>3. PICK k \in 1..Len(r) : b = Len(l) + k
        BY <1>4, <4>2
      <4>4. r[h] = r[k]
        BY <1>3, <2>2, <4>1, <4>3
      <4> QED BY <1>1, <1>6, <3>2, <4>3, <4>4 DEF IsInjective
    <3>3. ASSUME NEW h \in 1..Len(r), b = Len(l) + h PROVE a = b
      <4>1. m[b] = r[h]
        BY <1>3, <3>3
      <4>2. a \notin 1..Len(l)
        BY <1>3, <2>1, <2>2, <4>1
      <4> QED BY <1>4, <3>2, <4>2
    <3> QED BY <1>4, <3>1, <3>2, <3>3
  <2> QED BY <1>2, <2>2 DEF IsInjective
<1> QED BY <1>2, <1>5, <1>6 DEF m

LEMMA AppendKeeps ==
    ASSUME NEW S, NEW l \in OnceEach(S), NEW x \in S, x \notin ToSet(l)
    PROVE  Append(l, x) \in OnceEach(S) /\ ToSet(Append(l, x)) = ToSet(l) \cup {x}
<1> DEFINE m == Append(l, x)
<1>1. l \in Seq(S) /\ IsInjective(l) /\ DOMAIN l = 1..Len(l) /\ Len(l) \in Nat
  BY DEF OnceEach
<1>2. /\ m \in Seq(S) /\ Len(m) = Len(l) + 1 /\ DOMAIN m = 1..Len(m)
      /\ m[Len(m)] = x /\ \A i \in 1..Len(l) : m[i] = l[i]
  BY <1>1, AppendProperties
<1> HIDE DEF m
<1>3. /\ \A i \in 1..Len(l) : i \in 1..Len(m)
      /\ \A i \in 1..Len(m) : i = Len(m) \/ i \in 1..Len(l)
      /\ Len(m) \in 1..Len(m)
  BY <1>1, <1>2
<1>4. \A i \in 1..Len(l) : l[i] # x
  BY <1>1 DEF ToSet
<1>5. IsInjective(m)
  BY <1>1, <1>2, <1>3, <1>4 DEF IsInjective
<1>6. ToSet(m) = ToSet(l) \cup {x}
  BY <1>1, <1>2, <1>3 DEF ToSet
<1> QED BY <1>2, <1>5, <1>6 DEF OnceEach, m

LEMMA LeftProperties ==
    ASSUME NEW S, NEW l \in Seq(S), NEW s
    PROVE  /\ LeftOf(l, s) \in Seq(S) /\ ToSet(LeftOf(l, s)) = ToSet(l) \ s
           /\ IsInjective(l) => IsInjective(LeftOf(l, s))
BY KeptProperties DEF LeftOf

-----------------------------------------------------------------------------
(***************************************************************************)
(* The default views, for every set of roles and services and any number   *)
(* of fetches, edits and saves.                                            *)
(***************************************************************************)

\* A fetch that is heeded is of the role edited, and so is the list that was loaded.
RolesAreFollowed ==
    /\ roles \in Seq(Roles)
    /\ loaded # Unread => Role # NoRole
    /\ \A r \in reads : r.active => r.role = Role

RolesInv == RolesTypeOK /\ RolesAreFollowed /\ LoadedListIsTheRoles

LEMMA ListsAreOnceEach == Lists = OnceEach(Services)
BY OnceEachIsBounded, RoleDefaultsAssumption DEF Lists

LEMMA RoleIsOne ==
    ASSUME NEW seq \in Seq(Roles), NEW x, NEW y,
           x = IF y \in ToSet(seq) THEN y ELSE Head(seq), seq # <<>>
    PROVE  x \in Roles
<1>1. ToSet(seq) \subseteq Roles
  BY DEF ToSet
<1>2. Head(seq) \in Roles
  OBVIOUS
<1> QED BY <1>1, <1>2

LEMMA RoleTyped == roles \in Seq(Roles) => Role \in Roles \cup {NoRole}
<1> SUFFICES ASSUME roles \in Seq(Roles) PROVE Role \in Roles \cup {NoRole}
  OBVIOUS
<1>1. CASE section # "roles" \/ roles = <<>>
  BY <1>1 DEF Role
<1>2. CASE ~(section # "roles" \/ roles = <<>>)
  <2>1. roles # <<>> /\ Role = IF selected \in ToSet(roles) THEN selected ELSE Head(roles)
    BY <1>2 DEF Role
  <2>2. Role \in Roles
    BY <2>1, RoleIsOne
  <2> QED BY <2>2
<1> QED BY <1>1, <1>2

\* The fetches and what is known of the list follow the role, or both stay.
LEMMA FollowingStep ==
    ASSUME RolesInv, FollowRole, Role' \in Roles \cup {NoRole}
    PROVE  /\ edited' \in BOOLEAN /\ removed' \subseteq Services /\ loaded' \in Lists \cup {Unread}
           /\ reads' \subseteq Reads
           /\ loaded' # Unread => Role' = Role /\ Role' # NoRole /\ loaded' = loaded
                                  /\ edited' = edited /\ removed' = removed
           /\ \A r \in reads' : r.active => r.role = Role'
<1>1. /\ edited \in BOOLEAN /\ removed \subseteq Services /\ loaded \in Lists \cup {Unread}
      /\ reads \subseteq Reads
      /\ (loaded # Unread => Role # NoRole) /\ \A r \in reads : r.active => r.role = Role
  BY DEF RolesInv, RolesTypeOK, RolesAreFollowed
<1>2. CASE Role' = Role
  BY <1>1, <1>2 DEF FollowRole
<1>3. CASE Role' # Role
  <2>1. /\ edited' = FALSE /\ loaded' = Unread /\ removed' = {}
        /\ reads' = {[r EXCEPT !.active = FALSE] : r \in reads}
                     \cup {[role |-> x, list |-> Unread, active |-> TRUE] : x \in {Role'} \ {NoRole}}
    BY <1>3 DEF FollowRole
  <2>2. \A r \in reads : /\ [r EXCEPT !.active = FALSE] \in Reads
                         /\ ~[r EXCEPT !.active = FALSE].active
    BY <1>1 DEF Reads
  <2>3. \A x \in {Role'} \ {NoRole} :
           LET new == [role |-> x, list |-> Unread, active |-> TRUE] IN
           new \in Reads /\ new.role = Role'
    BY DEF Reads
  <2> QED BY <2>1, <2>2, <2>3
<1> QED BY <1>2, <1>3

\* A step that follows the role and leaves the list on screen.
LEMMA FollowingKeeps ==
    ASSUME RolesInv, FollowRole, ordered' = ordered, saves' = saves, defaults' = defaults,
           saved' \in BOOLEAN, roles' \in Seq(Roles), IsInjective(roles'), selected' \in Roles \cup {NoRole},
           Role' \in Roles \cup {NoRole}
    PROVE  RolesInv'
<1> USE FollowingStep
<1>1. ToSet(roles') \subseteq Roles
  BY DEF ToSet
<1>2. RolesTypeOK'
  BY <1>1 DEF RolesInv, RolesTypeOK
<1>3. RolesAreFollowed'
  BY DEF RolesAreFollowed
<1>4. LoadedListIsTheRoles'
  BY DEF RolesInv, LoadedListIsTheRoles
<1> QED BY <1>2, <1>3, <1>4 DEF RolesInv

\* A step that leaves the role and the lists, but perhaps not the fetches and saves.
LEMMA RolesElsewhere ==
    ASSUME RolesInv, Role' = Role, roles' = roles, selected' = selected, ordered' = ordered,
           edited' = edited, loaded' = loaded, removed' = removed,
           defaults' \in [Roles -> Lists], reads' \subseteq Reads, saves' \subseteq Saves,
           saved' \in BOOLEAN, \A r \in reads' : r.active => r.role = Role
    PROVE  RolesInv'
<1>1. RolesTypeOK'
  BY DEF RolesInv, RolesTypeOK
<1>2. RolesAreFollowed' /\ LoadedListIsTheRoles'
  BY DEF RolesInv, RolesAreFollowed, LoadedListIsTheRoles
<1> QED BY <1>1, <1>2 DEF RolesInv

\* What is merged holds the list that came and what was on screen, each once.
LEMMA MergedList ==
    ASSUME NEW l \in Lists, NEW prev \in Lists, edited \in BOOLEAN
    PROVE  /\ Merge(l, prev) \in Lists /\ ToSet(l) \subseteq ToSet(Merge(l, prev))
           /\ ~edited => Merge(l, prev) = l
<1>1. l \in Seq(Services) /\ IsInjective(l) /\ prev \in Seq(Services) /\ IsInjective(prev)
  BY ListsAreOnceEach DEF OnceEach
<1>2. CASE ~edited
  BY <1>2 DEF Merge
<1>3. CASE edited
  <2> DEFINE k == LeftOf(l, ToSet(prev))
  <2>1. Merge(l, prev) = k \o prev
    BY <1>3 DEF Merge
  <2>2. k \in Seq(Services) /\ IsInjective(k) /\ ToSet(k) = ToSet(l) \ ToSet(prev)
    BY <1>1, LeftProperties
  <2> HIDE DEF k
  <2>3. k \o prev \in OnceEach(Services) /\ ToSet(k \o prev) = ToSet(k) \cup ToSet(prev)
    BY <1>1, <2>2, JoinKeeps DEF OnceEach
  <2> QED BY <1>3, <2>1, <2>2, <2>3, ListsAreOnceEach
<1> QED BY <1>2, <1>3

LEMMA ReadArrivesKeeps ==
    ASSUME RolesInv, NEW r \in reads, ReadArrives(r)
    PROVE  RolesInv'
<1>1. /\ r \in Reads /\ r.list # Unread /\ reads' = reads \ {r} /\ UNCHANGED <<section, defaults, roles, selected, edited, removed, saves, saved>>
      /\ r.list \in Lists /\ edited \in BOOLEAN /\ ordered \in Lists
  BY DEF ReadArrives, RolesInv, RolesTypeOK, Reads, nav
<1>2. Role' = Role
  BY <1>1 DEF Role
<1>3. CASE r.active /\ Role # NoRole
  <2>1. ordered' = Merge(r.list, ordered) /\ loaded' = r.list
    BY <1>3 DEF ReadArrives, Heeds
  <2>2. /\ ordered' \in Lists /\ ToSet(r.list) \subseteq ToSet(ordered')
        /\ ~edited => ordered' = r.list
    BY <1>1, <2>1, MergedList
  <2>3. RolesTypeOK'
    BY <1>1, <2>1, <2>2 DEF RolesInv, RolesTypeOK
  <2>4. RolesAreFollowed'
    BY <1>1, <1>2, <1>3 DEF RolesInv, RolesAreFollowed
  <2>5. LoadedListIsTheRoles'
    BY <1>1, <2>1, <2>2 DEF LoadedListIsTheRoles
  <2> QED BY <2>3, <2>4, <2>5 DEF RolesInv
<1>4. CASE ~(r.active /\ Role # NoRole)
  <2>1. ordered' = ordered /\ loaded' = loaded
    BY <1>4 DEF ReadArrives, Heeds
  <2> QED BY <1>1, <1>2, <2>1, RolesElsewhere DEF RolesInv, RolesTypeOK, RolesAreFollowed
<1> QED BY <1>3, <1>4

\* The list is edited by hand.
LEMMA EditKeeps ==
    ASSUME RolesInv, NEW l \in Lists, NEW gone \in SUBSET Services, Edit(l, gone),
           ToSet(ordered) \ gone \subseteq ToSet(l) \cup removed, removed \ gone \subseteq ToSet(l)
    PROVE  RolesInv'
<1>1. /\ ordered' = l /\ edited' = TRUE /\ removed' = gone
      /\ UNCHANGED <<section, defaults, roles, selected, reads, loaded, saves, saved>>
  BY DEF Edit, nav
<1>2. Role' = Role
  BY <1>1 DEF Role
<1>3. RolesTypeOK'
  BY <1>1 DEF RolesInv, RolesTypeOK
<1>4. RolesAreFollowed'
  BY <1>1, <1>2 DEF RolesInv, RolesAreFollowed
<1>5. loaded # Unread => ToSet(loaded) \ removed \subseteq ToSet(ordered)
  BY DEF RolesInv, LoadedListIsTheRoles
<1>6. LoadedListIsTheRoles'
  BY <1>1, <1>5 DEF LoadedListIsTheRoles
<1> QED BY <1>3, <1>4, <1>6 DEF RolesInv

LEMMA EditsKeep ==
    ASSUME RolesInv
    PROVE  /\ \A i, j \in DOMAIN ordered : MoveService(i, j) => RolesInv'
           /\ \A id \in Services : RemoveService(id) \/ AddService(id) => RolesInv'
<1>1. ordered \in OnceEach(Services) /\ removed \subseteq Services /\ ToSet(ordered) \subseteq Services
  BY ListsAreOnceEach DEF RolesInv, RolesTypeOK, OnceEach, ToSet
<1>2. ASSUME NEW i \in DOMAIN ordered, NEW j \in DOMAIN ordered, MoveService(i, j) PROVE RolesInv'
  <2> DEFINE l == [ordered EXCEPT ![i] = ordered[j], ![j] = ordered[i]]
  <2>1. l \in Lists /\ ToSet(l) = ToSet(ordered)
    BY <1>1, SwapKeeps, ListsAreOnceEach
  <2>2. Edit(l, removed)
    BY <1>2 DEF MoveService
  <2> HIDE DEF l
  <2> QED BY <1>1, <2>1, <2>2, EditKeeps
<1>3. ASSUME NEW id \in Services, RemoveService(id) PROVE RolesInv'
  <2> DEFINE l == LeftOf(ordered, {id})
  <2>1. l \in Lists /\ ToSet(l) = ToSet(ordered) \ {id}
    BY <1>1, LeftProperties, ListsAreOnceEach DEF OnceEach
  <2>2. Edit(l, removed \cup {id})
    BY <1>3 DEF RemoveService
  <2> HIDE DEF l
  <2> QED BY <1>1, <2>1, <2>2, EditKeeps
<1>4. ASSUME NEW id \in Services, AddService(id) PROVE RolesInv'
  <2> DEFINE l == Append(ordered, id)
  <2>1. id \notin ToSet(ordered) /\ Edit(l, removed \ {id})
    BY <1>4 DEF AddService
  <2>2. l \in Lists /\ ToSet(l) = ToSet(ordered) \cup {id}
    BY <1>1, <2>1, AppendKeeps, ListsAreOnceEach
  <2> HIDE DEF l
  <2> QED BY <1>1, <2>1, <2>2, EditKeeps
<1> QED BY <1>2, <1>3, <1>4

\* Fetches and saves that are served, fail, or are answered; saves that are begun.
LEMMA RoleRequestsKeep ==
    ASSUME RolesInv, budget \in 0..MaxWrites
    PROVE  /\ \A r \in reads : ServeRead(r) \/ ReadFails(r) => RolesInv'
           /\ \A w \in saves : ServeSave(w) \/ SaveAnswered(w) => RolesInv'
           /\ Save \/ OtherAdminSaves => RolesInv'
<1>1. /\ reads \subseteq Reads /\ saves \subseteq Saves /\ saved \in BOOLEAN /\ ordered \in Lists
      /\ defaults \in [Roles -> Lists] /\ \A r \in reads : r.active => r.role = Role
      /\ roles \in Seq(Roles)
  BY DEF RolesInv, RolesTypeOK, RolesAreFollowed
<1>2. ASSUME UNCHANGED <<section, roles, selected, ordered, edited, loaded, removed>>,
             reads' \subseteq Reads, saves' \subseteq Saves, saved' \in BOOLEAN,
             defaults' \in [Roles -> Lists], \A r \in reads' : r.active => r.role = Role
      PROVE  RolesInv'
  <2>1. Role' = Role
    BY <1>2 DEF Role
  <2> QED BY <1>2, <2>1, RolesElsewhere
<1>3. ASSUME NEW r \in reads, ServeRead(r) PROVE RolesInv'
  <2> DEFINE read == [r EXCEPT !.list = defaults[r.role]]
  <2>1. /\ reads' = (reads \ {r}) \cup {read}
        /\ UNCHANGED <<section, defaults, roles, selected, ordered, edited, loaded, removed, saved, saves>>
    BY <1>3 DEF ServeRead, nav, roleScreen
  <2>2. read \in Reads /\ read.active = r.active /\ read.role = r.role
    BY <1>1 DEF Reads
  <2> HIDE DEF read
  <2> QED BY <1>1, <1>2, <2>1, <2>2
<1>4. ASSUME NEW r \in reads, ReadFails(r) PROVE RolesInv'
  <2>1. /\ reads' = reads \ {r}
        /\ UNCHANGED <<section, defaults, roles, selected, ordered, edited, loaded, removed, saved, saves>>
    BY <1>4 DEF ReadFails, nav, roleScreen
  <2> QED BY <1>1, <1>2, <2>1
<1>5. ASSUME NEW w \in saves, ServeSave(w) PROVE RolesInv'
  <2>1. /\ UNCHANGED <<section, roles, selected, ordered, edited, loaded, removed, saved, reads>>
        /\ defaults' \in {[defaults EXCEPT ![w.role] = w.list], defaults}
        /\ saves' \in {InState(saves, w, "stored"), InState(saves, w, "refused")}
    BY <1>5 DEF ServeSave, nav, roleScreen
  <2>2. w.role \in Roles /\ w.list \in Lists
    BY <1>1 DEF Saves
  <2>3. defaults' \in [Roles -> Lists]
    BY <1>1, <2>1, <2>2
  <2>4. InState(saves, w, "stored") \subseteq Saves /\ InState(saves, w, "refused") \subseteq Saves
    <3>1. [w EXCEPT !.state = "stored"] \in Saves /\ [w EXCEPT !.state = "refused"] \in Saves
      BY <1>1 DEF Saves
    <3> QED BY <1>1, <3>1 DEF InState
  <2> QED BY <1>1, <1>2, <2>1, <2>3, <2>4
<1>6. ASSUME NEW w \in saves, SaveAnswered(w) PROVE RolesInv'
  <2>1. /\ UNCHANGED <<section, defaults, roles, selected, ordered, edited, loaded, removed, reads>>
        /\ saves' = saves \ {w}
        /\ \E ok \in {w.state = "stored", FALSE} : saved' = (saved \/ (w.heard /\ ok))
    BY <1>6 DEF SaveAnswered, nav
  <2>2. saved' \in BOOLEAN
    BY <2>1
  <2> QED BY <1>1, <1>2, <2>1, <2>2
<1>7. CASE Save
  <2> DEFINE new == [kind |-> "save", role |-> Role, list |-> ordered, state |-> "sent",
                     heard |-> TRUE, id |-> budget]
  <2>1. /\ Role # NoRole /\ saves' = saves \cup {new}
        /\ UNCHANGED <<section, defaults, roles, selected, ordered, edited, loaded, removed, saved, reads>>
    BY <1>7 DEF Save, roleScreen
  <2>2. Role \in Roles
    BY <1>1, <2>1, RoleTyped
  <2>3. new \in Saves
    BY <1>1, <2>2 DEF Saves
  <2> HIDE DEF new
  <2> QED BY <1>1, <1>2, <2>1, <2>3
<1>8. CASE OtherAdminSaves
  <2>1. /\ UNCHANGED <<section, roles, selected, ordered, edited, loaded, removed, saved, reads, saves>>
        /\ \E r \in Roles, l \in Lists : defaults' = [defaults EXCEPT ![r] = l]
    BY <1>8 DEF OtherAdminSaves, roleScreen
  <2>2. defaults' \in [Roles -> Lists]
    BY <1>1, <2>1
  <2> QED BY <1>1, <1>2, <2>1, <2>2
<1> QED BY <1>3, <1>4, <1>5, <1>6, <1>7, <1>8

\* The role edited changes: by hand, with what is configured, or with the section.
LEMMA RoleChangesKeep ==
    ASSUME RolesInv
    PROVE  /\ RolesArrive => RolesInv'
           /\ \A r \in Roles : SelectRole(r) => RolesInv'
           /\ section' # section /\ RolesFollowSection => RolesInv'
<1>1. /\ roles \in Seq(Roles) /\ IsInjective(roles) /\ selected \in Roles \cup {NoRole} /\ saved \in BOOLEAN
      /\ saves \subseteq Saves
  BY DEF RolesInv, RolesTypeOK, RolesAreFollowed
<1>2. roles' \in Seq(Roles) => Role' \in Roles \cup {NoRole}
  <2>1. (roles \in Seq(Roles) => Role \in Roles \cup {NoRole})'
    BY RoleTyped, PTL
  <2> QED BY <2>1
<1>3. CASE RolesArrive
  <2>1. PICK out : roles' = LeftOf(RoleOrder, out)
    BY <1>3 DEF RolesArrive
  <2>2. roles' \in Seq(Roles) /\ IsInjective(roles')
    BY <2>1, LeftProperties, RoleDefaultsAssumption DEF Roles
  <2>3. UNCHANGED <<defaults, selected, ordered, saves, saved>> /\ FollowRole
    BY <1>3 DEF RolesArrive
  <2> QED BY <1>1, <1>2, <2>2, <2>3, FollowingKeeps
<1>4. ASSUME NEW r \in Roles, SelectRole(r) PROVE RolesInv'
  <2>1. UNCHANGED <<defaults, roles, ordered, saves>> /\ saved' = FALSE /\ selected' = r /\ FollowRole
    BY <1>4 DEF SelectRole
  <2> QED BY <1>1, <1>2, <2>1, FollowingKeeps
<1>5. ASSUME section' # section, RolesFollowSection PROVE RolesInv'
  <2>1. /\ selected' = NoRole /\ ordered' = <<>> /\ saved' = FALSE /\ saves' = Unheard(saves, {"save"})
        /\ UNCHANGED <<defaults, roles>> /\ FollowRole
    BY <1>5 DEF RolesFollowSection
  <2>2. Role' \in Roles \cup {NoRole}
    BY <1>1, <1>2, <2>1
  <2>3. Role = NoRole \/ Role' = NoRole
    BY <1>5 DEF Role
  <2>4. loaded' = Unread
    BY <2>1, <2>2, <2>3, FollowingStep
  <2>5. saves' \subseteq Saves
    <3>1. \A w \in saves : [w EXCEPT !.heard = FALSE] \in Saves
      BY <1>1 DEF Saves
    <3> QED BY <1>1, <2>1, <3>1 DEF Unheard
  <2>6. <<>> \in Lists
    BY ListsAreOnceEach DEF OnceEach, IsInjective
  <2>7. RolesTypeOK'
    BY <1>1, <2>1, <2>2, <2>5, <2>6, FollowingStep DEF RolesInv, RolesTypeOK
  <2>8. RolesAreFollowed'
    BY <1>1, <2>1, <2>2, <2>4, FollowingStep DEF RolesAreFollowed
  <2>9. LoadedListIsTheRoles'
    BY <2>4 DEF LoadedListIsTheRoles
  <2> QED BY <2>7, <2>8, <2>9 DEF RolesInv
<1> QED BY <1>3, <1>4, <1>5

THEOREM RolesInvariant == Spec => []RolesInv
<1>1. Init => RolesInv
  <2> SUFFICES ASSUME Init PROVE RolesInv
    OBVIOUS
  <2>1. RolesInit
    BY DEF Init
  <2>2. <<>> \in Lists /\ <<>> \in Seq(Roles) /\ IsInjective(<<>>) /\ ToSet(<<>>) = {}
    BY ListsAreOnceEach DEF OnceEach, IsInjective, ToSet
  <2>3. RolesTypeOK
    BY <2>1, <2>2 DEF RolesInit, RolesTypeOK
  <2>4. RolesAreFollowed /\ LoadedListIsTheRoles
    BY <2>1, <2>2 DEF RolesInit, RolesAreFollowed, LoadedListIsTheRoles
  <2> QED BY <2>3, <2>4 DEF RolesInv
<1>2. FInv /\ RolesInv /\ [Next]_vars => RolesInv'
  <2> SUFFICES ASSUME FInv, RolesInv, [Next]_vars PROVE RolesInv'
    OBVIOUS
  <2>1. budget \in 0..MaxWrites
    BY DEF FInv, FormIds
  <2>2. ASSUME UNCHANGED <<section, roleVars>> PROVE RolesInv'
    <3>1. Role' = Role
      BY <2>2 DEF Role, roleVars
    <3> QED BY <2>2, <3>1, RolesElsewhere DEF roleVars, RolesInv, RolesTypeOK, RolesAreFollowed
  <2>3. ASSUME NEW s \in Sections \cup {NoneOpen}, OpenSection(s) PROVE RolesInv'
    BY <2>3, RoleChangesKeep DEF OpenSection
  <2>4. CASE RolesNext
    BY <2>1, <2>4, RoleRequestsKeep, RoleChangesKeep, EditsKeep, ReadArrivesKeeps DEF RolesNext
  <2>5. CASE CategoriesNext /\ UNCHANGED <<roleVars, formVars, part>>
    <3>1. section' = section
      BY <2>5 DEF CategoriesNext, SubmitCategory, ConfirmDelete, OtherAdminEdits, CancelEdit, Send,
         RefetchCategories, ServeCategories, CategoriesArrive, CategoriesFail, Move, ServeCategory,
         CategoryAnswered, EditRow, TypeSlug, AskDelete, fetching, nav
    <3> QED BY <2>2, <2>5, <3>1
  <2>6. CASE FormsNext /\ UNCHANGED <<roleVars, categoryVars, part>>
    <3>1. section' = section
      BY <2>6 DEF FormsNext, CancelForm, Fill, AddKeywords, Submit, DismissDelete, ConfirmDeleteRecord,
         OpenForm, AskDeleteRecord, TypeKeywords, RemoveKeyword, ServeForm, FormAnswered, quiet, nav
    <3> QED BY <2>2, <2>6, <3>1
  <2>7. CASE UNCHANGED vars
    BY <2>2, <2>7 DEF vars, nav
  <2> QED BY <2>3, <2>4, <2>5, <2>6, <2>7 DEF Next
<1> QED BY <1>1, <1>2, FormsInvariant, PTL DEF Spec

\* Once a role's list has come, the screen lacks nothing of it but what was removed by
\* hand (RoleDefaultsAdmin.tsx, the effect keyed on the role).
THEOREM LoadedListsStay == Spec => []LoadedListIsTheRoles
<1>1. RolesInv => LoadedListIsTheRoles
  BY DEF RolesInv
<1> QED BY <1>1, RolesInvariant, PTL

-----------------------------------------------------------------------------
(***************************************************************************)
(* The categories, for every set of slugs and any number of writes.        *)
(***************************************************************************)

\* Of what a write sends: a category is created, or renamed, under one slug.
WritesAreWhole ==
    \A w \in catWrites : w.kind \in {"create", "rename"} => \E s \in Slugs : w.to = <<s>>

\* The list on screen is the server's, or is about to be, or something is known to be
\* missing from it.
Stores == \E w \in catWrites : w.state = "stored"
ListIsFollowed ==
    \/ behind \/ Stores \/ refetch = Asked
    \/ refetch = NoFetch /\ catalog = categories
    \/ refetch = categories

CategoriesInv == CategoriesTypeOK /\ WritesAreWhole /\ ListIsFollowed

CatWrites == [kind : Kinds, of : Slugs \cup {NoSlug}, to : Rankings,
              state : {"sent", "stored", "refused"}, heard : BOOLEAN, id : 0..MaxWrites]

LEMMA RankingsAreOnceEach == Rankings = OnceEach(Slugs)
BY OnceEachIsBounded, CategoryAssumption DEF Rankings

LEMMA FetchesAreNoLists == NoFetch \notin Rankings /\ Asked \notin Rankings /\ NoFetch # Asked
<1>1. \A l \in Rankings : Len(l) > 0 => l[1] \in Slugs
  BY RankingsAreOnceEach DEF OnceEach
<1>2. /\ Len(NoFetch) = 1 /\ NoFetch[1] = NoSlug
      /\ Len(Asked) = 2 /\ Asked[1] = NoSlug
  BY DEF NoFetch, Asked
<1> QED BY <1>1, <1>2, CategoryAssumption

LEMMA OneSlugIsARanking == \A s \in Slugs : <<s>> \in Rankings /\ ToSet(<<s>>) = {s} /\ <<s>>[1] = s
BY RankingsAreOnceEach DEF OnceEach, IsInjective, ToSet

\* The rows are those of the list, each once, whatever order is held.
LEMMA RowsProperties ==
    ASSUME CategoriesTypeOK
    PROVE  Rows \in Rankings /\ ToSet(Rows) = ToSet(catalog) /\ ToSet(Rows) \subseteq Slugs
<1>1. catalog \in Seq(Slugs) /\ IsInjective(catalog) /\ ToSet(catalog) \subseteq Slugs
  BY RankingsAreOnceEach DEF CategoriesTypeOK, OnceEach, ToSet
<1>2. CASE order = NoOrder
  BY <1>1, <1>2, RankingsAreOnceEach DEF Rows, OnceEach
<1>3. CASE order # NoOrder
  <2>1. order \in Seq(Slugs) /\ IsInjective(order)
    BY <1>3, RankingsAreOnceEach DEF CategoriesTypeOK, OnceEach
  <2> DEFINE k == KeptOf(order, ToSet(catalog))
             n == LeftOf(catalog, ToSet(order))
  <2>2. k \in Seq(Slugs) /\ IsInjective(k) /\ ToSet(k) = ToSet(order) \cap ToSet(catalog)
    BY <2>1, KeptProperties
  <2>3. n \in Seq(Slugs) /\ IsInjective(n) /\ ToSet(n) = ToSet(catalog) \ ToSet(order)
    BY <1>1, LeftProperties
  <2>4. Rows = k \o n
    BY <1>3 DEF Rows
  <2> HIDE DEF k, n
  <2>5. Rows \in OnceEach(Slugs) /\ ToSet(Rows) = ToSet(k) \cup ToSet(n)
    BY <2>2, <2>3, <2>4, JoinKeeps DEF OnceEach
  <2> QED BY <1>1, <2>2, <2>3, <2>5, RankingsAreOnceEach
<1> QED BY <1>2, <1>3

\* A write of the screen: the list, and what is on its way, stay.
LEMMA SendKeeps ==
    ASSUME CategoriesInv, budget \in 0..MaxWrites, NEW kind \in Kinds, NEW of \in Slugs \cup {NoSlug},
           NEW to \in Rankings, Send(kind, of, to), kind \in {"create", "rename"} => \E s \in Slugs : to = <<s>>,
           order' \in Rankings \cup {NoOrder}, draft' = draft, confirmDelete' = confirmDelete
    PROVE  CategoriesInv'
<1> DEFINE new == [kind |-> kind, of |-> of, to |-> to, state |-> "sent", heard |-> TRUE, id |-> budget]
           deaf(w) == IF w.kind \in {kind} THEN [w EXCEPT !.heard = FALSE] ELSE w
<1>1. /\ catWrites' = {deaf(w) : w \in catWrites} \cup {new}
      /\ UNCHANGED <<categories, catalog, refetch, behind>>
  BY DEF Send, Unheard, categoryData
<1>2. catWrites \subseteq CatWrites
  BY DEF CategoriesInv, CategoriesTypeOK, CatWrites
<1>3. \A w \in catWrites : /\ deaf(w) \in CatWrites /\ deaf(w).kind = w.kind /\ deaf(w).to = w.to
                           /\ deaf(w).state = w.state
  BY <1>2 DEF CatWrites
<1>4. new \in CatWrites /\ new.kind = kind /\ new.to = to
  BY DEF CatWrites
<1> HIDE DEF new, deaf
<1>5. catWrites' \subseteq CatWrites
  BY <1>1, <1>3, <1>4
<1>6. CategoriesTypeOK'
  BY <1>1, <1>5 DEF CategoriesInv, CategoriesTypeOK, CatWrites
<1>7. WritesAreWhole'
  BY <1>1, <1>3, <1>4 DEF CategoriesInv, WritesAreWhole
<1>8. ListIsFollowed'
  BY <1>1, <1>3 DEF CategoriesInv, ListIsFollowed, Stores
<1> QED BY <1>6, <1>7, <1>8 DEF CategoriesInv

LEMMA CategorySent ==
    ASSUME CategoriesInv, budget \in 0..MaxWrites
    PROVE  /\ \A i, j \in DOMAIN Rows : Move(i, j) => CategoriesInv'
           /\ SubmitCategory \/ ConfirmDelete => CategoriesInv'
<1>1. /\ draft \in [editing : Slugs \cup {NoSlug}, slug : Slugs \cup {NoSlug}]
      /\ confirmDelete \in Slugs \cup {NoSlug} /\ order \in Rankings \cup {NoOrder}
  BY DEF CategoriesInv, CategoriesTypeOK
<1>2. ASSUME NEW i \in DOMAIN Rows, NEW j \in DOMAIN Rows, Move(i, j) PROVE CategoriesInv'
  <2> DEFINE l == [Rows EXCEPT ![i] = Rows[j], ![j] = Rows[i]]
  <2>1. Rows \in OnceEach(Slugs)
    BY RowsProperties, RankingsAreOnceEach DEF CategoriesInv
  <2>2. l \in Rankings
    BY <2>1, SwapKeeps, RankingsAreOnceEach
  <2>3. order' = l /\ Send("order", NoSlug, order') /\ UNCHANGED <<draft, confirmDelete>>
    BY <1>2 DEF Move
  <2> HIDE DEF l
  <2>4. order' \in Rankings
    BY <2>2, <2>3
  <2> QED BY <2>3, <2>4, SendKeeps DEF Kinds
<1>3. CASE SubmitCategory
  <2>1. draft.slug \in Slugs /\ draft.editing \in Slugs \cup {NoSlug} /\ UNCHANGED <<order, draft, confirmDelete>>
    BY <1>1, <1>3 DEF SubmitCategory, categoryScreen
  <2>2. <<draft.slug>> \in Rankings
    BY <2>1, OneSlugIsARanking
  <2>3. Send("rename", draft.editing, <<draft.slug>>) \/ Send("create", NoSlug, <<draft.slug>>)
    BY <1>3 DEF SubmitCategory
  <2> QED BY <1>1, <2>1, <2>2, <2>3, SendKeeps DEF Kinds
<1>4. CASE ConfirmDelete
  <2>1. Send("delete", confirmDelete, <<>>) /\ UNCHANGED <<order, draft, confirmDelete>>
    BY <1>4 DEF ConfirmDelete, categoryScreen
  <2>2. <<>> \in Rankings
    BY RankingsAreOnceEach DEF OnceEach, IsInjective
  <2> QED BY <1>1, <2>1, <2>2, SendKeeps DEF Kinds
<1> QED BY <1>2, <1>3, <1>4

\* What the server makes of a write it accepts is a list without repetitions.
LEMMA AfterIsARanking ==
    ASSUME CategoriesInv, NEW w \in catWrites, Acceptable(w)
    PROVE  After(w) \in Rankings
<1>1. /\ w.kind \in Kinds /\ w.to \in Rankings /\ w.of \in Slugs \cup {NoSlug}
      /\ w.kind \in {"create", "rename"} => \E s \in Slugs : w.to = <<s>>
  BY DEF CategoriesInv, CategoriesTypeOK, WritesAreWhole
<1>2. categories \in OnceEach(Slugs) /\ categories \in Seq(Slugs) /\ IsInjective(categories)
  BY RankingsAreOnceEach DEF CategoriesInv, CategoriesTypeOK, OnceEach
<1>3. CASE w.kind = "order"
  BY <1>1, <1>3 DEF After
<1>4. CASE w.kind = "create"
  <2>1. PICK s \in Slugs : w.to = <<s>>
    BY <1>1, <1>4
  <2>2. <<s>> \in Seq(Slugs) /\ IsInjective(<<s>>) /\ ToSet(<<s>>) = {s} /\ w.to[1] = s
    BY <2>1, OneSlugIsARanking, RankingsAreOnceEach DEF OnceEach
  <2>3. s \notin ToSet(categories)
    BY <1>4, <2>2 DEF Acceptable
  <2>4. categories \o <<s>> \in OnceEach(Slugs)
    BY <1>2, <2>2, <2>3, JoinKeeps DEF OnceEach
  <2> QED BY <1>4, <2>1, <2>4, RankingsAreOnceEach DEF After
<1>5. CASE w.kind = "rename"
  <2>1. PICK s \in Slugs : w.to[1] = s
    BY <1>1, <1>5, OneSlugIsARanking
  <2> DEFINE l == [i \in DOMAIN categories |-> IF categories[i] = w.of THEN s ELSE categories[i]]
  <2>2. \A i \in DOMAIN categories : categories[i] = s => categories[i] = w.of
    BY <1>5, <2>1 DEF Acceptable, ToSet
  <2>3. l \in Seq(Slugs)
    BY <1>2
  <2>4. IsInjective(l)
    BY <1>2, <2>2 DEF IsInjective
  <2>5. After(w) = l
    BY <1>5, <2>1 DEF After
  <2> HIDE DEF l
  <2> QED BY <2>3, <2>4, <2>5, RankingsAreOnceEach DEF OnceEach
<1>6. CASE w.kind = "delete"
  <2>1. LeftOf(categories, {w.of}) \in OnceEach(Slugs)
    BY <1>2, LeftProperties DEF OnceEach
  <2> QED BY <1>6, <2>1, RankingsAreOnceEach DEF After
<1> QED BY <1>1, <1>3, <1>4, <1>5, <1>6 DEF Kinds

LEMMA CategoryServed ==
    ASSUME CategoriesInv, NEW w \in catWrites, ServeCategory(w)
    PROVE  CategoriesInv'
<1>1. /\ w.state = "sent"
      /\ UNCHANGED <<catalog, refetch, behind, order, draft, confirmDelete>>
      /\ \/ Acceptable(w) /\ categories' = After(w) /\ catWrites' = InState(catWrites, w, "stored")
         \/ UNCHANGED categories /\ catWrites' = InState(catWrites, w, "refused")
  BY DEF ServeCategory, categoryScreen
<1>2. catWrites \subseteq CatWrites
  BY DEF CategoriesInv, CategoriesTypeOK, CatWrites
<1>3. PICK s \in {"stored", "refused"} :
        /\ catWrites' = (catWrites \ {w}) \cup {[w EXCEPT !.state = s]}
        /\ s = "refused" => UNCHANGED categories
  BY <1>1 DEF InState
<1> DEFINE new == [w EXCEPT !.state = s]
<1>4. new \in CatWrites /\ new.kind = w.kind /\ new.to = w.to /\ new.state = s
  BY <1>2 DEF CatWrites
<1>5. catWrites' = (catWrites \ {w}) \cup {new}
  BY <1>3
<1> HIDE DEF new
<1>6. categories' \in Rankings
  BY <1>1, AfterIsARanking DEF CategoriesInv, CategoriesTypeOK
<1>7. CategoriesTypeOK'
  BY <1>1, <1>2, <1>4, <1>5, <1>6 DEF CategoriesInv, CategoriesTypeOK, CatWrites
<1>8. WritesAreWhole'
  BY <1>4, <1>5 DEF CategoriesInv, WritesAreWhole
<1>9. ListIsFollowed'
  <2>1. CASE s = "stored"
    BY <1>4, <1>5, <2>1 DEF ListIsFollowed, Stores
  <2>2. CASE s = "refused"
    <3>1. Stores => Stores'
      BY <1>1, <1>5 DEF Stores
    <3> QED BY <1>1, <1>3, <2>2, <3>1 DEF CategoriesInv, ListIsFollowed
  <2> QED BY <2>1, <2>2
<1> QED BY <1>7, <1>8, <1>9 DEF CategoriesInv

LEMMA CategoryHeard ==
    ASSUME CategoriesInv, NEW w \in catWrites, CategoryAnswered(w)
    PROVE  CategoriesInv'
<1>1. w.state # "sent" /\ catWrites' = catWrites \ {w} /\ UNCHANGED <<categories, catalog>>
  BY DEF CategoryAnswered
<1>2. PICK ok \in {w.state = "stored", FALSE} :
        /\ refetch' = IF ok THEN Asked ELSE refetch
        /\ behind' = IF ok THEN FALSE ELSE (behind \/ w.state = "stored")
        /\ draft' = IF ok /\ w.heard /\ w.kind \in {"create", "rename"} THEN EmptyDraft ELSE draft
        /\ order' = IF ~ok /\ w.heard /\ w.kind = "order" THEN NoOrder ELSE order
        /\ confirmDelete' = IF w.heard /\ w.kind = "delete" THEN NoSlug ELSE confirmDelete
  BY DEF CategoryAnswered, Invalidates
<1>3. EmptyDraft \in [editing : Slugs \cup {NoSlug}, slug : Slugs \cup {NoSlug}]
  BY DEF EmptyDraft
<1>4. CategoriesTypeOK'
  <2>1. draft' \in [editing : Slugs \cup {NoSlug}, slug : Slugs \cup {NoSlug}]
    BY <1>2, <1>3 DEF CategoriesInv, CategoriesTypeOK
  <2>2. /\ order' \in Rankings \cup {NoOrder} /\ confirmDelete' \in Slugs \cup {NoSlug}
        /\ refetch' \in Rankings \cup {NoFetch, Asked}
    BY <1>2 DEF CategoriesInv, CategoriesTypeOK
  <2>3. behind' \in BOOLEAN
    BY <1>2 DEF CategoriesInv, CategoriesTypeOK
  <2> QED BY <1>1, <2>1, <2>2, <2>3 DEF CategoriesInv, CategoriesTypeOK
<1>5. WritesAreWhole'
  BY <1>1 DEF CategoriesInv, WritesAreWhole
<1>6. ListIsFollowed'
  <2>1. CASE ok
    BY <1>2, <2>1 DEF ListIsFollowed
  <2>2. CASE ~ok /\ w.state = "stored"
    BY <1>2, <2>2 DEF ListIsFollowed
  <2>3. CASE ~ok /\ w.state # "stored"
    <3>1. Stores => Stores'
      BY <1>1, <2>3 DEF Stores
    <3>2. refetch' = refetch /\ behind' = behind
      BY <1>2, <2>3 DEF CategoriesInv, CategoriesTypeOK
    <3> QED BY <1>1, <3>1, <3>2 DEF CategoriesInv, ListIsFollowed
  <2> QED BY <2>1, <2>2, <2>3
<1> QED BY <1>4, <1>5, <1>6 DEF CategoriesInv

\* The screen's own state changes, or nothing of the categories.
LEMMA CategoryScreenKeeps ==
    ASSUME CategoriesInv, UNCHANGED <<categories, catalog, refetch, behind, catWrites>>,
           order' \in Rankings \cup {NoOrder}, confirmDelete' \in Slugs \cup {NoSlug},
           draft' \in [editing : Slugs \cup {NoSlug}, slug : Slugs \cup {NoSlug}]
    PROVE  CategoriesInv'
<1>1. CategoriesTypeOK'
  BY DEF CategoriesInv, CategoriesTypeOK
<1>2. WritesAreWhole' /\ ListIsFollowed'
  BY DEF CategoriesInv, WritesAreWhole, ListIsFollowed, Stores
<1> QED BY <1>1, <1>2 DEF CategoriesInv

\* The list is fetched, or the server's changes under it.
LEMMA CategoryListKeeps ==
    ASSUME CategoriesInv
    PROVE  /\ OtherAdminEdits \/ RefetchCategories \/ ServeCategories => CategoriesInv'
           /\ CategoriesArrive \/ CategoriesFail => CategoriesInv'
<1>1. /\ categories \in Rankings /\ catalog \in Rankings /\ behind \in BOOLEAN
      /\ refetch \in Rankings \cup {NoFetch, Asked}
  BY DEF CategoriesInv, CategoriesTypeOK
<1>2. ASSUME UNCHANGED <<order, draft, confirmDelete, catWrites>>, categories' \in Rankings,
             catalog' \in Rankings, behind' \in BOOLEAN, refetch' \in Rankings \cup {NoFetch, Asked},
             ListIsFollowed'
      PROVE  CategoriesInv'
  <2>1. CategoriesTypeOK'
    BY <1>2 DEF CategoriesInv, CategoriesTypeOK
  <2>2. WritesAreWhole'
    BY <1>2 DEF CategoriesInv, WritesAreWhole
  <2> QED BY <1>2, <2>1, <2>2 DEF CategoriesInv
<1>3. CASE OtherAdminEdits
  <2>1. PICK s \in Slugs :
          categories' = IF s \in ToSet(categories) THEN LeftOf(categories, {s}) ELSE Append(categories, s)
    BY <1>3 DEF OtherAdminEdits
  <2>2. behind' = TRUE /\ UNCHANGED <<catalog, refetch, order, draft, confirmDelete, catWrites>>
    BY <1>3 DEF OtherAdminEdits, categoryScreen
  <2>3. categories' \in Rankings
    BY <1>1, <2>1, LeftProperties, AppendKeeps, RankingsAreOnceEach DEF OnceEach
  <2>4. ListIsFollowed'
    BY <2>2 DEF ListIsFollowed
  <2> QED BY <1>1, <1>2, <2>2, <2>3, <2>4
<1>4. CASE RefetchCategories
  <2>1. refetch' = Asked /\ behind' = FALSE
        /\ UNCHANGED <<categories, catalog, order, draft, confirmDelete, catWrites>>
    BY <1>4 DEF RefetchCategories, fetching, categoryScreen
  <2>2. ListIsFollowed'
    BY <2>1 DEF ListIsFollowed
  <2> QED BY <1>1, <1>2, <2>1, <2>2
<1>5. CASE ServeCategories
  <2>1. refetch' = categories
        /\ UNCHANGED <<categories, catalog, behind, order, draft, confirmDelete, catWrites>>
    BY <1>5 DEF ServeCategories, fetching, categoryScreen
  <2>2. ListIsFollowed'
    BY <2>1 DEF ListIsFollowed
  <2> QED BY <1>1, <1>2, <2>1, <2>2
<1>6. CASE CategoriesArrive
  <2>1. /\ refetch \notin {NoFetch, Asked} /\ catalog' = refetch /\ refetch' = NoFetch
        /\ UNCHANGED <<categories, behind, order, draft, confirmDelete, catWrites>>
    BY <1>6 DEF CategoriesArrive, fetching, categoryScreen
  <2>2. ListIsFollowed'
    BY <2>1 DEF CategoriesInv, ListIsFollowed, Stores
  <2> QED BY <1>1, <1>2, <2>1, <2>2
<1>7. CASE CategoriesFail
  <2>1. refetch' = NoFetch /\ behind' = TRUE
        /\ UNCHANGED <<categories, catalog, order, draft, confirmDelete, catWrites>>
    BY <1>7 DEF CategoriesFail, fetching, categoryScreen
  <2>2. ListIsFollowed'
    BY <2>1 DEF ListIsFollowed
  <2> QED BY <1>1, <1>2, <2>1, <2>2
<1> QED BY <1>3, <1>4, <1>5, <1>6, <1>7

LEMMA CategoryFieldsKeep ==
    ASSUME CategoriesInv
    PROVE  /\ \A s \in Slugs \cup {NoSlug} : EditRow(s) \/ TypeSlug(s) \/ AskDelete(s) => CategoriesInv'
           /\ CancelEdit => CategoriesInv'
<1>1. /\ order \in Rankings \cup {NoOrder} /\ confirmDelete \in Slugs \cup {NoSlug}
      /\ draft \in [editing : Slugs \cup {NoSlug}, slug : Slugs \cup {NoSlug}]
  BY DEF CategoriesInv, CategoriesTypeOK
<1>2. ASSUME NEW s \in Slugs \cup {NoSlug}, EditRow(s) \/ TypeSlug(s) \/ AskDelete(s) PROVE CategoriesInv'
  <2>1. UNCHANGED <<categories, catalog, refetch, behind, catWrites, order>>
    BY <1>2 DEF EditRow, TypeSlug, AskDelete, categoryData
  <2>2. confirmDelete' \in Slugs \cup {NoSlug}
    BY <1>1, <1>2 DEF EditRow, TypeSlug, AskDelete
  <2>3. draft' \in [editing : Slugs \cup {NoSlug}, slug : Slugs \cup {NoSlug}]
    BY <1>1, <1>2 DEF EditRow, TypeSlug, AskDelete
  <2> QED BY <1>1, <2>1, <2>2, <2>3, CategoryScreenKeeps
<1>3. CASE CancelEdit
  <2>1. /\ UNCHANGED <<categories, catalog, refetch, behind, catWrites, order, confirmDelete>>
        /\ draft' = EmptyDraft
    BY <1>3 DEF CancelEdit, categoryData
  <2>2. draft' \in [editing : Slugs \cup {NoSlug}, slug : Slugs \cup {NoSlug}]
    BY <2>1 DEF EmptyDraft
  <2> QED BY <1>1, <2>1, <2>2, CategoryScreenKeeps
<1> QED BY <1>2, <1>3

LEMMA CategoriesLeft ==
    ASSUME CategoriesInv, CategoriesFollowSection
    PROVE  CategoriesInv'
<1> DEFINE deaf(w) == IF w.kind \in Kinds THEN [w EXCEPT !.heard = FALSE] ELSE w
<1>1. /\ catWrites' = {deaf(w) : w \in catWrites}
      /\ UNCHANGED <<categories, catalog, refetch, behind>>
      /\ order' = NoOrder /\ draft' = EmptyDraft /\ confirmDelete' = NoSlug
  BY DEF CategoriesFollowSection, Unheard, categoryData
<1>2. catWrites \subseteq CatWrites
  BY DEF CategoriesInv, CategoriesTypeOK, CatWrites
<1>3. \A w \in catWrites : /\ deaf(w) \in CatWrites /\ deaf(w).kind = w.kind /\ deaf(w).to = w.to
                           /\ deaf(w).state = w.state
  BY <1>2 DEF CatWrites
<1>4. EmptyDraft \in [editing : Slugs \cup {NoSlug}, slug : Slugs \cup {NoSlug}]
  BY DEF EmptyDraft
<1> HIDE DEF deaf
<1>5. CategoriesTypeOK'
  BY <1>1, <1>3, <1>4 DEF CategoriesInv, CategoriesTypeOK, CatWrites
<1>6. WritesAreWhole'
  BY <1>1, <1>3 DEF CategoriesInv, WritesAreWhole
<1>7. ListIsFollowed'
  BY <1>1, <1>3 DEF CategoriesInv, ListIsFollowed, Stores
<1> QED BY <1>5, <1>6, <1>7 DEF CategoriesInv

THEOREM CategoriesInvariant == Spec => []CategoriesInv
<1>1. Init => CategoriesInv
  <2> SUFFICES ASSUME Init PROVE CategoriesInv
    OBVIOUS
  <2>1. CategoriesInit
    BY DEF Init
  <2>2. <<>> \in Rankings
    BY RankingsAreOnceEach DEF OnceEach, IsInjective
  <2>3. CategoriesTypeOK
    BY <2>1, <2>2 DEF CategoriesInit, CategoriesTypeOK, EmptyDraft
  <2>4. WritesAreWhole /\ ListIsFollowed
    BY <2>1 DEF CategoriesInit, WritesAreWhole, ListIsFollowed
  <2> QED BY <2>3, <2>4 DEF CategoriesInv
<1>2. FInv /\ CategoriesInv /\ [Next]_vars => CategoriesInv'
  <2> SUFFICES ASSUME FInv, CategoriesInv, [Next]_vars PROVE CategoriesInv'
    OBVIOUS
  <2>1. budget \in 0..MaxWrites
    BY DEF FInv, FormIds
  <2>2. CASE UNCHANGED categoryVars
    BY <2>2, CategoryScreenKeeps DEF categoryVars, categoryData, categoryScreen, CategoriesInv, CategoriesTypeOK
  <2>3. ASSUME NEW s \in Sections \cup {NoneOpen}, OpenSection(s) PROVE CategoriesInv'
    BY <2>3, CategoriesLeft DEF OpenSection
  <2>4. CASE CategoriesNext
    BY <2>1, <2>4, CategorySent, CategoryServed, CategoryHeard, CategoryListKeeps, CategoryFieldsKeep
       DEF CategoriesNext
  <2> QED BY <2>2, <2>3, <2>4 DEF Next, vars
<1> QED BY <1>1, <1>2, FormsInvariant, PTL DEF Spec

\* Once every write and fetch is answered, the rows are the categories of the server,
\* each once, whatever order is held (CategoriesAdmin.tsx, rows).
THEOREM RowsAreComplete == Spec => []RowsAreTheCategories
<1>1. CategoriesInv => RowsAreTheCategories
  <2> SUFFICES ASSUME CategoriesInv, catWrites = {}, refetch = NoFetch, ~behind
               PROVE  /\ ToSet(Rows) = ToSet(categories) /\ IsInjective(Rows)
                      /\ order = NoOrder => Rows = categories
    BY DEF RowsAreTheCategories
  <2>1. categories \in Rankings
    BY DEF CategoriesInv, CategoriesTypeOK
  <2>2. catalog = categories
    BY <2>1, FetchesAreNoLists DEF CategoriesInv, ListIsFollowed, Stores
  <2>3. Rows \in OnceEach(Slugs) /\ ToSet(Rows) = ToSet(catalog)
    BY RowsProperties, RankingsAreOnceEach DEF CategoriesInv
  <2> QED BY <2>2, <2>3 DEF OnceEach, Rows
<1> QED BY <1>1, CategoriesInvariant, PTL

-----------------------------------------------------------------------------
(***************************************************************************)
(* The types of the admin screen.                                          *)
(***************************************************************************)

\* What the other invariants do not say of the types.
RestTyped ==
    /\ section \in Sections \cup {NoneOpen} /\ part \in Parts
    /\ form.input \in Inputs /\ form.valid \in BOOLEAN
    /\ unheardForms \subseteq 0..MaxForms

LEMMA RestStep ==
    ASSUME FInv, RestTyped, [Next]_vars
    PROVE  RestTyped'
<1>1. /\ HasFields(form) /\ \A w \in formWrites : w.no \in 0..MaxForms
      /\ section \in Sections \cup {NoneOpen} /\ part \in Parts
  BY DEF FInv, FormIds, FormWrites, RestTyped
<1>2. <<>> \in Inputs /\ Closed.input = <<>> /\ Closed.valid = FALSE
  BY DEF Inputs, Closed
<1>3. ASSUME part' = part, section' = section, form'.input \in Inputs, form'.valid \in BOOLEAN,
             unheardForms' \subseteq 0..MaxForms
      PROVE  RestTyped'
  BY <1>1, <1>3 DEF RestTyped
<1>4. CASE part' = part /\ section' = section /\ UNCHANGED <<form, unheardForms>>
  BY <1>3, <1>4 DEF RestTyped
<1>5. ASSUME NEW s \in Sections \cup {NoneOpen}, OpenSection(s) PROVE RestTyped'
  BY <1>1, <1>2, <1>5 DEF OpenSection, FormsFollowSection, RestTyped
<1>6. CASE RolesNext /\ UNCHANGED <<categoryVars, formVars, part>>
  <2>1. section' = section
    BY <1>6 DEF RolesNext, RolesArrive, SelectRole, ServeRead, ReadFails, ReadArrives, MoveService,
       RemoveService, AddService, Edit, Save, ServeSave, SaveAnswered, OtherAdminSaves, nav
  <2> QED BY <1>4, <1>6, <2>1 DEF formVars
<1>7. CASE CategoriesNext /\ UNCHANGED <<roleVars, formVars, part>>
  <2>1. section' = section
    BY <1>7 DEF CategoriesNext, SubmitCategory, ConfirmDelete, OtherAdminEdits, CancelEdit, Send,
       RefetchCategories, ServeCategories, CategoriesArrive, CategoriesFail, Move, ServeCategory,
       CategoryAnswered, EditRow, TypeSlug, AskDelete, fetching, nav
  <2> QED BY <1>4, <1>7, <2>1 DEF formVars
<1>8. CASE FormsNext /\ UNCHANGED <<roleVars, categoryVars, part>>
  <2>1. section' = section /\ part' = part
    BY <1>8 DEF FormsNext, CancelForm, Fill, AddKeywords, Submit, DismissDelete, ConfirmDeleteRecord,
       OpenForm, AskDeleteRecord, TypeKeywords, RemoveKeyword, ServeForm, FormAnswered, quiet, nav
  <2>2. form'.input \in Inputs /\ form'.valid \in BOOLEAN
    <3>1. CASE CancelForm
      BY <1>2, <3>1 DEF CancelForm
    <3>2. CASE Fill
      BY <1>1, <3>2 DEF Fill, HasFields, RestTyped
    <3>3. ASSUME NEW raw \in Inputs, TypeKeywords(raw) PROVE form'.input \in Inputs /\ form'.valid \in BOOLEAN
      BY <1>1, <3>3 DEF TypeKeywords, HasFields, RestTyped
    <3>4. CASE AddKeywords
      BY <1>1, <1>2, <3>4 DEF AddKeywords, HasFields, RestTyped
    <3>5. ASSUME NEW k \in Terms, RemoveKeyword(k) PROVE form'.input \in Inputs /\ form'.valid \in BOOLEAN
      BY <1>1, <3>5 DEF RemoveKeyword, HasFields, RestTyped
    <3>6. ASSUME NEW of \in 0..MaxWrites, OpenForm(of) PROVE form'.input \in Inputs /\ form'.valid \in BOOLEAN
      <4>1. PICK had \in Had(of) : form' = Opened(of, had)
        BY <3>6 DEF OpenForm
      <4>2. form'.input = <<>> /\ form'.valid = (of # NoRecord)
        BY <4>1 DEF Opened
      <4> QED BY <1>2, <4>2
    <3>7. ASSUME NEW w \in formWrites, ServeForm(w) \/ FormAnswered(w)
          PROVE  form'.input \in Inputs /\ form'.valid \in BOOLEAN
      <4>1. form' \in {form, Closed}
        BY <3>7 DEF ServeForm, FormAnswered
      <4> QED BY <1>2, <4>1 DEF RestTyped
    <3>8. ASSUME form' = form PROVE form'.input \in Inputs /\ form'.valid \in BOOLEAN
      BY <3>8 DEF RestTyped
    <3> QED
      BY <1>8, <3>1, <3>2, <3>3, <3>4, <3>5, <3>6, <3>7, <3>8
         DEF FormsNext, Submit, DismissDelete, ConfirmDeleteRecord, AskDeleteRecord
  <2>3. unheardForms' \subseteq 0..MaxForms
    <3>1. ASSUME NEW w \in formWrites, FormAnswered(w) PROVE unheardForms' \subseteq 0..MaxForms
      <4>1. unheardForms' \in {unheardForms, unheardForms \cup {w.no}}
        BY <3>1 DEF FormAnswered
      <4> QED BY <1>1, <4>1 DEF RestTyped
    <3>2. ASSUME unheardForms' = unheardForms PROVE unheardForms' \subseteq 0..MaxForms
      BY <3>2 DEF RestTyped
    <3> QED
      BY <1>8, <3>1, <3>2 DEF FormsNext, CancelForm, Fill, AddKeywords, Submit, DismissDelete,
         ConfirmDeleteRecord, OpenForm, AskDeleteRecord, TypeKeywords, RemoveKeyword, ServeForm, quiet
  <2> QED BY <1>3, <2>1, <2>2, <2>3
<1>9. CASE UNCHANGED vars
  BY <1>4, <1>9 DEF vars, nav, formVars
<1> QED BY <1>5, <1>6, <1>7, <1>8, <1>9 DEF Next

\* The variables of the admin screen keep their types, however long lists of unique
\* members, and numbers, could grow.
THEOREM ScreensTypeCorrect == Spec => []TypeOK
<1>1. Init => RestTyped
  BY DEF Init, NavInit, FormsInit, RestTyped, Closed, Inputs
<1>2. FInv /\ RestTyped /\ [Next]_vars => RestTyped'
  BY RestStep
<1>3. FInv /\ RestTyped /\ RolesInv /\ CategoriesInv /\ KeywordsOK => TypeOK
  <2> SUFFICES ASSUME FInv, RestTyped, RolesInv, CategoriesInv, KeywordsOK PROVE TypeOK
    OBVIOUS
  <2>1. FormsTypeOK
    BY DEF FInv, FormIds, FormWrites, RestTyped, KeywordsOK, FormsTypeOK
  <2> QED
    BY <2>1 DEF FInv, FormIds, RestTyped, RolesInv, CategoriesInv, TypeOK, NavTypeOK
<1> QED
  BY <1>1, <1>2, <1>3, FormsInvariant, RolesInvariant, CategoriesInvariant, KeywordsInvariant, PTL DEF Spec
=============================================================================
