# wolke in TLA+

This directory is a verification development of [wolke](../src/README.md), the
role-aware service launcher: a Go server with an embedded React client, one
PostgreSQL database, an OIDC identity provider, and two MCP servers for agents.
It holds TLA+ modules translated from the source, TLC configurations that check
them on small instances, and proofs that the TLA+ proof system TLAPS checks for
every instance.

Paths below are relative to `src/`. `PROJECT.json` names, for every definition
that models code, the lines it stands for.

    tlc -workers 2 -config Favorites.cfg MCFavorites     # one run
    tlapm FavoritesProofs.tla                            # one set of proofs

1. [The system](#1-the-system)
2. [Plan](#2-plan)
3. [The modules](#3-the-modules)
4. [Runs and bounds](#4-runs-and-bounds)
5. [Fairness](#5-fairness)
6. [Proofs](#6-proofs)
7. [Where the code and its comments disagree](#7-where-the-code-and-its-comments-disagree)
8. [What is not modelled, and why](#8-what-is-not-modelled-and-why)

## 1. The system

One server process serves many requests at once, each in a goroutine of its own.
Requests share the catalogue cache, the replay cache of logout tokens, the set of
signing keys and the metrics, all in memory; everything else is in PostgreSQL,
which the admin MCP process writes to as well. Most of what is hard here comes from three facts: a
request loads the user's row once and acts on it later; only the admin use cases
run in transactions, and those are READ COMMITTED and take few locks; and what is
cached is dropped by the process that wrote, not by the one that reads.

| Component | State | Operations | Interacts with | What is hard | What makes it right |
|---|---|---|---|---|---|
| Catalogue cache (`internal/catalog/cache.go`) | the snapshot, when it was loaded, the call in flight | Get, reload, Invalidate | every reader; the admin handlers; the loader | writes during a load, failing loads, joined calls | no reader goes back in time, an invalidated snapshot is gone, every Get returns |
| Catalogue load and views (`internal/catalog/catalog.go`) | none of its own: a snapshot per load | Load (three statements), VisibleTo | tables the admins write | torn reads, short cuts for the public view | a reader sees what the tables entitle them to |
| Admin catalogue service (`internal/service/admin.go`) | services, categories, filings, role defaults, audit log | create, update, delete, set defaults | other admins, the admin MCP | overlapping transactions | every service filed, defaults public, audit complete |
| Login, sessions, back-channel logout (`internal/auth`) | sessions, users, replay cache | Callback, Logout, BackchannelLogout | identity provider, database | tokens late, twice, at once with a login; failures; restarts; clocks | who is logged out is out, failures can be retried, replays are refused |
| Favorites (`internal/service/favorites.go`) | favorites, two flags of the user, two counters | list, star, unstar, reorder | prefs, catalogue cache, admins | several tabs, one-time writes, hidden services | counters are the delta, the arrangement stands |
| Preferences (`internal/service/prefs.go`) | display columns of the user | PATCH | favorites | read-modify-write | no field is changed that was not sent |
| Announcements (`internal/service/announce.go`, `internal/announce`) | announcements and dismissals | create, update, delete, dismiss, purge | admins, readers by role | two creations at once, reopened windows | at most one active, history kept |
| Signing keys and roles (`internal/auth/keyset.go`, `resolve.go`) | keys, last fetch | keysFor, claim mapping | identity provider | bursts of unknown keys against rotation | bounded fetches, rotation seen |
| Usage counters (`internal/usage`) | click events, daily totals | record, roll up, purge | the hourly loop, metrics | a cutoff in the middle of a day, a failure between two statements | a day that was counted stays counted |
| Search (`internal/server/search.go`) | search events | search, record | catalogue cache | little: one statement each | results are visible ones |
| Admin MCP (`internal/adminmcp`) | staged changes with tokens | propose, confirm, discard | admin service | confirmed twice, expired, stale | a change is written once, as previewed |
| Read-only MCP (`internal/readmcp`) | none | list, get, search | catalogue cache | none of its own | public view only |
| Configuration (`internal/config`) | constants after start-up | parse, Effective, Resolve | everything | precedence, sparse maps | total and deterministic mapping |
| HTTP server (`internal/server`, `internal/web`, `internal/httpx`) | none | routing, headers | everything | none across requests | – |
| Metrics (`internal/metrics`) | counters, gauges | increment, scrape | favorites, usage, search | label sets | – |
| Start-up and shutdown (`cmd`) | tickers | serve, migrate, loops | database | one loop per replica | – |
| Schema (`migrations`, `internal/store`) | the tables | – | everything | constraints as last defence | – |
| Web client, data hooks (`web-ui/src/lib/hooks.ts`) | query cache, open mutations | fetch, optimistic change, roll back, refetch | the API | crossing requests, lost answers, a fetch under way at a click | what is shown ends up as what is stored |
| Web client, shell update (`web-ui/src/lib/pwa-update.ts`, `components/UpdateNotice.tsx`) | the service worker, the notice, the guard | announce, apply, recover | server, browser, other tabs | workers that go away, chunks that are gone, outages in between | a click takes effect; a stale tab recovers, and never loops |
| Web client, views (`lib/view-history.ts`, `lib/view-url.ts`, `components/Dashboard.tsx`) | tab, facet, admin screen, edit mode | navigate, correct, Back | history, preferences, catalogue, width of the window | views that are no longer possible when they come back | the address names the view, nothing unseen narrows it, Back works |
| Web client, search and layers (`Dashboard.tsx`, `GlobalSearch.tsx`, `ui/dialog.tsx`, `ui/popover.tsx`, `TopBar.tsx`, `NotificationBell.tsx`) | query and its debounced copy, answers, open layers, the focus | type, debounce, answer, open and close | API, window | an answer to the words before, layers over layers | results and announcement belong to the words; the focus is never lost |
| Web client, admin screens (`components/admin`) | lists on screen, held order, forms, dialogs | load, edit, save, move, send, delete | admin endpoints, other admins | late answers, a screen left while it waits, double sends | the screen agrees with the server once all is quiet |

The hazards this code is exposed to are listed in `PROJECT.json`, each at its
line, with the properties that watch over it or a note on why there is none yet.

## 2. Plan

The modules were written in this order, the behaviour every user depends on first:

1. `CatalogReads`, `CatalogCache`: what readers are promised, and the cache that keeps it. (done)
2. `CatalogView`, `CatalogLoad`: what a snapshot says, and how it is read. (done)
3. `AdminCatalog`: what writes the catalogue. (done, without SoftDeleteService and SetCategoryOrder)
4. `Sessions`: who may read at all. (done, without expiry and the handshake)
5. `Favorites`: what users write, with the preferences that steer it. (done)
6. `ShellUpdate`: how an open tab gets to the next build, and out of one that is gone. (done)
7. `ClientData`: the optimistic changes of a tab against the server. (done for favorites and preferences)
8. `Views`: the views of the launcher in the browser's history. (done)
9. `Search`: the search, what is announced of it, and the layers over it. (done)
10. `AdminScreens` over `AdminNav`, `RoleDefaults`, `CategoryRows`, `EditForms`. (done for
    these sections; the audit log and the search insights only read)
11. `Usage`: clicks, their roll-up and the purge. (done for one service, role and target)

What is left, in the order in which it is worth doing:

12. `Announcements`: the windows of announcements under CreateAnnouncement,
    UpdateAnnouncement, DeleteAnnouncement and Purge of several admins, and
    dismissals. "One active notice" (`migrations/00001_init.sql:153`) is the
    property to look at; each of the writes is one statement, so what two admins
    do to each other is already visible in the hazards.
13. `AdminMcp`: staged changes, tokens and their expiry, composed with the
    transactions of `AdminCatalog`: a change is written at most once.
14. `KeySet`: the cooldown of the signing keys.
15. The dismissal of announcements in `ClientData`.

Compositions: `CatalogCache` implements `CatalogReads` (INSTANCE, proved);
`CatalogLoad` and its view are one specification; `AdminScreens` composes three
modules over `AdminNav`. The cache, the load and the admin service are linked by
what each assumes of the other: the cache takes a load to be three reads of
committed versions, the load takes an admin write to be one atomic commit leaving a
consistent catalogue, and `AdminCatalog` shows that its commits do. `ClientData`
takes the server to be what `Favorites` is to one request at a time.

Every safety property the passing runs check is proved (section 6). What proof could
still add: the types of `ClientData` and an invariant of `Usage`, and the refinement
of one request at a time of `Favorites` by the server of `ClientData`. The
modules still to come should be proved about as they are written.

## 3. The modules

### CatalogReads and CatalogCache

`CatalogReads` is the promise: a sequence of committed versions, and readers to
whom each table is shown at some committed version, never an older one than
before. `CatalogCache` is `cache.go`: `snap`, `age` (time since `loadedAt`, in
ticks up to the TTL) and `call` (the single-flight group). A Get is `Begin`, then
`Hit`, or `Miss` and `Lead` or `Join`; the leader `Read`s three times and then
`Store`s, or fails with `LoadFails`; `Settle` ends the call for everyone who
joined; `Return`, `ReturnStale` and `ReturnError` are the tail of `reload`. An
admin handler is `AdminWrite` and later `Invalidate`; `ExternalWrite` is the other
process, which invalidates nothing here. `Restart` may come at any time.

The data is left out: a version number per table is all the properties need. The
history variables `newest`, `dropped` and `asked` record what was stored, which
Invalidates have run, and which of them a Get began after.

- `ReadsNeverGoBack`: the cache implements `CatalogReads`. It relies on the
  single flight: two loads side by side could store in the wrong order.
- `InvalidatedIsGone`: an Invalidate that overlaps no load is final, also for the
  fall-back on the last snapshot when the loader fails.
- `GetReturns`: a joined call is answered whatever becomes of its leader's load.
- `ConvergesToDatabase`: after the last write the cache is stale for one TTL at most.

### CatalogView and CatalogLoad

`CatalogView` holds the pure part of `catalog.go`: `Visible` (restricted wins),
`Narrow`, `NewSnapshot` with the view prepared for the public, and `VisibleTo` with
its two short cuts. `CatalogLoad` is `Load`, one action per statement, against
admins whose writes each commit in one step, and from every consistent catalogue.

- `QuietLoadIsExact`: untorn, a reader sees exactly the services the tables
  entitle them to; the rule is stated on category ids and the code works on slugs
  read by different statements.
- `NoCategoryWithoutService`: also torn, no category without a service to show.
- `RestrictedStaysHidden`: service writes alone cannot tear a restricted service
  into the public view.

### AdminCatalog

The admin use cases, several at once, statement by statement. A statement sees
what is committed when it is issued; rows another open transaction wrote make it
wait (the guards `ServiceFree`, `CategoryFree`, `RowsFree`); `Commit` publishes
everything. A DELETE on `role_defaults` is two steps, since its snapshot is taken
before it waits. `alone` records whether a transaction overlapped another.

Left out: names, slugs, labels, order and `is_active`. A refusal they cause is a
`Rollback`, which may come at any moment and also stands for a deadlock victim.
The locks that renaming a slug takes are left out with the slugs, so the module
has more interleavings than the code, not fewer. `SoftDeleteService` and
`SetCategoryOrder` touch only what is left out. A delete that finds no row any more
commits all the same, with an audit row of its own (`DeleteNothing`). A row id may be
used again once its row is gone and no open transaction has read it.

- `EveryServiceIsFiled`: the count before a delete is not what keeps it, the
  foreign key is.
- `PurgesAreReported`: the audit row accounts for every role default that goes.
- `QuietWritesKeepPromises`: a transaction nobody overlapped does what its
  comment says, whatever state overlapping ones have left.

### Sessions

`Callback` from the code exchange on (`Exchange`, `Persist`, `CreateSession`, or
`FailLogin`), `Logout`, and `BackchannelLogout` in several goroutines: `Begin` takes the
time, then comes the check of the signature, which may wait for the mutex of the key set
or for a fetch of the keys (`internal/auth/keyset.go:76-92`), and only then are the
token's dates and its jti looked at, by the time taken at the start (`Accept`,
`RefuseReplay` or `Refuse`; then `Revoke` or `FailRevoke`, `Remember`). `LookupOther` is
a token of anybody else, whose look-up prunes the same cache. The identity provider
(`Issue`, `RevokeGroup`) is external: it ends sessions and posts tokens that may be
late, repeated, or stamped by a clock ahead of ours. `Restart` empties the replay cache.
A session row is its login in stage `signedin`.

Left out: the handshake cookie, expiry of session rows, the rate limit of the
endpoint, and how claims become a role; of the key set, all but that a check may wait
for it or be refused by it. Signature, issuer and audience of a token are right. The row
of a login that fails to be deleted by `Logout` simply stays.

- `LoggedOutIsOut`: once a token was served nobody is signed in by a session it
  ended, but for a login between its exchange and its row (`raced`): the code has
  no defence against that one, so the property excepts exactly it.
- `OnlyServedAreReplays`: a failed logout can be retried with the same token.
- `ReplayRefused`: a token that was answered is not accepted again while it is
  fresh by the clock, because `JtiTTL` covers the age limit and the skew both ways. A
  request that began while it was fresh and waited for the keys until it was stale can
  be let through, for a look-up with a later time has pruned the entry meanwhile:
  `SessionsReplay.cfg` shows that. `answered` is what this process has answered; a
  restart forgets it.
- `RevokedWereEnded`: of every session a token ended, it was its user's, of its `sid`
  if it has one, and of an IdP session that had ended. Excepted are, for a token that
  names only the user, the logins newer than the token (`newer`): `DeleteByOIDCSub` takes
  them too, and so does a second copy of the token, which `SessionsCopies.cfg` shows.

### Favorites

One user's requests from several tabs, statement by statement, none in a
transaction: `ListFavorites` with the pre-fill (`StartList`, `Prefill`,
`MarkSeeded`) and the numbering of the manual order (`Number`, `MarkArranged`),
starring (`StartAdd`, `ReadNext`, `Insert`), unstarring (`StartRemove`, `Remove`),
reordering (`StartOrder`, `CheckOrder`, `WriteOrder`) and the PATCH of the
preferences that matter here (`StartPatch`, `WritePatch`). `SetActive` and
`Reload` are admins and the cache. Any statement may `Fail`.

Left out: `favorites.sort` and `created_at`, which only break ties, and the clicks:
the numbering by usage may be any order. The role is fixed, and so are the
defaults of the role. The user's row and the view of the catalogue are taken in
one step.

- `MetricIsDelta`: "added_total minus removed_total IS the delta"
  (`internal/service/favorites.go:139`), up to removals of services that do not
  resolve, or with no catalogue to resolve them in, which the code leaves uncounted on
  purpose (`unnamed`).
- `ArrangementStands`: two favorites the user has put in an order keep it through
  stars, removals and hidden services. The one exception, a listing that loaded the
  user before the order was written and numbers by usage afterwards, is recorded
  in `renumbered`.

### Usage

`internal/usage` and its loop for one service, role and target: `RecordClick`;
a pass of the loop, which is `Rollup` (every day with a raw click is counted again
and set) and `PurgeOldClicks` (raw clicks older than the retention go); `Fail`,
after which the loop waits; `Restart`, after which it begins with a pass; `Tick`.
Time is counted in intervals of the loop.

Left out: "frequently used", which only reads, the role and target columns, and the
`service_id` a deleted service leaves null. `DaysStayCounted` (a day counted whole
keeps its count) is refuted, see [section 7](#7-where-the-code-and-its-comments-disagree).

### ShellUpdate

`UpdateNotice` and `lib/pwa-update.ts` in several tabs that share one service worker
registration. Builds are numbered; a worker is the build it precaches. `Poll` and
`Installed` bring a worker into waiting, every registered tab `Hears` of it;
`ClickReload` and `Activate`, or `FallbackReload` when the timeout runs out first,
load it; `Dismiss` puts it off. `ChunkFails` starts the recovery of a tab whose
build is gone: `Claim`, then a hand-over to the notice's registration (`HandOver`,
`NoHandOver`), a wait for a worker (`WorkerArrives`, `NoWorkerArrives`), the probe
of the network (`Reachable`, `Unreachable`), dropping the registration and the
reload (`NetReload`). `Deploy`, `GoesDown`, `ComesUp`, `UserReload`
and `Remount` come at any time. Timeouts are choices.

Left out: the test seam of the notice, and browsers without service workers.

- `OneReloadPerClaim`: the guard in sessionStorage bounds the reloads, although it
  is handed back when nothing came of a recovery, and the page forgets all else.
- `LaterUpdatesAreAnnounced`: dismissing one build does not silence the next.
- `RecoveryKeepsThePage`: no working page is traded for the browser's error page,
  but by an outage after the probe or by another tab dropping the worker meanwhile.
- `RecoveryLeavesTheBuild`: a recovery does not load the build it fled from. Excepted
  are a registration that could not be looked up or dropped, a page loaded past its worker, and a
  page whose registration another tab's recovery has dropped: `escapeStaleShell` asks
  that registration (`pwa-update.ts:434-442`), not the browser, and so does not see the
  old build when it was registered again in between.
- `ClickTakesEffect`, `RecoveryEnds`: a click loads something, every recovery ends.

"Land on whatever the server serves now" is what a recovery does once it has
dropped the registration (`RecoveryLandsOnTheDeployment`, proved). A recovery that
finds a worker waiting takes that worker (`pwa-update.ts:452-453`), and it may be
older than what the server has by then: it gets away from the build that broke,
and may need another recovery.

### ClientData

The query cache of one tab and the server behind it (`lib/hooks.ts`, the edit mode
of `FavoritesOrder.tsx`). `Mutate` is what every optimistic change does: cancel the
fetch, remember the list, patch it. `ServeWrite` is the server, refusals and lost
requests included; `WriteAnswered` is onError and onSettled, `Settle` the refetch;
`Runs` is the scope that lets orders go out one after the other. `SetPref`,
`ServePatch` and `PatchAnswered` are the same for preferences. `AnswerFetch`,
`FetchArrives` and `FetchFails` are the fetches of the list.

TanStack Query is external, and modelled by what it documents of cancelling,
invalidating and scopes. The user has an arrangement from the start; how it comes
about is in `Favorites`. Left out: the dismissal of announcements and the queries
`show_beta` invalidates.

- `QuietShowsStored`, `QuietMeIsStored`: when nothing is under way any more, the
  screen is what the server has. Excepted are a preference whose answer was lost
  (`unheard`), and for preferences two changes that crossed (`crossed`): nothing
  fetches the user again after them.
- `NoFetchOutlivesAClick`: no list asked for before a click replaces what the click
  put on screen.
- `OrdersApplyInTurn`: the server applies orders as they were made.
- `ChangesEnd`: every change ends, those that wait for their turn included.

### Views

Tab, facet and admin screen as an address in the browser's history (`ViewToURL`,
`ParseViewURL`, `Navigate`, `Replace`, `PopState`), and the state beside it: the
search, the phone's field, the edit mode, the width of the window, preferences, and
what the queries have answered. A view that the page cannot show is corrected during
render: `Corrected` is what one pass sets, `Correct` the pass, and the user acts on a
`Valid` view only.

- `AddressNamesView`: reloading, or copying the link, shows the same view.
- `ActiveFacetHasPill`: what narrows a list is a pill above it.
- `OneViewAtATime`: no edit mode among search results, no screen without its tabs or
  bar, no query without a field, no phone field on a desktop.
- `BackIsNotTrapped`: a correction replaces, it never pushes and never moves.
- `CorrectionsEnd`: no guard is still true of the view it has corrected.

### Search

The query, its debounced copy, the answers in the cache, what the live region has
said, and who has the keyboard: `Type`, `Debounce`, `Answered`, `FetchFails`,
`Collected`; `ListsTurn`, the catalogue and the favorites, whose loading keeps the page
from settling (`Dashboard.tsx:257`); the phone's field (`Hotkey`, `ClickField`,
`EscapeField`), panels (`OpenPanel`, `EscapeMenu`, `PressOutside`), the sheet and the
dialogs (`OpenSheet`, `OpenNotice`, `ToggleBeta`, `CloseDialog`, `Rerender`, `RowGoes`),
a press on the scrim that is no click (`PressScrim`), Back under a dialog
(`BackUnderDialog`), the edit mode of the favorites (`Arrange`, `EndArrange`) and the
window crossing the breakpoint (`Cross`). The focus is a place; a place that goes away
or becomes inert leaves it on the body, and so does a press on what takes no focus.
`Wander` is Tab and such presses. Under the phone's field the bar is inert, and with it
the panel of a button in it.

`previous` starts as nothing: the first tab or search the page settles on is the
baseline of the live region and is not said (`hooks.ts:60-69`); `first` records it.
`spoken` is the message the region was set to last. A message with the same text while
the last one still stands is no change of it (`hooks.ts:91-101`); the time a message
stands is left out. So are the counts of the tabs, which are all 0 here, and ways out of
the edit mode other than its own buttons and a search. What a strayed keyboard could
press behind a dialog, and the sheet's flag under another dialog or a panel of the bar
while the window crosses the breakpoint, are left out; the bounds are named in `Wander`
and `Cross`.

- `QuietSearchIsRight`: what is shown, and what was said last, is of the words in the
  field once nothing is under way. The one search that stays unsaid is the one the page
  first settled on, typed before the catalogue and the favorites had come.
- `SearchEnds`: a search is answered or fails, it never waits for ever.
- `SearchYieldsToLayers`: a dialog has the keyboard, and a panel under no dialog keeps it
  or lets it be pulled in. Excepted is a keyboard that was taken out from under a dialog
  (`strayed`): by a press on its scrim that did not close it, or by the phone's field
  standing down under it. `dialog.tsx:69-84` keeps Tab inside but does not pull it
  back in, as `focus.ts:28-33` does for panels.
- `FocusReturns`: closing a layer never leaves the focus on nothing. Excepted are a press
  outside the panel, which says itself where the focus goes; "Anordnen"
  (`FavoritesOrder.tsx:153-168`), which takes menu and trigger off the page and gives
  the focus to nobody; a dialog whose opener is itself gone; a keyboard that had strayed;
  and the phone's field covering the bar: with a panel open on a desktop, a query typed
  and the window made narrow, Escape finds no usable trigger.

One thing worth knowing follows from the model and is no fault: after a search was
cleared, the next one shows the services of the old one until its own have come
(`Dashboard.tsx:233-235`).

### AdminNav, RoleDefaults, CategoryRows, EditForms and AdminScreens

`AdminNav` holds which section is mounted, and that a mutation calls back only to the
screen that started it, while it is mounted. `RoleDefaults` is the editor of a role's
default view, `CategoryRows` the categories with the order held over a move,
`EditForms` the forms and delete dialogs of services and announcements.
`AdminScreens` puts them together; as they share nothing but which is mounted, a
behaviour works in one part of the screen and the other parts are "elsewhere".

Left out: names, labels, error texts and the focus, all fields of a form but the
keywords, the audit log and the search insights.

- `LoadedListIsTheRoles`: once a role's list has come, whatever was edited, chosen or
  saved meanwhile, the screen lacks nothing of it but what was removed by hand.
- `RowsAreTheCategories`: no row twice, none missing, whatever order is held.
- `OneRecordPerForm`: a form makes one record however often it is sent.
  Excepted are forms of which the answer to a write that was stored got lost
  (`unheardForms`): the user sees an error and may send again.
- `KeywordsAreMerged`: what a form would send has every keyword once, what is still in
  the field included.

Lists that are filtered are `LeftOf`, and `mergeKeywords` is a function of the
position it has come to, as in the code's loop: both are recursive functions, which
the proofs can follow step by step.

## 4. Runs and bounds

| Run | Bounds | States | What it shows |
|---|---|---|---|
| `cache` | 2 callers, TTL 2, 1 write | 38 909 | all properties of the cache, liveness included |
| `catalog_load` | 2 services, 2 categories, 3 slugs, 2 groups, 2 writes, every initial catalogue | 70 672 | torn and untorn loads, for every reader |
| `catalog_load_torn` | 1 service, 1 write | stops early | `NeverShownWhatWasHidden` is violated |
| `admin` | 2 transactions, 2 services, 2 categories, 2 roles, every initial catalogue | 693 550 | all pairs of use cases |
| `sessions` | 1 user, 2 IdP sessions, 2 logins, 1 token, 2 handlers, age limit 1, skew 1, clock to 4 | 3 662 458 | the properties of logout |
| `favorites` | 3 services (one beta, one that is hidden at times), 2 defaults, 3 requests | 169 760 | counters and arrangement |
| `client_data` | 2 services, 2 changes to the favorites, 1 to the preferences | 270 551 | what a tab shows, and that changes end |
| `shell_update` | 1 tab, 3 builds, 1 outage | 51 176 | the notice and the recovery, liveness included |
| `views` | every address, 1 category, 2 entries of history | 97 364 | the views of the launcher |
| `search` | 2 words, phone and desktop, all layers, lists that are late or fail | 412 293 | results, announcement, focus |
| `admin_screens` | 3 slugs, 2 services, 2 roles, 2 writes, 2 forms, 2 fetches | 1 619 349 | the admin screen against the server |
| `usage_purged` | 3 passes a day, retention of 2 days, 4 days | stops early | `DaysStayCounted` is violated |

The type invariants are proved, most of them as part of the inductive invariants, and
the runs do not repeat them. Those of `ClientData` are not; `ClientDataTypes.cfg`
checks them with the bounds of the run.

Why that is enough to be interesting:

- Two callers make a leader and one who joins; one write is enough to tell old
  from new, and the three tables of a load may still differ. Two writes with a TTL
  of 1 pass as well, in a little over three minutes; for the safety properties the
  proofs need no bound at all.
- Two writes may fall between the three statements of a load in every way, and a
  third adds no statement to fall before. Two services and two categories are
  needed to have one restricted and one public category on one service.
- Two transactions are every pair of use cases, and every catalogue is an initial
  state, so what a third would have left behind is a start. Transactions that need
  three to go wrong are covered by the proofs only.
- Two handlers are two copies of a token; the clock runs past `MaxAge + 2 * Skew`,
  so entries of the replay cache expire and tokens become stale while one handler waits
  for the keys and the other is done.
- Three requests are a listing, a write and another write; with two services of one
  user in an order, the third is what comes between.

- One change of the preferences and two of the favorites are enough for two changes to
  cross, for a rollback over a later change, and for an order that waits for another.
  The order of the list matters from two services on.
- Three builds are the one a tab has, the one that waits, and one that makes it wait in
  vain. A second tab adds that a worker is activated or dropped by someone else. With
  two tabs the liveness checks are too large, so `shell_update` has one;
  `ShellUpdateTabs.cfg` checks the safety properties for two tabs, two builds and an
  outage (2 200 562 states), and the safety properties are
  proved for any set of tabs. That a click takes effect and a recovery ends beside
  another tab is not checked.
- Two entries are one to go back to; whatever comes before is an entry like it.
- Two words are the query and the one before it, with different counts. `MCSearch` has
  one bound more (`Bounded`): the second word, and lists that are late or fail, come only
  while there is neither a layer nor the edit mode and the beta switch is off. Of the
  search, layers and focus depend only on whether there is one; the words, answers and
  lists depend on no layer. The proofs have no such bound.
- Three slugs are two categories and a name one can be changed to; two roles are the
  chosen one and another. Two forms are one and the next.
- A day of three passes has a first, a middle and a last; more of them only make the
  steps in which the count of a day is lost smaller.

The runs of `AdminCatalog` and `ClientData` have a bound on what is begun and stop
there, which is why they do not look for deadlocks; everywhere else TLC does.
Symmetry is used only with safety properties and only on sets whose
members the module treats alike.

Every property of a passing run has a mutant in `PROJECT.json`: a plausible bug in
a definition that models code, and TLC finds the property violated once it is in.

## 5. Fairness

Every FairSpec (`SearchFairSpec` in `Search`) asks for weak fairness only, and only of
what a scheduler, a timer or a request that was sent does on its own; never of users,
admins, deployments or failures.

*The cache.* Weak fairness of every step of a Get that has begun, and of the clock. The Go scheduler runs a goroutine
that can run, and a woken waiter needs no one else. That a statement of Load
returns or fails in the end is an assumption about the database and its
connection: the loader runs with the context of the leader's request, which ends
it when that client goes away, but no handler sets a deadline of its own
(`cmd/server/main.go:244` bounds the reading of headers only). Nothing is assumed of requests that might
come, of writes, Invalidates or restarts: no one has to do any of those.

`GetReturns` and `ConvergesToDatabase` do not need strong fairness: a caller that is in
`wait` has no step of its own and is moved by the leader, whose steps stay enabled.

*`ClientData`.* A request that was sent is answered or fails, and the answer arrives:
browsers give up on a request in the end, and `api.ts` turns that into an error.
`ChangesEnd` needs the fetch as well, since a mutation ends with its refetch, and the
order in which a scope lets mutations go.

*`ShellUpdate`.* A worker that was told to skip waiting activates; `RELOAD_FALLBACK_MS`
runs out; and every wait of a recovery ends, each by a timer of its own
(`pwa-update.ts:181-233`, `286-330`, `332-370`). Nothing is assumed of the network.

*`Views`.* React repeats a render in which state was set; `Correct` is that.

*`Search`.* The timer of the debounce runs out, and a request is answered or fails. The
run checks `MCSearchSpec`, which is `SearchFairSpec` with the bound of section 4; from
a state within the bound `Debounce`, `Answered` and `FetchFails` stay within it, so the
bound takes nothing away from what fairness promises.

## 6. Proofs

Each module of proofs extends the module it is about; the assumptions are the
ASSUMEs on the constants there (finite sets, special values that are not members,
natural-number bounds), which TLC evaluates in the runs.

| Module | Theorem | Says |
|---|---|---|
| `CatalogProofs` | `CacheInvariant` | `IInv` always holds |
| | `CacheImplementsReads` | the cache implements `CatalogReads` |
| | `InvalidatedStaysGone` | `InvalidatedIsGone` |
| | `ShortCutsAreExact` | `VisibleTo` equals plain narrowing, for every snapshot |
| | `ViewHoldsItsCategories`, `MoreGroupsShowMore` | views hold no foreign category; more groups never hide anything |
| | `QuietLoadsAreExact`, `NoEmptyCategories` | `QuietLoadIsExact`, `NoCategoryWithoutService` |
| | `RestrictedServicesStayHidden` | `RestrictedStaysHidden`, for any number of service writes |
| | `LoadTypeCorrect` | `LoadTypeOK` |
| `AdminCatalogProofs` | `AdminInvariant`, `AdminTypeCorrect` | the inductive invariant and `TypeOK` |
| | `ServicesStayFiled` | `EveryServiceIsFiled` |
| | `AuditAccountsForDefaults` | `PurgesAreReported` |
| | `LoneInvariant` | what a transaction nobody overlaps has read and written so far |
| | `QuietWritesAreExact` | `QuietWritesKeepPromises` |
| `SessionsProofs` | `SessionsInvariant` | `IInv`, with `OnlyServedAreReplays`, `RevokedWereEnded` |
| | `ReplaysWereServed`, `RevocationsWereDue` | `OnlyServedAreReplays`, and `RevokedWereEnded` for every token |
| | `LogoutsAreRight` | `LoggedOutIsOut` and the above |
| | `AnsweredStaysRefused` | `ReplayRefused` for any age limit, skew and wait for the keys |
| `FavoritesProofs` | `FavoritesInvariant` | `IInv` always holds |
| | `CountersAreTheDelta` | `MetricIsDelta` |
| | `ArrangementIsKept` | `ArrangementStands` |
| `ClientDataProofs` | `FetchesYieldToClicks` | `NoFetchOutlivesAClick` for any number of changes |
| | `OrdersArriveInTurn` | `OrdersApplyInTurn` |
| | `ScreenInvariant` | every change has a fetch of its own to come |
| | `QuietFavoritesAreStored`, `QuietPreferencesAreStored` | `QuietShowsStored`, `QuietMeIsStored` |
| `ViewsProofs` | `AddressesNameViews`, `ActiveFacetsHavePills`, `ViewsExclude` | the invariants of the views, for any categories and length of history |
| | `CorrectionsStay` | `BackIsNotTrapped` |
| `ShellUpdateProofs` | `ClaimsBoundReloads` | `OneReloadPerClaim`, for any number of tabs, builds and outages |
| | `PagesAreKept` | `RecoveryKeepsThePage` |
| | `BuildsInvariant` | workers, pages and recoveries go forward through the builds |
| | `RecoveriesLeaveTheBuild` | `RecoveryLeavesTheBuild` |
| | `RecoveriesLandOnTheDeployment` | `RecoveryLandsOnTheDeployment`, which no run checks |
| | `UpdatesAreAnnounced` | `LaterUpdatesAreAnnounced` |
| `ScreensProofs` | `AnswersInvariant` | every settled query has its answer, or one under way; what settled last was told, or is the baseline |
| | `QuietSearchesAreRight` | `QuietSearchIsRight`, for any words and counts |
| | `KeyboardInvariant` | the focus, and what a dialog returns to, are usable; layers keep the keyboard that has not strayed |
| | `LayersHaveTheKeyboard`, `FocusIsReturned` | `SearchYieldsToLayers`, `FocusReturns` |
| | `SearchTypeCorrect` | `SearchTypeOK` |
| | `FormsInvariant`, `FormsMakeOneRecord` | the numbers of forms, and `OneRecordPerForm` |
| | `KeywordsInvariant`, `KeywordsAreSentOnce` | no keyword twice in a form, and `KeywordsAreMerged` |
| | `RolesInvariant`, `LoadedListsStay` | the editor follows its role, and `LoadedListIsTheRoles` |
| | `CategoriesInvariant`, `RowsAreComplete` | the list follows the server, and `RowsAreTheCategories` |
| | `ScreensTypeCorrect` | `TypeOK` of `AdminScreens` |

The arguments:

- *Cache.* That a reader does not go back says nothing of loads under way. `IInv`
  adds that one leader at a time holds the call (`OneLoad`), that what it has read
  is no older than anything stored before (`LoadAhead`), that the cache holds the
  last thing stored and nothing quietly invalidated (`CacheIsNewest`), and that
  readers have seen, and are about to be given, nothing newer (`ReadersBehind`).
  A `Store` then only raises `newest`, and an answer lies between what its reader
  saw and what is committed: a `Serve` of `CatalogReads`; writes are `Commit`s and
  every other step stutters.
- *Load.* While no write has committed, what the statements returned is what the
  tables say, so the snapshot is a function of the tables; uniqueness of slugs in
  `Consistent` carries the rule on ids over to slugs. `ShortCutsAreExact` does the
  rest without any state. For torn loads, `RestrictionsAreRead` says that while no
  category was written the categories read first are still those of the tables, and
  that what is recorded as restricted still is; then the pairs, read last, restrict it.
- *Admin.* `AInv` says which foreign keys an open transaction holds by its stage:
  one that has filed services under a category keeps others from having deleted it,
  and one that has deleted it keeps others from filing. The audit part says that
  rows gone are those reported, or of the role being set.
- *Sessions.* `LoggedOutIsOut` is not inductive alone: a token's sessions must have
  ended when it was issued (`EndsAreTrue`), and none of a served token's logins may
  be left (`NoneLeft`), in flight or signed in. For replays, an answered token is
  remembered or stale by the clock (`RememberedOrStale`), which is where
  `MaxAge + 2 * Skew` is needed: a token may be stamped `Skew` ahead and is
  accepted until `Skew` after its age limit. A look-up prunes by the time its request
  began, which is no later than the clock (`WorkIsVerified`), so what it prunes is stale.
  `RevokedByIssued` ties a revoked session to the token that ended it, and
  `OlderHadEnded` says that a token that names only the user reported the end of every
  IdP session its logins had, but for the logins that came after it.
- *Favorites.* `MetricIsDelta` needs only types, and that a row is counted by the
  statement that writes it: the proof is arithmetic on cardinalities of finite sets.
  `ArrangementStands` needs `ArrangedAreFavorites`: what is arranged has a row, so
  an insert, which writes only missing rows, cannot move it.

- *Admin, alone.* `QuietWritesKeepPromises` says what a transaction did, and by then the
  tables may be anything. `LInv` follows one nobody has overlapped (`LoneService`,
  `LoneCategory`, `LoneDefaults`): stage by stage, the rows it has read or deleted
  are exactly those it is to deal with. `NobodyElse` says that `alone` is right,
  and an overlap may only clear it.
- *Client data.* That the server applies orders as they were made needs that an order
  still to be sent was made after all that were applied (`OrdersWait`): the scope
  picks the first that is open. A fetch carries how many changes were made before it;
  a change drops the fetch, so a fetch is younger than every open change. Both rest
  on lemmas that say of each action how it changes the sequence of changes
  (`GoesOn`, `OneMore`), so that the rest of the proof never looks at a record.
  The quiet states need to know where the screen is going (`ScreenFollows`): a change
  is still due to fetch, or a fetch is under way that will bring what is stored or
  has brought it, or nothing is under way and the screen shows it or a fetch has
  failed. Nothing is said of how an optimistic change was made: every change ends in a
  fetch of its own, and that is enough whatever the server made of it. Nothing
  fetches preferences again, so there (`MeFollows`), unless changes crossed, one at most
  is open and what is stored is what its answer, or its rollback, will put on screen.
- *Views.* `ParsedIsCanonical` and `ShownIsCanonical` say that reading an address gives
  a view that is named by an address, and the one it was made from. With
  `SearchStandsAlone` (a search has no facet and no edit mode beside it) that is
  inductive. A facet without a pill is then a view some correction still applies to.
- *Shell update.* A recovery under way, or a reload it has armed, holds a claim no reload
  was made on, and there is only one of the two (`ClaimsAreUnspent`); a recovery
  about to reload has seen the network or lost it since (`ReloadsSawTheNetwork`).
  That a recovery leaves its build is an argument on the order of builds: a worker
  that waits is newer than the active one and a page no newer than what served
  it (`WorkersInOrder`, `PagesInOrder`); a recovery is on a page no newer than what it
  is to reach (`RecoveriesInOrder`), and once it has dropped the registration whatever is
  registered is that or newer (`DroppedIsDropped`). `ArmedEscapes` is the case of a
  worker told to take over, which may wait, be active or be gone when the reload comes.
  A build is announced because what was dismissed is no newer than what was heard.
- *Search.* `SettledIsTold` ties what was said last to what settled last, or to the
  baseline while nothing has been said (`first`), and `AnswersArrive` says that a
  debounced query has its answer, is being asked, or failed.
- *Focus.* Where a layer gives the focus when it closes was chosen when it opened;
  so `KeyboardIsHeld` says all along that what a dialog will return to is usable,
  and that the focus never rests on something covered. Actions of layers touch neither the
  text nor the bar (`LayersKeepThePage`), so only typing, fetching and the field can
  cover what had it.
- *Forms.* Forms are numbered in turn (`NumbersAreFresh`) and a record carries the number
  of the form that made it. A form has one creation under way at most, which it
  hears of while it is open (`OneCreateUnderWay`), and if it has made a record and is open, that
  creation is stored and its answer still to come (`RecordsAreAnswered`): the button is
  disabled until then, and the answer closes the form.
- *Keywords.* `MergeProperties`: a merged list keeps what was there, adds what was typed,
  and no two of its members differ in case only.
- *Roles.* A fetch that is heeded is of the role edited (`RolesAreFollowed`), for
  choosing another one makes it inactive. The rest is about lists: swapping, adding and
  removing keep a list without repetition, and the merge of a late answer keeps what
  was edited and adds the rest.
- *Categories.* The rows are the held order without what is gone, then what is new; that
  has every category once whatever the order is. The invariant adds that what is on
  screen is not behind the server for good (`ListIsFollowed`).

What the proofs assume of the constants is little: words are none of the special
values beside them, terms of keywords are not blank, and a list of keywords, roles or
categories is of a finite set, which on a page it is. `Fold` may be any folding of
case, `Hits` any counts. There is no bound on lengths or sizes other than those
constants.

Only model-checked:

- liveness (`GetReturns`, `ConvergesToDatabase`, `ChangesEnd`, `ClickTakesEffect`,
  `RecoveryEnds`, `CorrectionsEnd`, `SearchEnds`), which this prover does not do;
- the types of `ClientData`, which say that no list repeats a service: its lists are made by
  `SetToSortSeq` and `SelectSeq`, of which the prover knows nothing, and no proof
  about `ClientData` needs them;
- `Usage`, whose one property is violated;
- what is violated (section 7): a counterexample is its proof.

No module has a RECURSIVE operator, so nothing is out of the prover's reach for that
reason. What a recursive function computes is proved without the induction theorems,
whose operator parameter the installed provers cannot instantiate: a set of numbers
that is not empty has a least one (`LeastNumber`, from the well-foundedness of the
subset relation on finite sets), and a property that fails for the least of them
holds one before it.

## 7. Where the code and its comments disagree

Two runs refute what comments and tests say; `PROJECT.json` quotes it.

| Run | In short |
|---|---|
| `catalog_load_torn` | a service soft-deleted, or a category renamed, between two statements of a load makes a restricted service public in that snapshot |
| `usage_purged` | the cutoff of the purge passes through a day hour by hour, and the next roll-up sets the day to the clicks that are left: in the end `usage_daily` has only those of its last part |

Further configurations that show a disagreement, or a limit of a property, and are not
among the runs. Each has one property, which TLC finds violated:

| Configuration | Property | In short |
|---|---|---|
| `CatalogCacheSuperseded.cfg` | `NeverSuperseded` | a load that overlaps an admin write stores what the write superseded, after its Invalidate; it is served until the TTL ends |
| `AdminCatalogDefaults.cfg` | `DefaultsStayPublic` | setting defaults and restricting a category at the same time leaves a restricted service in a default view |
| `AdminCatalogOmitted.cfg` | `OmittedVisibilityIsKept` | an update that leaves the visibility out undoes one that restricts the category meanwhile |
| `SessionsRevoked.cfg` | `RevokedAtNextLogin` | two overlapping logins can restore a group that the later one saw revoked |
| `SessionsReplay.cfg` | `AnsweredNeverAccepted` | a request that began while its token was fresh and waited for the keys finds the entry of an answered copy pruned, and is accepted (`internal/auth/backchannel.go:34-36`: "after which a replayed token is stale anyway") |
| `SessionsCopies.cfg` | `CopiesAreIdempotent` | a second copy of a token that names only the user ends a login made since (`backchannel.go:77-79`: "two concurrent copies of one token at worst both delete the same rows") |
| `FavoritesSlots.cfg` | `InvisibleSlotBack` | reordering the visible favorites moves them past hidden ones |
| `RoleDefaultsSave.cfg` | `SavesDropOnlyRemoved` | a save sent before the list of the role has come writes an empty list, or another role's, over it (`RoleDefaultsAdmin.tsx:174`, against lines 66-67) |
| `ClientDataCancel.cfg` | `CancelRestores` | "Abbrechen" compares with a list a refetch may have replaced while a move was on its way, and writes nothing |
| `SearchSpoken.cfg` | `OnlySettledIsSpoken` | while the words change, the count of the words before can be announced for them |

Four things about the keyboard and the live region stand as exceptions in the properties
of `Search`; with the exception taken out, each property is violated:

- A search typed before the catalogue and the favorites have come is answered, and its
  count is never announced (`hooks.ts:60-69`).
- "Anordnen" leaves the focus on nothing, whereas a dialog "restores" it on closing
  (`dialog.tsx:7-12`) and a panel gives it to its trigger.
- Back, with a dialog over the phone's field, takes the focus from the dialog.
- A press on a scrim that is no click takes the keyboard out of a dialog, and Tab does
  not bring it back (`dialog.tsx:69-84`, unlike `focus.ts:28-33`).

## 8. What is not modelled, and why

- Announcements, the admin MCP, the signing keys: see [Plan](#2-plan). The writes of the
  first are single statements; the second is one map behind one mutex before a
  transaction of `AdminCatalog`; the third is a
  bound on real time, of which `Sessions` has that a check may wait or be refused.
- The search of the server, the read-only MCP, the HTTP layer, metrics: no state that
  two requests share, or state that belongs to a library.
- Start-up, configuration files, branding, deployment and backup scripts: read once,
  or outside the program.
- The generated code of `internal/store` and its SQL types: the SQL is modelled with
  the component that runs it.
- PostgreSQL and the identity provider are modelled as far as this code uses them:
  READ COMMITTED visibility, row locks, foreign keys and unique keys of the rows at
  hand; tokens and claims as they arrive. So are TanStack Query, the browser's
  history, focus and service workers on the other side.
- Layout, tiles, icons, texts and rich text of the client; the install hint, the
  assistant widget and the watermark, which react to one thing each and share no state.
