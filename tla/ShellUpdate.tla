---------------------------- MODULE ShellUpdate ----------------------------
(***************************************************************************)
(* How an open tab gets from one build of the client to the next: the      *)
(* service worker that waits (UpdateNotice), and the recovery of a tab     *)
(* whose build is gone from the server (startStaleShellRecovery).  Builds  *)
(* are numbered in the order they are deployed; a worker is the build it   *)
(* precaches.  Tabs share the registration and the network.                *)
(*                                                                         *)
(* Timeouts may run out at any moment; the five minutes of the guard are   *)
(* longer than a recovery.  The test seam of the notice and browsers       *)
(* without service workers (a registration that always fails) are left out.*)
(***************************************************************************)
EXTENDS Naturals

CONSTANTS
    Tabs,
    MaxBuild,           \* bound: builds deployed
    MaxOutages          \* bound: times the network goes down

ASSUME ShellAssumption == MaxBuild \in Nat \ {0} /\ MaxOutages \in Nat

VARIABLES
    deployed,           \* the build the server serves
    online, outages,
    reg,                \* the browser's registration: 0 where there is no worker
    skip,               \* the waiting worker was told to skip waiting
    prompt,             \* this browser hands over before RELOAD_FALLBACK_MS
    page,               \* what each tab shows; shell 0 is the browser's error page
    guard,              \* the stale-shell claim in sessionStorage
    heal,               \* where escapeStaleShell is
    (* history *)
    cut,                \* the network went down after the tab's probe was answered
    target,             \* the build the server had when the recovery under way began
    spent               \* reloads by the recovery since the last claim was free

browser == <<reg, skip>>
network == <<deployed, online, outages, prompt>>
history == <<cut, target, spent>>
vars == <<network, browser, page, guard, heal, history>>

Builds == 1..MaxBuild
None == 0
NoReg == [active |-> None, waiting |-> None, installing |-> None]
Newest == IF reg.waiting # None THEN reg.waiting ELSE reg.active

\* A page as it comes up.  reg is its view of the registration: none yet, failed,
\* the browser's own, or one that was unregistered meanwhile.  listens: workbox
\* reloads it on a change of its controller.  refused: the worker last dismissed.
Fresh(b, controlled) ==
    [shell |-> b, controlled |-> controlled, reg |-> "pending", heard |-> 0,
     dismissed |-> 0, refused |-> None, listens |-> FALSE, applying |-> FALSE, timer |-> "off"]

\* A navigation: the active worker answers it from its precache, or else the network.
Navigated ==
    IF reg.active # None THEN Fresh(reg.active, TRUE)
    ELSE IF online THEN Fresh(deployed, FALSE) ELSE Fresh(None, FALSE)

Up(t) == page[t].shell # None
Idle(t) == heal[t] = "idle"

\* Everything of the old page ends with it: timers, and a recovery under way.
Load(loaded, new) ==
    /\ page' = [t \in Tabs |-> IF t \in loaded THEN new ELSE page[t]]
    /\ heal' = [t \in Tabs |-> IF t \in loaded THEN "idle" ELSE heal[t]]
    /\ cut' = [t \in Tabs |-> t \notin loaded /\ cut[t]]
    /\ target' = [t \in Tabs |-> IF t \in loaded THEN None ELSE target[t]]

Init ==
    /\ deployed = 1 /\ online = TRUE /\ outages = 0
    /\ reg \in {NoReg, [NoReg EXCEPT !.active = 1]}
    /\ skip = None /\ prompt \in BOOLEAN
    /\ page = [t \in Tabs |-> Navigated]
    /\ \E g \in {"free", "blocked"} : guard = [t \in Tabs |-> g]
    /\ heal = [t \in Tabs |-> "idle"]
    /\ cut = [t \in Tabs |-> FALSE]
    /\ target = [t \in Tabs |-> None]
    /\ spent = [t \in Tabs |-> 0]

-----------------------------------------------------------------------------
(* The server, the network and the user *)

Deploy ==
    /\ deployed < MaxBuild
    /\ deployed' = deployed + 1
    /\ UNCHANGED <<online, outages, prompt, browser, page, guard, heal, history>>

GoesDown ==
    /\ online /\ outages < MaxOutages
    /\ online' = FALSE /\ outages' = outages + 1
    /\ cut' = [t \in Tabs |-> cut[t] \/ heal[t] \in {"reload", "anyway"}]
    /\ UNCHANGED <<deployed, prompt, browser, page, guard, heal, target, spent>>

ComesUp ==
    /\ ~online /\ online' = TRUE
    /\ UNCHANGED <<deployed, outages, prompt, browser, page, guard, heal, history>>

\* The user reloads, opens the page again, or reloads past the worker.
UserReload(t) ==
    /\ \/ Load({t}, Navigated)
       \/ online /\ Load({t}, Fresh(deployed, FALSE))
    /\ UNCHANGED <<network, browser, guard, spent>>

-----------------------------------------------------------------------------
(* The service worker, in prompt mode and without clientsClaim *)

\* A tab is told of every worker that comes to wait while it is registered.
\* Mutant: the flag needRefresh instead of a count.
HearsOnce(p) == IF p.reg = "live" THEN [p EXCEPT !.heard = 1, !.listens = TRUE] ELSE p
Hears(p) == IF p.reg = "live" THEN [p EXCEPT !.heard = @ + 1, !.listens = TRUE] ELSE p

\* registration.update(): a script that differs from the newest worker is installed.
Checked == IF online /\ reg.installing = None /\ Newest # deployed
           THEN [reg EXCEPT !.installing = deployed] ELSE reg

Installed ==
    /\ reg.installing # None
    /\ prompt => skip = None
    /\ online /\ reg.installing = deployed
    /\ IF reg.active = None
       THEN /\ reg' = [NoReg EXCEPT !.active = reg.installing]
            /\ UNCHANGED page
       ELSE /\ reg' = [reg EXCEPT !.waiting = reg.installing, !.installing = None]
            /\ page' = [t \in Tabs |-> Hears(page[t])]
    /\ UNCHANGED <<network, skip, guard, heal, history>>

InstallFails ==
    /\ reg.installing # None
    /\ reg' = [reg EXCEPT !.installing = None]
    /\ UNCHANGED <<network, skip, page, guard, heal, history>>

\* The worker told to skip waiting takes over.  Pages it controls are reloaded by
\* the controllerchange handler that vite-plugin-pwa adds with the prompt.
Activate ==
    /\ skip # None
    /\ skip' = None
    /\ IF skip = reg.waiting
       THEN LET over == {t \in Tabs : page[t].controlled /\ page[t].listens}
            IN  /\ reg' = [reg EXCEPT !.active = reg.waiting, !.waiting = None]
                /\ Load(over, Fresh(reg.waiting, TRUE))
                /\ spent' = [t \in Tabs |-> IF t \in over /\ page[t].timer = "heal"
                                            THEN spent[t] + 1 ELSE spent[t]]
       ELSE UNCHANGED <<reg, page, heal, history>>
    /\ UNCHANGED <<network, guard>>

-----------------------------------------------------------------------------
(* UpdateNotice *)

\* useRegisterSW: a new registration starts with an install, an old one with a
\* check; a worker that waits already is reported.  The hand-over to the recovery.
Register(t) ==
    /\ Up(t) /\ page[t].reg = "pending"
    /\ reg.active # None \/ reg.installing # None \/ online
    /\ LET p == [page[t] EXCEPT !.reg = "live"]
       IN  page' = [page EXCEPT ![t] = IF reg.waiting # None THEN Hears(p) ELSE p]
    /\ reg' = Checked
    /\ UNCHANGED <<network, skip, guard, heal, history>>

\* onRegisterError, the failed import of workbox-window included.
RegisterFails(t) ==
    /\ Up(t) /\ page[t].reg = "pending"
    /\ page' = [page EXCEPT ![t].reg = "failed"]
    /\ UNCHANGED <<network, browser, guard, heal, history>>

\* startUpdateChecks: the hourly check, and the one on becoming visible.
Poll(t) ==
    /\ page[t].reg = "live" /\ Checked # reg
    /\ reg' = Checked
    /\ UNCHANGED <<network, skip, page, guard, heal, history>>

Visible(p) == p.heard # 0 /\ p.heard # p.dismissed

Dismiss(t) ==
    /\ Up(t) /\ Visible(page[t])
    /\ page' = [page EXCEPT ![t].dismissed = page[t].heard, ![t].refused = reg.waiting]
    /\ UNCHANGED <<network, browser, guard, heal, history>>

\* Mutant: no timer of its own, as before issue #120.
ApplyUntimed(t, why) ==
    /\ page' = [page EXCEPT ![t].applying = @ \/ why = "user"]
    /\ skip' = IF reg.waiting # None THEN reg.waiting ELSE skip
    /\ UNCHANGED reg
\* applyUpdate: the timer first, then the message to whatever worker waits.
Apply(t, why) ==
    /\ page' = [page EXCEPT ![t].timer = IF @ = "heal" THEN @ ELSE why,
                            ![t].applying = @ \/ why = "user"]
    /\ skip' = IF reg.waiting # None THEN reg.waiting ELSE skip
    /\ UNCHANGED reg

ClickReload(t) ==
    /\ Up(t) /\ Visible(page[t]) /\ ~page[t].applying
    /\ IF page[t].reg = "live" THEN Apply(t, "user")
       ELSE page' = [page EXCEPT ![t].timer = "user", ![t].applying = TRUE] /\ UNCHANGED browser
    /\ UNCHANGED <<network, guard, heal, history>>

FallbackReload(t) ==
    /\ page[t].timer # "off"
    /\ prompt => skip = None
    /\ Load({t}, Navigated)
    /\ spent' = [spent EXCEPT ![t] = IF page[t].timer = "heal" THEN @ + 1 ELSE @]
    /\ UNCHANGED <<network, browser, guard>>

\* The dashboard is taken down (App shows an error) and mounted again: the effect's
\* teardown stops the checks, withdraws the hand-over and cancels the user's reload;
\* nothing cancels the one the recovery has armed.
Remount(t) ==
    /\ Up(t) /\ page[t].reg # "pending"
    /\ page' = [page EXCEPT ![t] = [Fresh(@.shell, @.controlled) EXCEPT
                    !.listens = page[t].listens,
                    !.timer = IF page[t].timer = "heal" THEN "heal" ELSE "off"]]
    /\ UNCHANGED <<network, browser, guard, heal, history>>

-----------------------------------------------------------------------------
(* The recovery of a stale shell *)

\* claimStaleShellReload.  A guard that cannot be written is a guard held for ever.
Claim(t) == guard[t] = "free" /\ guard' = [guard EXCEPT ![t] = "held"]
\* releaseStaleShellReload
Release(t) == guard' = [guard EXCEPT ![t] = "free"]

\* STALE_SHELL_RETRY_AFTER_MS have passed, and with them everything that waits.
GuardAges(t) ==
    /\ guard[t] = "held" /\ Idle(t) /\ page[t].timer = "off"
    /\ guard' = [guard EXCEPT ![t] = "free"]
    /\ spent' = [spent EXCEPT ![t] = 0]
    /\ UNCHANGED <<network, browser, page, heal, cut, target>>

\* A chunk that is not precached is missing: another build is served, or nothing.
ChunkMissing(t) == page[t].shell # deployed \/ ~online

\* Mutant: the failure is acted on whatever the guard says.
ChunkFailsUnguarded(t) ==
    /\ Up(t) /\ Idle(t) /\ ChunkMissing(t)
    /\ guard' = [guard EXCEPT ![t] = "held"]
    /\ heal' = [heal EXCEPT ![t] = "handover"]
    /\ target' = [target EXCEPT ![t] = deployed]
    /\ UNCHANGED <<network, browser, page, cut, spent>>
ChunkFails(t) ==
    /\ Up(t) /\ Idle(t) /\ ChunkMissing(t)
    /\ Claim(t)
    /\ heal' = [heal EXCEPT ![t] = "handover"]
    /\ target' = [target EXCEPT ![t] = deployed]
    /\ UNCHANGED <<network, browser, page, cut, spent>>

\* awaitEscape answers with the hand-over; awaitWaitingWorker checks for an update
\* unless a worker waits: one waits, or is being installed, or is not coming.  A
\* registration another tab dropped has none, and nothing to drop: before ("dead", and
\* the reload takes what is registered since, as the last resort's does) or "stray".
HandOver(t) ==
    /\ heal[t] = "handover" /\ page[t].reg \in {"live", "dead"}
    /\ reg' = IF page[t].reg = "live" /\ reg.waiting = None THEN Checked ELSE reg
    /\ heal' = [heal EXCEPT ![t] =
                  IF page[t].reg = "dead" THEN "last"
                  ELSE IF reg'.waiting = None /\ reg'.installing = None THEN "found" ELSE "install"]
    /\ UNCHANGED <<network, skip, page, guard, history>>

\* Mutant: the wait has no timer, and is not told that the registration failed.
NeverDeclined(t) == FALSE /\ UNCHANGED vars
\* It was declined, or the wait ended: getRegistration() instead, and the last resort
\* where that rejects.
NoHandOver(t) ==
    /\ heal[t] = "handover" /\ page[t].reg \in {"pending", "failed"}
    /\ \E stage \in {"last", IF reg = NoReg THEN "plain" ELSE "found"} : heal' = [heal EXCEPT ![t] = stage]
    /\ UNCHANGED <<network, browser, page, guard, history>>

\* It waits, or took over because none was active.
TookOver == reg.installing = None /\ reg.active = deployed

WorkerArrives(t) ==
    /\ heal[t] = "install"
    /\ reg.waiting # None \/ TookOver
    /\ Apply(t, "heal")
    /\ heal' = [heal EXCEPT ![t] = "idle"]
    /\ UNCHANGED <<network, guard, history>>

\* The install failed, or STALE_WORKER_WAIT_MS have passed.
NoWorkerArrives(t) ==
    /\ heal[t] \in {"install", "stray"}
    /\ heal[t] = "install" => reg.waiting = None /\ ~TookOver
    /\ heal' = [heal EXCEPT ![t] = IF @ = "stray" THEN "plain" ELSE "found"]
    /\ UNCHANGED <<network, browser, page, guard, history>>

Probing(t) == heal[t] \in {"found", "plain", "last"}

\* Mutant: the reload is not gated on the network.
ReloadAnyway(t) ==
    /\ Probing(t) /\ ~online
    /\ heal' = [heal EXCEPT ![t] = "reload"]
    /\ reg' = IF heal[t] = "found" THEN NoReg ELSE reg
    /\ UNCHANGED <<network, skip, page, guard, history>>
\* networkReachable is false: nothing is done, and the claim is handed back.
Unreachable(t) ==
    /\ Probing(t) /\ ~online
    /\ Release(t)
    /\ heal' = [heal EXCEPT ![t] = "idle"]
    /\ target' = [target EXCEPT ![t] = None]
    /\ UNCHANGED <<network, browser, page, cut, spent>>

\* The registration is dropped for every tab; a worker told to skip waiting goes too.
Strayed(h) == IF h = "found" THEN "plain" ELSE IF h = "install" THEN "stray" ELSE h
\* Mutant: a plain reload, as before issue #158.
DropNothing(t) == heal' = [heal EXCEPT ![t] = "reload"] /\ UNCHANGED <<browser, page>>
Drop(t) ==
    /\ reg' = NoReg /\ skip' = None
    /\ heal' = [u \in Tabs |-> IF u = t THEN "reload" ELSE Strayed(heal[u])]
    /\ page' = [u \in Tabs |-> IF page[u].reg = "live" THEN [page[u] EXCEPT !.reg = "dead"] ELSE page[u]]

Reachable(t) ==
    /\ Probing(t) /\ online
    /\ IF heal[t] = "found"
       THEN Drop(t)
       ELSE /\ heal' = [heal EXCEPT ![t] = IF @ = "last" THEN "anyway" ELSE "reload"]
            /\ UNCHANGED <<browser, page>>
    /\ UNCHANGED <<network, guard, history>>

\* unregister() rejects: the last resort probes once more, with nothing to drop.
UnregisterFails(t) ==
    /\ heal[t] = "found" /\ online
    /\ heal' = [heal EXCEPT ![t] = "last"]
    /\ UNCHANGED <<network, browser, page, guard, history>>

NetReload(t) ==
    /\ heal[t] \in {"reload", "anyway"}
    /\ Load({t}, Navigated)
    /\ spent' = [spent EXCEPT ![t] = @ + 1]
    /\ UNCHANGED <<network, browser, guard>>

Recovers(t) ==
    \/ HandOver(t) \/ NoHandOver(t) \/ WorkerArrives(t) \/ NoWorkerArrives(t)
    \/ Unreachable(t) \/ Reachable(t) \/ UnregisterFails(t) \/ NetReload(t)

Next ==
    \/ Deploy \/ GoesDown \/ ComesUp \/ Installed \/ InstallFails \/ Activate
    \/ \E t \in Tabs :
        \/ UserReload(t) \/ Register(t) \/ RegisterFails(t) \/ Poll(t)
        \/ Dismiss(t) \/ ClickReload(t) \/ FallbackReload(t) \/ Remount(t)
        \/ GuardAges(t) \/ ChunkFails(t) \/ Recovers(t)

Spec == Init /\ [][Next]_vars

\* The browser runs timers, answers waits and hands over when it was asked to.
FairSpec == Spec /\ WF_vars(Activate)
                 /\ \A t \in Tabs : WF_vars(FallbackReload(t)) /\ WF_vars(Recovers(t))

-----------------------------------------------------------------------------
Registrations == [active : 0..MaxBuild, waiting : 0..MaxBuild, installing : 0..MaxBuild]
Pages == [shell : 0..MaxBuild, controlled : BOOLEAN, reg : {"pending", "live", "failed", "dead"},
          heard : Nat, dismissed : Nat, refused : 0..MaxBuild, listens : BOOLEAN,
          applying : BOOLEAN, timer : {"off", "user", "heal"}]
Stages == {"idle", "handover", "install", "stray", "found", "plain", "last", "reload", "anyway"}

TypeOK ==
    /\ deployed \in Builds /\ online \in BOOLEAN /\ outages \in 0..MaxOutages /\ prompt \in BOOLEAN
    /\ reg \in Registrations /\ skip \in 0..MaxBuild
    /\ page \in [Tabs -> Pages]
    /\ guard \in [Tabs -> {"free", "held", "blocked"}]
    /\ heal \in [Tabs -> Stages]
    /\ cut \in [Tabs -> BOOLEAN] /\ target \in [Tabs -> 0..MaxBuild] /\ spent \in [Tabs -> Nat]

\* "at most one recovery per tab per five minutes" (pwa-update.ts): the recovery
\* never reloads a tab twice while one claim stands, although a claim is handed
\* back when nothing came of it, and although a page forgets everything but the claim.
OneReloadPerClaim == \A t \in Tabs : spent[t] <= 1

\* The recovery never trades a page for the browser's error page, unless the network
\* went away after it had answered the probe, or another tab's recovery dropped the
\* worker that was to serve the reload.
RecoveryKeepsThePage ==
    [][\A t \in Tabs : Up(t) /\ ~Up(t)' =>
          \/ page[t].applying \/ UserReload(t)
          \/ cut[t]
          \/ page[t].timer = "heal" /\ reg.active = None]_vars

ReloadsToHeal(t) ==
    \/ heal[t] = "reload" /\ NetReload(t)
    \/ page[t].timer = "heal" /\ (FallbackReload(t) \/ (Activate /\ page'[t] # page[t]))

\* What the recovery loads is never the build that was gone when it began.  The cases
\* where it may ("anyway"): the browser could not look up or drop the registration, or another tab's
\* recovery had dropped the one this tab holds, and a registration made since is not
\* looked up.  Or that build's worker was the one that waited, the page having been
\* loaded past the worker.
RecoveryLeavesTheBuild ==
    [][\A t \in Tabs : ReloadsToHeal(t) /\ prompt /\ page[t].shell # target[t] =>
          \/ page'[t].shell # page[t].shell
          \/ page[t].timer = "heal" /\ ~page[t].controlled]_vars

\* "escape the service worker that served it and land on whatever the server serves
\* now" (startStaleShellRecovery): once the registration is dropped, never on a build
\* older than that.  A worker that waits is taken as it is, and may be older.
RecoveryLandsOnTheDeployment ==
    [][\A t \in Tabs : heal[t] = "reload" /\ NetReload(t) /\ Up(t)' => page'[t].shell >= target[t]]_vars

\* What makes a claim worth one reload: a recovery under way, and a reload it has armed,
\* hold a claim that no reload has been made on, and there is only one of the two.
ClaimsAreUnspent ==
    \A t \in Tabs :
        /\ ~Idle(t) \/ page[t].timer = "heal" => guard[t] = "held" /\ spent[t] = 0
        /\ page[t].timer = "heal" => Idle(t)
        /\ guard[t] = "free" => spent[t] = 0
        /\ page[t].timer = "user" => page[t].applying

\* A recovery that is about to reload has seen the network, or lost it since.
ReloadsSawTheNetwork == \A t \in Tabs : heal[t] \in {"reload", "anyway"} => online \/ cut[t]

\* Whoever has dismissed the notice still hears of a later worker: a waiting worker
\* is announced in every registered tab, or it is the one that was dismissed there.
LaterUpdatesAreAnnounced ==
    \A t \in Tabs : page[t].reg = "live" /\ reg.waiting # None =>
        Visible(page[t]) \/ page[t].refused = reg.waiting

\* "That click must always visibly do something": a Reload click ends in a navigation,
\* unless the notice is taken down first.
ClickTakesEffect == \A t \in Tabs : page[t].applying ~> ~page[t].applying

\* A recovery comes to an end, whatever the registration, the network and the other
\* tabs do: every wait in it is bounded.
RecoveryEnds == \A t \in Tabs : ~Idle(t) ~> Idle(t)

\* The inductive invariant of the proofs.
IInv == TypeOK /\ OneReloadPerClaim /\ ClaimsAreUnspent /\ ReloadsSawTheNetwork
=============================================================================
