------------------------- MODULE ShellUpdateProofs -------------------------
(***************************************************************************)
(* For any number of tabs, builds and outages: a claim is worth one reload,*)
(* and the recovery never trades a page for the browser's error page.      *)
(***************************************************************************)
EXTENDS ShellUpdate, TLAPS

(* The operators the actions are built from *)

LEMMA FreshIsAPage ==
    ASSUME ShellAssumption, NEW b \in 0..MaxBuild, NEW c \in BOOLEAN
    PROVE  /\ Fresh(b, c) \in Pages
           /\ Fresh(b, c).timer = "off" /\ Fresh(b, c).applying = FALSE /\ Fresh(b, c).shell = b
           /\ Fresh(b, c).controlled = c /\ Fresh(b, c).reg = "pending"
           /\ Fresh(b, c).heard = 0 /\ Fresh(b, c).dismissed = 0
BY DEF Fresh, Pages, None, ShellAssumption

LEMMA NavigatedIsAPage ==
    ASSUME ShellAssumption, TypeOK
    PROVE  /\ Navigated \in Pages
           /\ Navigated.timer = "off" /\ Navigated.applying = FALSE
           /\ Navigated.shell = None => reg.active = None /\ ~online
<1>1. reg.active \in 0..MaxBuild /\ deployed \in 1..MaxBuild /\ None \in 0..MaxBuild /\ online \in BOOLEAN
  BY DEF TypeOK, Registrations, Builds, None, ShellAssumption
<1>2. CASE reg.active # None
  BY <1>1, <1>2, FreshIsAPage DEF Navigated
<1>3. CASE reg.active = None /\ online
  <2>1. deployed \in 0..MaxBuild /\ deployed # None
    BY <1>1 DEF None, ShellAssumption
  <2> QED
    BY <1>3, <2>1, FreshIsAPage DEF Navigated
<1>4. CASE reg.active = None /\ ~online
  BY <1>1, <1>4, FreshIsAPage DEF Navigated
<1> QED
  BY <1>1, <1>2, <1>3, <1>4

LEMMA CheckedIsARegistration ==
    ASSUME ShellAssumption, TypeOK
    PROVE  Checked \in Registrations
BY DEF Checked, TypeOK, Registrations, Builds, ShellAssumption

LEMMA HearsIsAPage ==
    ASSUME NEW p \in Pages
    PROVE  /\ Hears(p) \in Pages
           /\ Hears(p).timer = p.timer /\ Hears(p).applying = p.applying /\ Hears(p).shell = p.shell
           /\ Hears(p).controlled = p.controlled /\ Hears(p).reg = p.reg
           /\ Hears(p).dismissed = p.dismissed /\ Hears(p).heard = IF p.reg = "live" THEN p.heard + 1 ELSE p.heard
<1>1. CASE p.reg = "live"
  <2> DEFINE q == [p EXCEPT !.heard = @ + 1, !.listens = TRUE]
  <2>0. p.heard + 1 \in Nat
    BY DEF Pages
  <2>1. q \in Pages
    BY <2>0 DEF Pages
  <2>2. /\ q.timer = p.timer /\ q.applying = p.applying /\ q.shell = p.shell
        /\ q.controlled = p.controlled /\ q.reg = p.reg /\ q.dismissed = p.dismissed /\ q.heard = p.heard + 1
    BY DEF Pages
  <2>3. Hears(p) = q
    BY <1>1 DEF Hears
  <2> HIDE DEF q
  <2> QED
    BY <1>1, <2>1, <2>2, <2>3
<1>2. CASE p.reg # "live"
  BY <1>2 DEF Hears
<1> QED
  BY <1>1, <1>2

\* The claims after a step: the part of the invariant that a page load can break.
LoadsPages(loaded) ==
    /\ \A t \in Tabs : t \in loaded => page'[t].timer = "off" /\ heal'[t] = "idle"
    /\ \A t \in Tabs : t \notin loaded => page'[t] = page[t] /\ heal'[t] = heal[t] /\ cut'[t] = cut[t]

LEMMA LoadEffect ==
    ASSUME ShellAssumption, TypeOK, NEW loaded, NEW new \in Pages, new.timer = "off", Load(loaded, new)
    PROVE  /\ LoadsPages(loaded) /\ \A t \in Tabs : t \in loaded => page'[t] = new
           /\ page' \in [Tabs -> Pages] /\ heal' \in [Tabs -> Stages]
           /\ cut' \in [Tabs -> BOOLEAN] /\ target' \in [Tabs -> 0..MaxBuild]
<1>1. page' \in [Tabs -> Pages]
  BY DEF Load, TypeOK
<1>2. heal' \in [Tabs -> Stages]
  BY DEF Load, TypeOK, Stages
<1>3. cut' \in [Tabs -> BOOLEAN]
  BY DEF Load, TypeOK
<1>4. target' \in [Tabs -> 0..MaxBuild]
  BY DEF Load, TypeOK, None, ShellAssumption
<1>5. \A t \in Tabs : t \in loaded => page'[t] = new /\ heal'[t] = "idle"
  BY DEF Load
<1>6. \A t \in Tabs : t \notin loaded => page'[t] = page[t] /\ heal'[t] = heal[t] /\ cut'[t] = cut[t]
  <2> SUFFICES ASSUME NEW t \in Tabs, t \notin loaded
               PROVE  page'[t] = page[t] /\ heal'[t] = heal[t] /\ cut'[t] = cut[t]
    OBVIOUS
  <2>1. cut[t] \in BOOLEAN
    BY DEF TypeOK
  <2> QED
    BY <2>1 DEF Load
<1> QED
  BY <1>1, <1>2, <1>3, <1>4, <1>5, <1>6 DEF LoadsPages

\* A step that loads pages keeps the claims when each load the recovery made is counted
\* once, and only those.
LEMMA LoadKeepsClaims ==
    ASSUME IInv, NEW loaded, LoadsPages(loaded), guard' = guard,
           page' \in [Tabs -> Pages], spent' \in [Tabs -> Nat],
           online' = online,
           \A t \in Tabs : spent'[t] = spent[t]
                           \/ (t \in loaded /\ spent'[t] = spent[t] + 1
                               /\ (page[t].timer = "heal" \/ ~Idle(t)))
    PROVE  OneReloadPerClaim' /\ ClaimsAreUnspent' /\ ReloadsSawTheNetwork'
<1>1. OneReloadPerClaim'
  BY DEF IInv, OneReloadPerClaim, ClaimsAreUnspent, TypeOK
<1>2. ClaimsAreUnspent'
  <2> SUFFICES ASSUME NEW t \in Tabs
               PROVE  /\ heal'[t] # "idle" \/ page'[t].timer = "heal" => guard'[t] = "held" /\ spent'[t] = 0
                      /\ page'[t].timer = "heal" => heal'[t] = "idle"
                      /\ guard'[t] = "free" => spent'[t] = 0
                      /\ page'[t].timer = "user" => page'[t].applying
    BY DEF ClaimsAreUnspent, Idle
  <2>1. CASE t \in loaded
    BY <2>1 DEF LoadsPages, IInv, ClaimsAreUnspent, Idle
  <2>2. CASE t \notin loaded
    BY <2>2 DEF LoadsPages, IInv, ClaimsAreUnspent, Idle
  <2> QED
    BY <2>1, <2>2
<1>3. ReloadsSawTheNetwork'
  BY DEF IInv, ReloadsSawTheNetwork, LoadsPages
<1> QED
  BY <1>1, <1>2, <1>3

-----------------------------------------------------------------------------
(* Steps that load nothing *)

\* Such a step keeps the claims when it only arms a reload in place of the recovery
\* under way, or ends or begins a recovery with its claim.
TimersStay(t) ==
    /\ page'[t].timer = "heal" => page[t].timer = "heal" \/ (heal[t] # "idle" /\ heal'[t] = "idle")
    /\ page'[t].timer = "user" => page'[t].applying
ClaimStays(t) ==
    /\ spent'[t] = spent[t]
    /\ \/ guard'[t] = guard[t] /\ (heal[t] = "idle" => heal'[t] = "idle")
       \/ guard[t] = "free" /\ guard'[t] = "held"
       \/ guard'[t] = "free" /\ heal[t] # "idle" /\ heal'[t] = "idle" /\ page'[t] = page[t]

LEMMA QuietKeepsClaims ==
    ASSUME IInv, \A t \in Tabs : TimersStay(t) /\ ClaimStays(t)
    PROVE  OneReloadPerClaim' /\ ClaimsAreUnspent'
<1>1. OneReloadPerClaim'
  BY DEF IInv, OneReloadPerClaim, ClaimStays
<1>2. ClaimsAreUnspent'
  <2> SUFFICES ASSUME NEW t \in Tabs
               PROVE  /\ heal'[t] # "idle" \/ page'[t].timer = "heal" => guard'[t] = "held" /\ spent'[t] = 0
                      /\ page'[t].timer = "heal" => heal'[t] = "idle"
                      /\ guard'[t] = "free" => spent'[t] = 0
                      /\ page'[t].timer = "user" => page'[t].applying
    BY DEF ClaimsAreUnspent, Idle
  <2>1. TimersStay(t) /\ ClaimStays(t)
    OBVIOUS
  <2>2. /\ heal[t] # "idle" \/ page[t].timer = "heal" => guard[t] = "held" /\ spent[t] = 0
        /\ page[t].timer = "heal" => heal[t] = "idle"
        /\ guard[t] = "free" => spent[t] = 0
    BY DEF IInv, ClaimsAreUnspent, Idle
  <2> QED
    BY <2>1, <2>2 DEF TimersStay, ClaimStays
<1> QED
  BY <1>1, <1>2

\* A step of the network, the registration or a page that leaves every recovery alone.
LEMMA BystanderKeeps ==
    ASSUME IInv, TypeOK', UNCHANGED <<guard, heal, spent>>,
           \A t \in Tabs : \/ page'[t].timer = page[t].timer /\ (page[t].applying => page'[t].applying)
                           \/ page'[t].timer = "off"
                           \/ page'[t].timer = "user" /\ page'[t].applying,
           \A t \in Tabs : heal[t] \in {"reload", "anyway"} /\ (online \/ cut[t]) => online' \/ cut'[t]
    PROVE  IInv'
<1>1. \A t \in Tabs : TimersStay(t) /\ ClaimStays(t)
  BY DEF TimersStay, ClaimStays, IInv, ClaimsAreUnspent
<1>2. ReloadsSawTheNetwork'
  BY DEF IInv, ReloadsSawTheNetwork
<1> QED
  BY <1>1, <1>2, QuietKeepsClaims DEF IInv

-----------------------------------------------------------------------------
(* The actions *)

LEMMA InitInvariant ==
    ASSUME ShellAssumption, Init
    PROVE  IInv
<1>1. /\ deployed \in Builds /\ online \in BOOLEAN /\ outages \in 0..MaxOutages /\ prompt \in BOOLEAN
      /\ reg \in Registrations /\ skip \in 0..MaxBuild
  BY DEF Init, NoReg, Registrations, None, Builds, ShellAssumption
<1>2. Navigated \in Pages /\ Navigated.timer = "off"
  <2>1. reg.active \in 0..MaxBuild /\ deployed \in 0..MaxBuild /\ None \in 0..MaxBuild
    BY <1>1 DEF Registrations, Builds, None, ShellAssumption
  <2>2. Navigated \in {Fresh(reg.active, TRUE), Fresh(deployed, FALSE), Fresh(None, FALSE)}
    BY DEF Navigated
  <2>3. \A b \in 0..MaxBuild, c \in BOOLEAN : Fresh(b, c) \in Pages /\ Fresh(b, c).timer = "off"
    BY FreshIsAPage
  <2> QED
    BY <2>1, <2>2, <2>3
<1>3. \A t \in Tabs : page[t] = Navigated /\ heal[t] = "idle" /\ spent[t] = 0
  BY DEF Init
<1>4. TypeOK
  <2>1. page \in [Tabs -> Pages]
    BY <1>2 DEF Init
  <2>2. guard \in [Tabs -> {"free", "held", "blocked"}] /\ heal \in [Tabs -> Stages]
    BY DEF Init, Stages
  <2>3. cut \in [Tabs -> BOOLEAN] /\ target \in [Tabs -> 0..MaxBuild] /\ spent \in [Tabs -> Nat]
    BY DEF Init, None, ShellAssumption
  <2> QED
    BY <1>1, <2>1, <2>2, <2>3 DEF TypeOK
<1>5. OneReloadPerClaim
  <2> SUFFICES ASSUME NEW t \in Tabs PROVE spent[t] <= 1
    BY DEF OneReloadPerClaim
  <2>1. spent[t] = 0
    BY <1>3
  <2> QED
    BY <2>1
<1>6. ClaimsAreUnspent
  BY <1>2, <1>3 DEF ClaimsAreUnspent, Idle
<1>7. ReloadsSawTheNetwork
  BY <1>3 DEF ReloadsSawTheNetwork
<1> QED
  BY <1>4, <1>5, <1>6, <1>7 DEF IInv

LEMMA NetworkKeeps ==
    ASSUME ShellAssumption, IInv, Deploy \/ GoesDown \/ ComesUp \/ InstallFails
    PROVE  IInv'
<1>1. UNCHANGED <<page, guard, heal, spent>>
  BY DEF Deploy, GoesDown, ComesUp, InstallFails, history
<1>2. TypeOK'
  <2> USE DEF IInv, TypeOK, network, browser, history
  <2>1. CASE Deploy
    BY <2>1 DEF Deploy, Builds, ShellAssumption
  <2>2. CASE GoesDown
    <3>1. cut' \in [Tabs -> BOOLEAN]
      BY <2>2 DEF GoesDown
    <3>2. online' \in BOOLEAN
      BY <2>2 DEF GoesDown
    <3>3. outages \in 0..MaxOutages /\ outages < MaxOutages /\ outages' = outages + 1 /\ MaxOutages \in Nat
      BY <2>2 DEF GoesDown, ShellAssumption
    <3>4. outages' \in 0..MaxOutages
      BY <3>3
    <3> QED
      BY <2>2, <3>1, <3>2, <3>4 DEF GoesDown
  <2>3. CASE ComesUp
    BY <2>3 DEF ComesUp
  <2>4. CASE InstallFails
    <3>1. reg' \in Registrations
      BY <2>4 DEF InstallFails, Registrations, None, ShellAssumption
    <3> QED
      BY <2>4, <3>1 DEF InstallFails
  <2> QED
    BY <2>1, <2>2, <2>3, <2>4
<1>3. \A t \in Tabs : heal[t] \in {"reload", "anyway"} /\ (online \/ cut[t]) => online' \/ cut'[t]
  BY DEF Deploy, GoesDown, ComesUp, InstallFails, network, history
<1> QED
  BY <1>1, <1>2, <1>3, BystanderKeeps

LEMMA InstalledKeeps ==
    ASSUME ShellAssumption, IInv, Installed
    PROVE  IInv'
<1>1. UNCHANGED <<network, skip, guard, heal, history>>
  BY DEF Installed
<1>2. reg' \in Registrations
  <2>1. None \in 0..MaxBuild /\ reg.installing \in 0..MaxBuild /\ reg \in Registrations
    BY DEF IInv, TypeOK, Registrations, None, ShellAssumption
  <2>2. /\ [NoReg EXCEPT !.active = reg.installing] \in Registrations
        /\ [reg EXCEPT !.waiting = reg.installing, !.installing = None] \in Registrations
    BY <2>1 DEF Registrations, NoReg
  <2> QED
    BY <2>2 DEF Installed
<1>3. /\ page' \in [Tabs -> Pages]
      /\ \A t \in Tabs : page'[t].timer = page[t].timer /\ page'[t].applying = page[t].applying
  <2>1. \A t \in Tabs : page[t] \in Pages
    BY DEF IInv, TypeOK
  <2>2. CASE page' = [t \in Tabs |-> Hears(page[t])]
    BY <2>1, <2>2, HearsIsAPage
  <2>3. CASE page' = page
    BY <2>3 DEF IInv, TypeOK
  <2> QED
    BY <2>2, <2>3 DEF Installed
<1>4. TypeOK'
  BY <1>1, <1>2, <1>3 DEF IInv, TypeOK, network, history
<1> QED
  BY <1>1, <1>3, <1>4, BystanderKeeps DEF network, history

\* A step of one tab's notice: its page is replaced, and maybe the registration.
LEMMA NoticeKeeps ==
    ASSUME IInv, NEW t \in Tabs, NEW p \in Pages, page' = [page EXCEPT ![t] = p],
           reg' \in Registrations, skip' \in 0..MaxBuild, UNCHANGED <<network, guard, heal, history>>,
           \/ p.timer = page[t].timer /\ (page[t].applying => p.applying)
           \/ p.timer = "off"
           \/ p.timer = "user" /\ p.applying
    PROVE  IInv'
<1>1. page' \in [Tabs -> Pages] /\ page'[t] = p /\ \A u \in Tabs \ {t} : page'[u] = page[u]
  BY DEF IInv, TypeOK
<1>2. TypeOK'
  BY <1>1 DEF IInv, TypeOK, network, history
<1> QED
  BY <1>1, <1>2, BystanderKeeps DEF network, history

LEMMA RegisterKeeps ==
    ASSUME ShellAssumption, IInv, NEW t \in Tabs, Register(t) \/ RegisterFails(t) \/ Poll(t)
    PROVE  IInv'
<1>1. page[t] \in Pages /\ page \in [Tabs -> Pages] /\ reg \in Registrations /\ skip \in 0..MaxBuild
  BY DEF IInv, TypeOK
<1>2. Checked \in Registrations
  BY CheckedIsARegistration DEF IInv
<1>3. CASE Register(t)
  <2> DEFINE q == [page[t] EXCEPT !.reg = "live"]
             p == IF reg.waiting # None THEN Hears(q) ELSE q
  <2>1. q \in Pages /\ q.timer = page[t].timer /\ q.applying = page[t].applying
    BY <1>1 DEF Pages
  <2>2. page' = [page EXCEPT ![t] = p] /\ reg' = Checked /\ UNCHANGED <<network, skip, guard, heal, history>>
    BY <1>3 DEF Register
  <2> HIDE DEF q
  <2>3. p \in Pages /\ p.timer = page[t].timer /\ p.applying = page[t].applying
    BY <2>1, HearsIsAPage
  <2> HIDE DEF p
  <2> QED
    BY <1>1, <1>2, <2>2, <2>3, NoticeKeeps
<1>4. CASE RegisterFails(t)
  <2> DEFINE p == [page[t] EXCEPT !.reg = "failed"]
  <2>1. p \in Pages /\ p.timer = page[t].timer /\ p.applying = page[t].applying
    BY <1>1 DEF Pages
  <2>2. page' = [page EXCEPT ![t] = p] /\ UNCHANGED <<network, reg, skip, guard, heal, history>>
    BY <1>4 DEF RegisterFails, browser
  <2> HIDE DEF p
  <2> QED
    BY <1>1, <2>1, <2>2, NoticeKeeps
<1>5. CASE Poll(t)
  <2>1. page' = page /\ reg' = Checked /\ UNCHANGED <<network, skip, guard, heal, history>>
    BY <1>5 DEF Poll
  <2>2. page' = [page EXCEPT ![t] = page[t]]
    BY <1>1, <2>1
  <2> QED
    BY <1>1, <1>2, <2>1, <2>2, NoticeKeeps
<1> QED
  BY <1>3, <1>4, <1>5

LEMMA NoticeClicksKeep ==
    ASSUME ShellAssumption, IInv, NEW t \in Tabs, Dismiss(t) \/ ClickReload(t) \/ Remount(t)
    PROVE  IInv'
<1>1. /\ page[t] \in Pages /\ page \in [Tabs -> Pages] /\ reg \in Registrations /\ skip \in 0..MaxBuild
      /\ reg.waiting \in 0..MaxBuild
  BY DEF IInv, TypeOK, Registrations
<1>2. CASE Dismiss(t)
  <2> DEFINE p == [page[t] EXCEPT !.dismissed = page[t].heard, !.refused = reg.waiting]
  <2>1. p \in Pages
    BY <1>1 DEF Pages
  <2>2. p.timer = page[t].timer /\ p.applying = page[t].applying
    BY <1>1 DEF Pages
  <2>3. page' = [page EXCEPT ![t] = p] /\ UNCHANGED <<network, reg, skip, guard, heal, history>>
    BY <1>2 DEF Dismiss, browser
  <2> HIDE DEF p
  <2> QED
    BY <1>1, <2>1, <2>2, <2>3, NoticeKeeps
<1>3. CASE ClickReload(t)
  <2> DEFINE p == [page[t] EXCEPT !.timer = "user", !.applying = TRUE]
             q == [page[t] EXCEPT !.timer = IF page[t].timer = "heal" THEN page[t].timer ELSE "user",
                                  !.applying = TRUE]
  <2>1. p \in Pages /\ q \in Pages
    BY <1>1 DEF Pages
  <2>2. p.timer = "user" /\ p.applying /\ q.applying /\ q.timer \in {"user", page[t].timer}
    BY <1>1 DEF Pages
  <2>3. page' = [page EXCEPT ![t] = p] \/ page' = [page EXCEPT ![t] = q]
    BY <1>3 DEF ClickReload, Apply
  <2>4. reg' = reg /\ skip' \in 0..MaxBuild /\ UNCHANGED <<network, guard, heal, history>>
    BY <1>1, <1>3 DEF ClickReload, Apply, browser
  <2> HIDE DEF p, q
  <2> QED
    BY <1>1, <2>1, <2>2, <2>3, <2>4, NoticeKeeps
<1>4. CASE Remount(t)
  <2> DEFINE f == Fresh(page[t].shell, page[t].controlled)
             p == [f EXCEPT !.listens = page[t].listens,
                            !.timer = IF page[t].timer = "heal" THEN "heal" ELSE "off"]
  <2>1. f \in Pages
    BY <1>1, FreshIsAPage DEF Pages
  <2>2. page' = [page EXCEPT ![t] = p] /\ UNCHANGED <<network, reg, skip, guard, heal, history>>
    BY <1>4 DEF Remount, browser
  <2> HIDE DEF f
  <2>3. p \in Pages
    BY <1>1, <2>1 DEF Pages
  <2>4. p.timer \in {"heal", "off"} /\ (p.timer = "heal" => page[t].timer = "heal")
    BY <1>1, <2>1 DEF Pages
  <2> HIDE DEF p
  <2>5. p.timer = "heal" => IInv'
    <3> SUFFICES ASSUME p.timer = "heal" PROVE IInv'
      OBVIOUS
    <3>1. page' \in [Tabs -> Pages] /\ page'[t] = p /\ \A u \in Tabs \ {t} : page'[u] = page[u]
      BY <1>1, <2>2, <2>3
    <3>2. TypeOK'
      BY <2>2, <3>1 DEF IInv, TypeOK, network, history
    <3>3. \A u \in Tabs : TimersStay(u) /\ ClaimStays(u)
      BY <2>2, <2>4, <3>1 DEF TimersStay, ClaimStays, history, IInv, ClaimsAreUnspent
    <3>4. ReloadsSawTheNetwork'
      BY <2>2 DEF IInv, ReloadsSawTheNetwork, network, history
    <3> QED
      BY <3>2, <3>3, <3>4, QuietKeepsClaims DEF IInv
  <2> QED
    BY <1>1, <2>2, <2>3, <2>4, <2>5, NoticeKeeps
<1> QED
  BY <1>2, <1>3, <1>4

-----------------------------------------------------------------------------
(* Loads *)

LEMMA TabLoadKeeps ==
    ASSUME ShellAssumption, IInv, NEW t \in Tabs, UserReload(t) \/ FallbackReload(t) \/ NetReload(t)
    PROVE  IInv'
<1>1. PICK new \in Pages : Load({t}, new) /\ new.timer = "off"
  <2>1. Navigated \in Pages /\ Navigated.timer = "off"
    BY NavigatedIsAPage DEF IInv
  <2>2. deployed \in 0..MaxBuild
    BY DEF IInv, TypeOK, Builds
  <2>3. Fresh(deployed, FALSE) \in Pages /\ Fresh(deployed, FALSE).timer = "off"
    BY <2>2, FreshIsAPage
  <2> QED
    BY <2>1, <2>3 DEF UserReload, FallbackReload, NetReload
<1>2. /\ LoadsPages({t})
      /\ page' \in [Tabs -> Pages] /\ heal' \in [Tabs -> Stages]
      /\ cut' \in [Tabs -> BOOLEAN] /\ target' \in [Tabs -> 0..MaxBuild]
  BY <1>1, LoadEffect DEF IInv
<1>3. UNCHANGED <<network, browser, guard>>
  BY DEF UserReload, FallbackReload, NetReload
<1>4. /\ spent' \in [Tabs -> Nat]
      /\ \A u \in Tabs : spent'[u] = spent[u]
                         \/ (u \in {t} /\ spent'[u] = spent[u] + 1
                             /\ (page[u].timer = "heal" \/ ~Idle(u)))
  <2>1. spent \in [Tabs -> Nat] /\ spent[t] + 1 \in Nat
    BY DEF IInv, TypeOK
  <2>2. CASE spent' = spent
    BY <2>1, <2>2
  <2>3. CASE spent' = [spent EXCEPT ![t] = @ + 1] /\ (page[t].timer = "heal" \/ ~Idle(t))
    BY <2>1, <2>3
  <2>4. spent' = [spent EXCEPT ![t] = spent[t]] => spent' = spent
    BY <2>1
  <2> QED
    BY <2>2, <2>3, <2>4 DEF UserReload, FallbackReload, NetReload, Idle
<1>5. TypeOK'
  BY <1>2, <1>3, <1>4 DEF IInv, TypeOK, network, browser
<1> QED
  BY <1>2, <1>3, <1>4, <1>5, LoadKeepsClaims DEF IInv, network

\* The worker that takes over, with the pages it reloads: one of a build, not an error page.
LEMMA ActivateEffect ==
    ASSUME ShellAssumption, IInv, Activate
    PROVE  \/ UNCHANGED <<network, reg, page, heal, history, guard>> /\ skip' \in 0..MaxBuild
           \/ \E loaded \in SUBSET Tabs, new \in Pages :
                /\ Load(loaded, new) /\ new.timer = "off" /\ new.shell # None
                /\ reg' \in Registrations /\ skip' \in 0..MaxBuild /\ UNCHANGED <<network, guard>>
                /\ spent' = [t \in Tabs |-> IF t \in loaded /\ page[t].timer = "heal"
                                            THEN spent[t] + 1 ELSE spent[t]]
<1>1. skip' = None /\ None \in 0..MaxBuild /\ reg \in Registrations /\ reg.waiting \in 0..MaxBuild
  BY DEF Activate, None, ShellAssumption, IInv, TypeOK, Registrations
<1>2. CASE skip = reg.waiting
  <2> DEFINE over == {t \in Tabs : page[t].controlled /\ page[t].listens}
             new == Fresh(reg.waiting, TRUE)
  <2>1. new \in Pages /\ new.timer = "off" /\ new.shell = reg.waiting
    BY <1>1, FreshIsAPage
  <2>2. /\ reg' = [reg EXCEPT !.active = reg.waiting, !.waiting = None] /\ Load(over, new)
        /\ spent' = [t \in Tabs |-> IF t \in over /\ page[t].timer = "heal"
                                    THEN spent[t] + 1 ELSE spent[t]]
        /\ reg.waiting # None /\ UNCHANGED <<network, guard>>
    BY <1>2 DEF Activate
  <2>3. reg' \in Registrations
    BY <1>1, <2>2 DEF Registrations
  <2>4. over \in SUBSET Tabs
    OBVIOUS
  <2> HIDE DEF over, new
  <2> QED
    BY <1>1, <2>1, <2>2, <2>3, <2>4
<1>3. CASE skip # reg.waiting
  BY <1>1, <1>3 DEF Activate
<1> QED
  BY <1>2, <1>3

LEMMA ActivateKeeps ==
    ASSUME ShellAssumption, IInv, Activate
    PROVE  IInv'
<1>1. CASE UNCHANGED <<network, reg, page, heal, history, guard>> /\ skip' \in 0..MaxBuild
  <2>1. TypeOK'
    BY <1>1 DEF IInv, TypeOK, network, history
  <2> QED
    BY <1>1, <2>1, BystanderKeeps DEF network, history
<1>2. ASSUME NEW loaded \in SUBSET Tabs, NEW new \in Pages,
             Load(loaded, new), new.timer = "off", reg' \in Registrations, skip' \in 0..MaxBuild,
             UNCHANGED <<network, guard>>,
             spent' = [t \in Tabs |-> IF t \in loaded /\ page[t].timer = "heal"
                                      THEN spent[t] + 1 ELSE spent[t]]
      PROVE  IInv'
  <2>1. /\ LoadsPages(loaded)
        /\ page' \in [Tabs -> Pages] /\ heal' \in [Tabs -> Stages]
        /\ cut' \in [Tabs -> BOOLEAN] /\ target' \in [Tabs -> 0..MaxBuild]
    BY <1>2, LoadEffect DEF IInv
  <2>2. spent \in [Tabs -> Nat]
    BY DEF IInv, TypeOK
  <2>3. \A t \in Tabs : spent'[t] = spent[t]
                        \/ (t \in loaded /\ spent'[t] = spent[t] + 1 /\ (page[t].timer = "heal" \/ ~Idle(t)))
    BY <1>2, <2>2
  <2>4. spent' \in [Tabs -> Nat]
    <3>1. \A t \in Tabs : spent[t] \in Nat /\ spent[t] + 1 \in Nat
      BY <2>2
    <3> QED
      BY <1>2, <3>1
  <2>5. TypeOK'
    BY <1>2, <2>1, <2>4 DEF IInv, TypeOK, network
  <2> QED
    BY <1>2, <2>1, <2>3, <2>4, <2>5, LoadKeepsClaims DEF IInv, network
<1> QED
  BY <1>1, <1>2, ActivateEffect

-----------------------------------------------------------------------------
(* The recovery *)

LEMMA ClaimKeeps ==
    ASSUME ShellAssumption, IInv, NEW t \in Tabs, GuardAges(t) \/ ChunkFails(t) \/ Unreachable(t)
    PROVE  IInv'
<1>1. /\ guard \in [Tabs -> {"free", "held", "blocked"}] /\ heal \in [Tabs -> Stages]
      /\ spent \in [Tabs -> Nat] /\ target \in [Tabs -> 0..MaxBuild] /\ deployed \in 0..MaxBuild
  BY DEF IInv, TypeOK, Builds
<1>2. CASE GuardAges(t)
  <2>1. TypeOK'
    BY <1>1, <1>2 DEF GuardAges, IInv, TypeOK, network, browser
  <2>2. OneReloadPerClaim'
    BY <1>1, <1>2 DEF GuardAges, IInv, OneReloadPerClaim
  <2>3. ClaimsAreUnspent'
    BY <1>1, <1>2 DEF GuardAges, IInv, ClaimsAreUnspent, Idle
  <2>4. ReloadsSawTheNetwork'
    BY <1>2 DEF GuardAges, IInv, ReloadsSawTheNetwork, network
  <2> QED
    BY <2>1, <2>2, <2>3, <2>4 DEF IInv
<1>3. CASE ChunkFails(t)
  <2>1. TypeOK'
    BY <1>1, <1>3 DEF ChunkFails, Claim, IInv, TypeOK, Stages, network, browser
  <2>2. \A u \in Tabs : TimersStay(u) /\ ClaimStays(u)
    BY <1>1, <1>3 DEF ChunkFails, Claim, TimersStay, ClaimStays, IInv, ClaimsAreUnspent
  <2>3. ReloadsSawTheNetwork'
    BY <1>1, <1>3 DEF ChunkFails, IInv, ReloadsSawTheNetwork, network
  <2> QED
    BY <2>1, <2>2, <2>3, QuietKeepsClaims DEF IInv
<1>4. CASE Unreachable(t)
  <2>1. TypeOK'
    BY <1>1, <1>4 DEF Unreachable, Release, IInv, TypeOK, Stages, None, ShellAssumption, network, browser
  <2>2. \A u \in Tabs : TimersStay(u) /\ ClaimStays(u)
    BY <1>1, <1>4 DEF Unreachable, Release, Probing, TimersStay, ClaimStays, IInv, ClaimsAreUnspent
  <2>3. ReloadsSawTheNetwork'
    BY <1>1, <1>4 DEF Unreachable, IInv, ReloadsSawTheNetwork, network
  <2> QED
    BY <2>1, <2>2, <2>3, QuietKeepsClaims DEF IInv
<1> QED
  BY <1>2, <1>3, <1>4

\* A wait of the recovery that ends keeps the claim, whatever it ended with.
LEMMA WaitKeeps ==
    ASSUME ShellAssumption, IInv, NEW t \in Tabs,
           HandOver(t) \/ NoHandOver(t) \/ NoWorkerArrives(t) \/ UnregisterFails(t)
    PROVE  IInv'
<1>1. PICK stage \in {"install", "found", "plain", "last"} : heal' = [heal EXCEPT ![t] = stage]
  BY DEF HandOver, NoHandOver, NoWorkerArrives, UnregisterFails
<1>2. heal[t] # "idle" /\ UNCHANGED <<network, skip, page, guard, history>>
  BY DEF HandOver, NoHandOver, NoWorkerArrives, UnregisterFails, browser
<1>3. reg' \in Registrations
  BY CheckedIsARegistration DEF HandOver, NoHandOver, NoWorkerArrives, UnregisterFails, browser, IInv, TypeOK
<1>4. heal \in [Tabs -> Stages] /\ heal' \in [Tabs -> Stages]
  BY <1>1 DEF IInv, TypeOK, Stages
<1>5. TypeOK'
  BY <1>2, <1>3, <1>4 DEF IInv, TypeOK, network, history
<1>6. \A u \in Tabs : TimersStay(u) /\ ClaimStays(u)
  BY <1>1, <1>2, <1>4 DEF TimersStay, ClaimStays, history, IInv, ClaimsAreUnspent
<1>7. ReloadsSawTheNetwork'
  BY <1>1, <1>2, <1>4 DEF IInv, ReloadsSawTheNetwork, network, history
<1> QED
  BY <1>5, <1>6, <1>7, QuietKeepsClaims DEF IInv

LEMMA WorkerArrivesKeeps ==
    ASSUME ShellAssumption, IInv, NEW t \in Tabs, WorkerArrives(t)
    PROVE  IInv'
<1> DEFINE p == [page[t] EXCEPT !.timer = IF page[t].timer = "heal" THEN page[t].timer ELSE "heal",
                                !.applying = page[t].applying \/ "heal" = "user"]
<1>1. /\ page[t] \in Pages /\ page \in [Tabs -> Pages] /\ reg.waiting \in 0..MaxBuild
      /\ heal \in [Tabs -> Stages]
  BY DEF IInv, TypeOK, Registrations
<1>2. p \in Pages /\ p.timer = "heal"
  BY <1>1 DEF Pages
<1>3. page' = [page EXCEPT ![t] = p] /\ reg' = reg /\ UNCHANGED <<network, guard, history>>
  BY DEF WorkerArrives, Apply
<1> HIDE DEF p
<1>4. skip' \in 0..MaxBuild
  BY <1>1 DEF WorkerArrives, Apply, IInv, TypeOK
<1>5. page' \in [Tabs -> Pages] /\ page'[t] = p /\ \A u \in Tabs \ {t} : page'[u] = page[u]
  BY <1>1, <1>2, <1>3
<1>6. /\ heal' \in [Tabs -> Stages] /\ heal'[t] = "idle" /\ heal[t] = "install"
      /\ \A u \in Tabs \ {t} : heal'[u] = heal[u]
  BY <1>1 DEF WorkerArrives, Stages
<1>7. TypeOK'
  BY <1>3, <1>4, <1>5, <1>6 DEF IInv, TypeOK, network, history
<1>8. \A u \in Tabs : TimersStay(u) /\ ClaimStays(u)
  BY <1>2, <1>3, <1>5, <1>6 DEF TimersStay, ClaimStays, history, IInv, ClaimsAreUnspent
<1>9. ReloadsSawTheNetwork'
  BY <1>3, <1>6 DEF IInv, ReloadsSawTheNetwork, network, history
<1> QED
  BY <1>7, <1>8, <1>9, QuietKeepsClaims DEF IInv

LEMMA ReachableKeeps ==
    ASSUME ShellAssumption, IInv, NEW t \in Tabs, Reachable(t)
    PROVE  IInv'
<1>1. page \in [Tabs -> Pages] /\ heal \in [Tabs -> Stages]
  BY DEF IInv, TypeOK
<1>2. online /\ heal[t] # "idle" /\ UNCHANGED <<network, guard, history>>
  BY DEF Reachable, Probing
<1>3. /\ heal' \in [Tabs -> Stages]
      /\ \A u \in Tabs : heal[u] = "idle" => heal'[u] = "idle"
  BY <1>1, <1>2 DEF Reachable, Drop, Strayed, Stages
<1>4. reg' \in Registrations /\ skip' \in 0..MaxBuild
  BY DEF Reachable, Drop, NoReg, None, Registrations, ShellAssumption, browser, IInv, TypeOK
<1>5. /\ page' \in [Tabs -> Pages]
      /\ \A u \in Tabs : page'[u].timer = page[u].timer /\ page'[u].applying = page[u].applying
  <2>1. CASE page' = page
    BY <1>1, <2>1
  <2>2. CASE page' = [u \in Tabs |-> IF page[u].reg = "live" THEN [page[u] EXCEPT !.reg = "dead"] ELSE page[u]]
    <3>1. ASSUME NEW u \in Tabs
          PROVE  /\ page'[u] \in Pages
                 /\ page'[u].timer = page[u].timer /\ page'[u].applying = page[u].applying
      <4> DEFINE q == [page[u] EXCEPT !.reg = "dead"]
      <4>1. q \in Pages /\ q.timer = page[u].timer /\ q.applying = page[u].applying /\ page[u] \in Pages
        BY <1>1 DEF Pages
      <4>2. page'[u] \in {q, page[u]}
        BY <2>2
      <4> HIDE DEF q
      <4> QED
        BY <4>1, <4>2
    <3>2. page' = [u \in Tabs |-> page'[u]]
      BY <2>2
    <3> QED
      BY <3>1, <3>2
  <2> QED
    BY <2>1, <2>2 DEF Reachable, Drop
<1>6. TypeOK'
  BY <1>2, <1>3, <1>4, <1>5 DEF IInv, TypeOK, network, history
<1>7. \A u \in Tabs : TimersStay(u) /\ ClaimStays(u)
  BY <1>2, <1>3, <1>5 DEF TimersStay, ClaimStays, history, IInv, ClaimsAreUnspent
<1>8. ReloadsSawTheNetwork'
  BY <1>2 DEF ReloadsSawTheNetwork, network
<1> QED
  BY <1>6, <1>7, <1>8, QuietKeepsClaims DEF IInv

-----------------------------------------------------------------------------
(* The theorems *)

LEMMA StepKeeps ==
    ASSUME ShellAssumption, IInv, [Next]_vars
    PROVE  IInv'
<1>1. CASE UNCHANGED vars
  BY <1>1 DEF vars, network, browser, history, IInv, TypeOK, OneReloadPerClaim, ClaimsAreUnspent,
              ReloadsSawTheNetwork, Idle
<1>2. CASE Deploy \/ GoesDown \/ ComesUp \/ InstallFails
  BY <1>2, NetworkKeeps
<1>3. CASE Installed
  BY <1>3, InstalledKeeps
<1>4. CASE Activate
  BY <1>4, ActivateKeeps
<1>5. ASSUME NEW t \in Tabs, Recovers(t)
      PROVE  IInv'
  BY <1>5, WaitKeeps, WorkerArrivesKeeps, ClaimKeeps, ReachableKeeps, TabLoadKeeps DEF Recovers
<1>6. ASSUME NEW t \in Tabs,
             \/ UserReload(t) \/ Register(t) \/ RegisterFails(t) \/ Poll(t)
             \/ Dismiss(t) \/ ClickReload(t) \/ FallbackReload(t) \/ Remount(t)
             \/ GuardAges(t) \/ ChunkFails(t)
      PROVE  IInv'
  BY <1>6, TabLoadKeeps, RegisterKeeps, NoticeClicksKeep, ClaimKeeps
<1> QED
  BY <1>1, <1>2, <1>3, <1>4, <1>5, <1>6 DEF Next

\* IInv holds in every state, however many tabs share the registration.
THEOREM Invariance == Spec => []IInv
<1>1. Init => IInv
  BY ShellAssumption, InitInvariant
<1>2. IInv /\ [Next]_vars => IInv'
  BY ShellAssumption, StepKeeps
<1> QED
  BY <1>1, <1>2, PTL DEF Spec

\* The recovery reloads a tab at most once for a claim (startStaleShellRecovery), and
\* every variable stays in its type.
THEOREM ClaimsBoundReloads == Spec => [](TypeOK /\ OneReloadPerClaim)
<1>1. IInv => TypeOK /\ OneReloadPerClaim
  BY DEF IInv
<1> QED
  BY <1>1, Invariance, PTL

\* A page disappears for the browser's error page only by a reload of the user's, by one
\* the network failed after the probe, or by one whose worker was dropped meanwhile.
LEMMA KeepsThePageStep ==
    ASSUME ShellAssumption, IInv, [Next]_vars, NEW t \in Tabs, Up(t), ~Up(t)'
    PROVE  \/ page[t].applying \/ UserReload(t)
           \/ cut[t]
           \/ page[t].timer = "heal" /\ reg.active = None
<1>1. page \in [Tabs -> Pages] /\ page[t].shell # None /\ page'[t].shell = None /\ TypeOK
  BY DEF Up, IInv, TypeOK
<1>2. ASSUME NEW u \in Tabs, FallbackReload(u) \/ NetReload(u)
      PROVE  page[t].applying \/ cut[t] \/ (page[t].timer = "heal" /\ reg.active = None)
  <2>1. page' = [v \in Tabs |-> IF v \in {u} THEN Navigated ELSE page[v]]
    BY <1>2 DEF FallbackReload, NetReload, Load
  <2>2. u = t /\ Navigated.shell = None
    BY <1>1, <2>1
  <2>3. reg.active = None /\ ~online
    BY <1>1, <2>2, NavigatedIsAPage
  <2>4. CASE FallbackReload(t)
    BY <1>1, <2>3, <2>4 DEF FallbackReload, Pages, IInv, ClaimsAreUnspent
  <2>5. CASE NetReload(t)
    BY <2>3, <2>5 DEF NetReload, IInv, ReloadsSawTheNetwork
  <2> QED
    BY <1>2, <2>2, <2>4, <2>5
<1>3. ASSUME NEW u \in Tabs, UserReload(u)
      PROVE  UserReload(t)
  BY <1>1, <1>3 DEF UserReload, Load
<1>4. ~Activate
  <2> SUFFICES ASSUME Activate PROVE FALSE
    OBVIOUS
  <2>1. PICK loaded \in SUBSET Tabs, new \in Pages : Load(loaded, new) /\ new.shell # None
    BY <1>1, ActivateEffect
  <2> QED
    BY <1>1, <2>1 DEF Load
<1>5. ~Installed
  BY <1>1, HearsIsAPage DEF Installed
<1>6. \A u \in Tabs : ~Register(u) /\ ~Reachable(u)
  <2>1. ASSUME NEW u \in Tabs, Register(u)
        PROVE  FALSE
    <3> DEFINE q == [page[u] EXCEPT !.reg = "live"]
               p == IF reg.waiting # None THEN Hears(q) ELSE q
    <3>1. q \in Pages /\ q.shell = page[u].shell
      BY <1>1 DEF Pages
    <3>2. page' = [page EXCEPT ![u] = p]
      BY <2>1 DEF Register
    <3> HIDE DEF q
    <3>3. p.shell = page[u].shell
      BY <3>1, HearsIsAPage
    <3> HIDE DEF p
    <3> QED
      BY <1>1, <3>2, <3>3
  <2>2. ASSUME NEW u \in Tabs, Reachable(u)
        PROVE  FALSE
    <3>1. [page[t] EXCEPT !.reg = "dead"].shell = page[t].shell
      BY <1>1 DEF Pages
    <3> QED
      BY <1>1, <2>2, <3>1 DEF Reachable, Drop
  <2> QED
    BY <2>1, <2>2
<1>7. ASSUME NEW u \in Tabs, RegisterFails(u) \/ Dismiss(u) \/ ClickReload(u) \/ Remount(u) \/ WorkerArrives(u)
      PROVE  FALSE
  <2> DEFINE f == Fresh(page[u].shell, page[u].controlled)
  <2>1. page[u].shell \in 0..MaxBuild /\ page[u].controlled \in BOOLEAN
    BY <1>1 DEF Pages
  <2>2. f \in Pages /\ f.shell = page[u].shell
    BY <2>1, FreshIsAPage
  <2>3. CASE Remount(u)
    <3> DEFINE r == [f EXCEPT !.listens = page[u].listens,
                              !.timer = IF page[u].timer = "heal" THEN "heal" ELSE "off"]
    <3>1. page' = [page EXCEPT ![u] = r]
      BY <2>3 DEF Remount
    <3> HIDE DEF f
    <3>2. r.shell = page[u].shell
      BY <2>2 DEF Pages
    <3> HIDE DEF r
    <3> QED
      BY <1>1, <3>1, <3>2
  <2>4. CASE RegisterFails(u) \/ Dismiss(u) \/ ClickReload(u) \/ WorkerArrives(u)
    BY <1>1, <2>4 DEF RegisterFails, Dismiss, ClickReload, WorkerArrives, Apply, Pages
  <2> QED
    BY <1>7, <2>3, <2>4
<1>8. page' # page
  BY <1>1
<1>9. PICK u \in Tabs : UserReload(u) \/ FallbackReload(u) \/ NetReload(u)
  BY <1>4, <1>5, <1>6, <1>7, <1>8
  DEF Next, vars, Recovers, Deploy, GoesDown, ComesUp, InstallFails, Poll, GuardAges, ChunkFails,
      HandOver, NoHandOver, NoWorkerArrives, Unreachable, UnregisterFails, browser
<1> QED
  BY <1>2, <1>3, <1>9

\* reloadFromNetwork never trades a rendered page for an error page.
THEOREM PagesAreKept == Spec => RecoveryKeepsThePage
<1>1. IInv /\ [Next]_vars =>
        [\A t \in Tabs : Up(t) /\ ~Up(t)' =>
            \/ page[t].applying \/ UserReload(t)
            \/ cut[t]
            \/ page[t].timer = "heal" /\ reg.active = None]_vars
  BY ShellAssumption, KeepsThePageStep
<1> QED
  BY <1>1, Invariance, PTL DEF Spec, RecoveryKeepsThePage
-----------------------------------------------------------------------------
(* Which builds are where: workers come in the order of the builds, and no page or
   recovery is ahead of the workers that were registered after it *)

Workers == {reg.active, reg.waiting, reg.installing} \ {None}

\* A worker is newer than those it is to replace, and in prompt mode only the waiting
\* worker is told to skip waiting.
WorkersInOrder ==
    /\ \A w \in Workers : w <= deployed
    /\ reg.waiting # None => reg.active # None /\ reg.active < reg.waiting
    /\ reg.installing # None => reg.active < reg.installing /\ reg.waiting < reg.installing
    /\ prompt => skip \in {None, reg.waiting}

\* No worker is older than a page that a worker served.
PagesInOrder ==
    \A t \in Tabs :
        /\ page[t].shell <= deployed
        /\ page[t].controlled => \A w \in Workers : page[t].shell <= w

\* A recovery started on a page that is up and not newer than what it is to reach.
RecoveriesInOrder ==
    \A t \in Tabs : ~Idle(t) \/ page[t].timer = "heal" =>
        Up(t) /\ page[t].shell <= target[t] /\ target[t] <= deployed

\* Whatever is registered after the recovery saw no registration, or dropped it, is
\* what it is to reach or newer.
DroppedIsDropped ==
    \A t \in Tabs : heal[t] \in {"stray", "plain", "reload"} => \A w \in Workers : target[t] <= w

\* The reload the recovery has armed escapes its build: the worker it told to take over
\* still waits, or has taken over, or is dropped.
ArmedEscapes ==
    \A t \in Tabs : page[t].timer = "heal" /\ prompt /\ page[t].controlled /\ page[t].shell # target[t] =>
        /\ skip = None /\ reg.active # None => page[t].shell < reg.active
        /\ reg.active = None => \A w \in Workers : page[t].shell < w

BuildsInv == WorkersInOrder /\ PagesInOrder /\ RecoveriesInOrder /\ DroppedIsDropped /\ ArmedEscapes

\* How a step changes the page of a tab: it is kept, or loaded.
Kept(t) ==
    /\ page'[t].shell = page[t].shell /\ page'[t].controlled = page[t].controlled
    /\ page'[t].timer = "heal" => page[t].timer = "heal" \/ WorkerArrives(t)
Loaded(t) ==
    /\ heal'[t] = "idle" /\ page'[t].timer = "off"
    /\ page'[t].reg = "pending" /\ page'[t].heard = 0 /\ page'[t].dismissed = 0
    /\ \/ page'[t].controlled /\ reg'.active # None /\ page'[t].shell = reg'.active
       \/ ~page'[t].controlled /\ page'[t].shell \in {None, deployed}

\* A load of one tab is a navigation, or goes past the worker.
LEMMA LoadedAlone ==
    ASSUME ShellAssumption, IInv, NEW u \in Tabs, UserReload(u) \/ FallbackReload(u) \/ NetReload(u)
    PROVE  /\ Loaded(u) /\ reg' = reg /\ skip' = skip /\ deployed' = deployed
           /\ \A t \in Tabs \ {u} : page'[t] = page[t] /\ heal'[t] = heal[t] /\ target'[t] = target[t]
<1>1. UNCHANGED <<network, browser>>
  BY DEF UserReload, FallbackReload, NetReload
<1>2. PICK new \in {Navigated, Fresh(deployed, FALSE)} : Load({u}, new)
  BY DEF UserReload, FallbackReload, NetReload
<1>3. /\ page'[u] = new /\ heal'[u] = "idle"
      /\ \A t \in Tabs \ {u} : page'[t] = page[t] /\ heal'[t] = heal[t] /\ target'[t] = target[t]
  BY <1>2 DEF Load
<1>4. /\ deployed \in 0..MaxBuild /\ None \in 0..MaxBuild /\ reg.active \in 0..MaxBuild
  BY DEF IInv, TypeOK, Builds, None, Registrations, ShellAssumption
<1>5. \/ new = Fresh(reg.active, TRUE) /\ reg.active # None
      \/ new \in {Fresh(deployed, FALSE), Fresh(None, FALSE)}
  BY DEF Navigated
<1>6. /\ new.timer = "off" /\ new.reg = "pending" /\ new.heard = 0 /\ new.dismissed = 0
      /\ \/ new.controlled /\ reg.active # None /\ new.shell = reg.active
         \/ ~new.controlled /\ new.shell \in {None, deployed}
  <2>1. CASE new = Fresh(reg.active, TRUE) /\ reg.active # None
    BY <1>4, <2>1, FreshIsAPage
  <2>2. CASE new = Fresh(deployed, FALSE)
    BY <1>4, <2>2, FreshIsAPage
  <2>3. CASE new = Fresh(None, FALSE)
    BY <1>4, <2>3, FreshIsAPage
  <2> QED
    BY <1>5, <2>1, <2>2, <2>3
<1> QED
  BY <1>1, <1>3, <1>6 DEF Loaded, network, browser

LEMMA ActivateLoads ==
    ASSUME ShellAssumption, IInv, Activate, NEW t \in Tabs
    PROVE  \/ page'[t] = page[t] /\ heal'[t] = heal[t] /\ target'[t] = target[t]
           \/ Loaded(t) /\ page[t].controlled /\ page'[t].shell = reg.waiting
<1>1. CASE skip = reg.waiting
  <2>1. /\ reg' = [reg EXCEPT !.active = reg.waiting, !.waiting = None]
        /\ Load({v \in Tabs : page[v].controlled /\ page[v].listens}, Fresh(reg.waiting, TRUE))
        /\ reg.waiting # None
    BY <1>1 DEF Activate
  <2>2. reg \in Registrations /\ reg.waiting \in 0..MaxBuild
    BY DEF IInv, TypeOK, Registrations
  <2>3. reg'.active = reg.waiting
    BY <2>1, <2>2 DEF Registrations
  <2>4. CASE page[t].controlled /\ page[t].listens
    <3>1. page'[t] = Fresh(reg.waiting, TRUE) /\ heal'[t] = "idle"
      BY <2>1, <2>4 DEF Load
    <3> DEFINE new == Fresh(reg.waiting, TRUE)
    <3>2. /\ new.timer = "off" /\ new.controlled /\ new.shell = reg.waiting
          /\ new.reg = "pending" /\ new.heard = 0 /\ new.dismissed = 0
      BY <2>2, FreshIsAPage
    <3> HIDE DEF new
    <3> QED
      BY <2>1, <2>3, <2>4, <3>1, <3>2 DEF Loaded, new
  <2>5. CASE ~(page[t].controlled /\ page[t].listens)
    BY <2>1, <2>5 DEF Load
  <2> QED
    BY <2>4, <2>5
<1>2. CASE skip # reg.waiting
  BY <1>2 DEF Activate, history
<1> QED
  BY <1>1, <1>2

LEMMA PageStep ==
    ASSUME ShellAssumption, IInv, [Next]_vars, NEW t \in Tabs
    PROVE  Kept(t) \/ Loaded(t)
<1>1. page \in [Tabs -> Pages] /\ page[t] \in Pages
  BY DEF IInv, TypeOK
<1>2. CASE page'[t] = page[t]
  BY <1>2 DEF Kept
<1>3. CASE Installed
  <2>1. page'[t] \in {page[t], Hears(page[t])}
    BY <1>1, <1>3 DEF Installed
  <2> QED
    BY <1>1, <2>1, HearsIsAPage DEF Kept
<1>4. CASE Activate
  BY <1>2, <1>4, ActivateLoads
<1>5. ASSUME NEW u \in Tabs, UserReload(u) \/ FallbackReload(u) \/ NetReload(u)
      PROVE  Kept(t) \/ Loaded(t)
  BY <1>2, <1>5, LoadedAlone
<1>6. ASSUME NEW u \in Tabs, Register(u)
      PROVE  Kept(t)
  <2> DEFINE q == [page[u] EXCEPT !.reg = "live"]
             p == IF reg.waiting # None THEN Hears(q) ELSE q
  <2>1. q \in Pages /\ q.shell = page[u].shell /\ q.controlled = page[u].controlled /\ q.timer = page[u].timer
    BY <1>1 DEF Pages
  <2>2. page' = [page EXCEPT ![u] = p]
    BY <1>6 DEF Register
  <2> HIDE DEF q
  <2>3. p.shell = page[u].shell /\ p.controlled = page[u].controlled /\ p.timer = page[u].timer
    BY <2>1, HearsIsAPage
  <2> HIDE DEF p
  <2> QED
    BY <1>1, <2>2, <2>3 DEF Kept
<1>7. ASSUME NEW u \in Tabs, Reachable(u)
      PROVE  Kept(t)
  <2> DEFINE q == [page[t] EXCEPT !.reg = "dead"]
  <2>1. q.shell = page[t].shell /\ q.controlled = page[t].controlled /\ q.timer = page[t].timer
    BY <1>1 DEF Pages
  <2>2. page'[t] \in {q, page[t]}
    BY <1>7 DEF Reachable, Drop, browser
  <2> HIDE DEF q
  <2> QED
    BY <2>1, <2>2 DEF Kept
<1>8. ASSUME NEW u \in Tabs, RegisterFails(u) \/ Dismiss(u) \/ ClickReload(u)
      PROVE  Kept(t)
  BY <1>1, <1>8 DEF RegisterFails, Dismiss, ClickReload, Apply, Pages, Kept
<1>9. ASSUME NEW u \in Tabs, WorkerArrives(u)
      PROVE  Kept(t)
  BY <1>1, <1>9 DEF WorkerArrives, Apply, Pages, Kept
<1>10. ASSUME NEW u \in Tabs, Remount(u)
      PROVE  Kept(t)
  <2> DEFINE f == Fresh(page[u].shell, page[u].controlled)
             r == [f EXCEPT !.listens = page[u].listens,
                            !.timer = IF page[u].timer = "heal" THEN "heal" ELSE "off"]
  <2>1. page[u].shell \in 0..MaxBuild /\ page[u].controlled \in BOOLEAN
    BY <1>1 DEF Pages
  <2>2. f \in Pages /\ f.shell = page[u].shell /\ f.controlled = page[u].controlled
    BY <2>1, FreshIsAPage
  <2>3. page' = [page EXCEPT ![u] = r]
    BY <1>10 DEF Remount
  <2> HIDE DEF f
  <2>4. /\ r.shell = page[u].shell /\ r.controlled = page[u].controlled
        /\ r.timer = "heal" => page[u].timer = "heal"
    BY <2>2 DEF Pages
  <2> HIDE DEF r
  <2> QED
    BY <1>1, <2>3, <2>4 DEF Kept
<1> QED
  BY <1>2, <1>3, <1>4, <1>5, <1>6, <1>7, <1>8, <1>9, <1>10
  DEF Next, vars, Recovers, Deploy, GoesDown, ComesUp, InstallFails, Poll, GuardAges, ChunkFails,
      HandOver, NoHandOver, NoWorkerArrives, Unreachable, UnregisterFails, browser

\* The registration only ever gains the worker of the build that is deployed.
LEMMA WorkerStep ==
    ASSUME ShellAssumption, IInv, WorkersInOrder, [Next]_vars
    PROVE  WorkersInOrder' /\ Workers' \subseteq Workers \cup {deployed} /\ deployed <= deployed'
<1>1. /\ deployed \in Nat /\ deployed # None /\ reg \in Registrations /\ prompt \in BOOLEAN
      /\ reg.active \in Nat /\ reg.waiting \in Nat /\ reg.installing \in Nat
  BY DEF IInv, TypeOK, Builds, None, Registrations, ShellAssumption
<1> DEFINE Goal == WorkersInOrder' /\ Workers' \subseteq Workers \cup {deployed} /\ deployed <= deployed'
<1>2. ASSUME reg' = reg, deployed' \in {deployed, deployed + 1}, prompt' = prompt,
             skip' \in {skip, reg.waiting, None}
      PROVE  Goal
  <2>1. Workers' = Workers /\ \A w \in Workers : w <= deployed'
    BY <1>1, <1>2 DEF WorkersInOrder, Workers
  <2> QED
    BY <1>1, <1>2, <2>1 DEF WorkersInOrder
<1>3. ASSUME reg' = Checked, deployed' = deployed, prompt' = prompt, skip' = skip
      PROVE  Goal
  <2>1. CASE Checked = reg
    BY <1>2, <1>3, <2>1
  <2>2. CASE Checked # reg
    <3>1. Newest # deployed /\ reg' = [reg EXCEPT !.installing = deployed]
      BY <1>3, <2>2 DEF Checked
    <3>2. reg'.active = reg.active /\ reg'.waiting = reg.waiting /\ reg'.installing = deployed
      BY <1>1, <3>1 DEF Registrations
    <3>3. reg.active <= deployed /\ reg.waiting <= deployed
      BY <1>1 DEF WorkersInOrder, Workers, None
    <3>4. reg.active < deployed /\ reg.waiting < deployed
      BY <1>1, <3>1, <3>3 DEF Newest, WorkersInOrder, None
    <3>5. Workers' \subseteq Workers \cup {deployed}
      BY <3>2 DEF Workers
    <3> QED
      BY <1>1, <1>3, <3>2, <3>4, <3>5 DEF WorkersInOrder
  <2> QED
    BY <2>1, <2>2
<1>4. CASE Installed
  <2>1. UNCHANGED <<deployed, prompt, skip>> /\ reg.installing # None /\ (prompt => skip = None)
    BY <1>4 DEF Installed, network
  <2>2. CASE reg.active = None
    <3>1. reg' = [NoReg EXCEPT !.active = reg.installing]
      BY <1>4, <2>2 DEF Installed
    <3>2. reg'.active = reg.installing /\ reg'.waiting = None /\ reg'.installing = None
      BY <3>1 DEF NoReg
    <3> QED
      BY <1>1, <2>1, <3>2 DEF WorkersInOrder, Workers
  <2>3. CASE reg.active # None
    <3>1. reg' = [reg EXCEPT !.waiting = reg.installing, !.installing = None]
      BY <1>4, <2>3 DEF Installed
    <3>2. reg'.active = reg.active /\ reg'.waiting = reg.installing /\ reg'.installing = None
      BY <1>1, <3>1 DEF Registrations
    <3> QED
      BY <1>1, <2>1, <2>3, <3>2 DEF WorkersInOrder, Workers
  <2> QED
    BY <2>2, <2>3
<1>5. CASE InstallFails
  <2>1. UNCHANGED <<deployed, prompt, skip>> /\ reg' = [reg EXCEPT !.installing = None]
    BY <1>5 DEF InstallFails, network
  <2>2. reg'.active = reg.active /\ reg'.waiting = reg.waiting /\ reg'.installing = None
    BY <1>1, <2>1 DEF Registrations
  <2> QED
    BY <1>1, <2>1, <2>2 DEF WorkersInOrder, Workers
<1>6. CASE Activate
  <2>1. UNCHANGED <<deployed, prompt>> /\ skip' = None
    BY <1>6 DEF Activate, network
  <2>2. CASE skip = reg.waiting
    <3>1. reg' = [reg EXCEPT !.active = reg.waiting, !.waiting = None]
      BY <1>6, <2>2 DEF Activate
    <3>2. reg'.active = reg.waiting /\ reg'.waiting = None /\ reg'.installing = reg.installing
      BY <1>1, <3>1 DEF Registrations
    <3>3. reg'.installing # None => None < reg'.installing
      BY <1>1, <3>2 DEF None
    <3> QED
      BY <1>1, <2>1, <3>2, <3>3 DEF WorkersInOrder, Workers
  <2>3. CASE skip # reg.waiting
    BY <1>2, <1>6, <2>1, <2>3 DEF Activate
  <2> QED
    BY <2>2, <2>3
<1>7. ASSUME reg' = NoReg, deployed' = deployed, prompt' = prompt, skip' = None
      PROVE  Goal
  BY <1>1, <1>7 DEF NoReg, WorkersInOrder, Workers
<1>8. CASE UNCHANGED vars \/ Deploy \/ GoesDown \/ ComesUp
  BY <1>2, <1>8 DEF vars, Deploy, GoesDown, ComesUp, network, browser
<1>9. ASSUME NEW u \in Tabs, UserReload(u) \/ FallbackReload(u) \/ NetReload(u)
             \/ RegisterFails(u) \/ Dismiss(u) \/ ClickReload(u) \/ Remount(u) \/ GuardAges(u) \/ ChunkFails(u)
      PROVE  Goal
  BY <1>2, <1>9 DEF UserReload, FallbackReload, NetReload, RegisterFails, Dismiss, ClickReload, Apply,
     Remount, GuardAges, ChunkFails, network, browser
<1>10. ASSUME NEW u \in Tabs, NoHandOver(u) \/ WorkerArrives(u) \/ NoWorkerArrives(u)
              \/ Unreachable(u) \/ UnregisterFails(u)
       PROVE  Goal
  BY <1>2, <1>10 DEF NoHandOver, WorkerArrives, NoWorkerArrives, Unreachable, UnregisterFails, Apply,
     network, browser
<1>11. ASSUME NEW u \in Tabs, Register(u) \/ Poll(u) \/ HandOver(u)
       PROVE  Goal
  BY <1>2, <1>3, <1>11 DEF Register, Poll, HandOver, network
<1>12. ASSUME NEW u \in Tabs, Reachable(u)
       PROVE  Goal
  BY <1>2, <1>7, <1>12 DEF Reachable, Drop, network, browser
<1> QED
  BY <1>4, <1>5, <1>6, <1>8, <1>9, <1>10, <1>11, <1>12 DEF Next, Recovers

\* A page that is kept was not newer than any worker, one that is loaded is the active one.
LEMMA PageOrderStep ==
    ASSUME ShellAssumption, IInv, WorkersInOrder, PagesInOrder, [Next]_vars
    PROVE  PagesInOrder'
<1>1. WorkersInOrder' /\ Workers' \subseteq Workers \cup {deployed} /\ deployed <= deployed'
  BY WorkerStep
<1>2. IInv'
  BY StepKeeps
<1>3. /\ deployed \in Nat /\ deployed' \in Nat /\ None \in Nat
      /\ reg'.active \in Nat /\ reg'.waiting \in Nat /\ reg'.installing \in Nat
  BY <1>2 DEF IInv, TypeOK, Builds, None, Registrations, ShellAssumption
<1> SUFFICES ASSUME NEW t \in Tabs
             PROVE  /\ page'[t].shell <= deployed'
                    /\ page'[t].controlled => \A w \in Workers' : page'[t].shell <= w
  BY DEF PagesInOrder
<1>4. page[t].shell \in Nat
  BY DEF IInv, TypeOK, Pages
<1>5. CASE Kept(t)
  BY <1>1, <1>3, <1>4, <1>5 DEF Kept, PagesInOrder
<1>6. CASE Loaded(t)
  <2>1. page'[t].shell <= deployed'
    BY <1>1, <1>3, <1>6 DEF Loaded, WorkersInOrder, Workers, None
  <2>2. reg'.active # None => \A w \in Workers' : reg'.active <= w
    BY <1>1, <1>3 DEF WorkersInOrder, Workers
  <2> QED
    BY <1>6, <2>1, <2>2 DEF Loaded
<1> QED
  BY <1>5, <1>6, PageStep

Recovering(t) == ~Idle(t) \/ page[t].timer = "heal"
Dropped == {"stray", "plain", "reload"}

\* A recovery begins with a failed chunk, keeps its page and target until it ends, and
\* comes to have no registration only where there is none.
LEMMA RecoveryStep ==
    ASSUME ShellAssumption, IInv, [Next]_vars, NEW t \in Tabs
    PROVE  \/ Loaded(t)
           \/ Kept(t) /\ (~Recovering(t)' \/ ChunkFails(t))
           \/ /\ Kept(t) /\ Recovering(t) /\ target'[t] = target[t]
              /\ heal'[t] \in Dropped => heal[t] \in Dropped \/ reg' = NoReg
<1> DEFINE Goal == \/ Loaded(t)
                   \/ Kept(t) /\ (~Recovering(t)' \/ ChunkFails(t))
                   \/ /\ Kept(t) /\ Recovering(t) /\ target'[t] = target[t]
                      /\ heal'[t] \in Dropped => heal[t] \in Dropped \/ reg' = NoReg
<1>1. heal \in [Tabs -> Stages] /\ target \in [Tabs -> 0..MaxBuild] /\ page \in [Tabs -> Pages]
  BY DEF IInv, TypeOK
<1> SUFFICES ASSUME Kept(t) PROVE Goal
  BY PageStep
<1>2. ASSUME heal'[t] = heal[t], target'[t] = target[t] PROVE Goal
  BY <1>2 DEF Recovering, Kept, Idle, WorkerArrives
<1>3. ASSUME heal[t] # "idle", target'[t] = target[t],
             heal'[t] \in Dropped => heal[t] \in Dropped \/ reg' = NoReg
      PROVE  Goal
  BY <1>3 DEF Recovering, Idle
<1>4. CASE UNCHANGED vars \/ Deploy \/ GoesDown \/ ComesUp \/ Installed \/ InstallFails
  BY <1>2, <1>4 DEF vars, Deploy, GoesDown, ComesUp, Installed, InstallFails, history
<1>5. CASE Activate
  BY <1>2, <1>5, ActivateLoads
<1>6. ASSUME NEW u \in Tabs, UserReload(u) \/ FallbackReload(u) \/ NetReload(u)
      PROVE  Goal
  BY <1>2, <1>6, LoadedAlone
<1>7. ASSUME NEW u \in Tabs, Register(u) \/ RegisterFails(u) \/ Poll(u) \/ Dismiss(u) \/ ClickReload(u)
             \/ Remount(u) \/ GuardAges(u)
      PROVE  Goal
  BY <1>2, <1>7 DEF Register, RegisterFails, Poll, Dismiss, ClickReload, Remount, GuardAges, history
<1>8. ASSUME NEW u \in Tabs, ChunkFails(u)
      PROVE  Goal
  <2>1. CASE u = t
    BY <1>8, <2>1
  <2>2. CASE u # t
    BY <1>1, <1>2, <1>8, <2>2 DEF ChunkFails
  <2> QED
    BY <2>1, <2>2
<1>9. ASSUME NEW u \in Tabs, HandOver(u) \/ NoHandOver(u) \/ WorkerArrives(u) \/ NoWorkerArrives(u)
             \/ UnregisterFails(u)
      PROVE  Goal
  <2>1. target'[t] = target[t] /\ heal[u] # "idle"
    BY <1>9 DEF HandOver, NoHandOver, WorkerArrives, NoWorkerArrives, UnregisterFails, history
  <2>2. CASE u # t
    BY <1>1, <1>2, <1>9, <2>1, <2>2
    DEF HandOver, NoHandOver, WorkerArrives, NoWorkerArrives, UnregisterFails
  <2>3. CASE u = t
    <3>1. heal'[t] \in Dropped => heal[t] \in Dropped \/ reg' = NoReg
      BY <1>1, <1>9, <2>3
      DEF HandOver, NoHandOver, WorkerArrives, NoWorkerArrives, UnregisterFails, Dropped, browser
    <3> QED
      BY <1>3, <2>1, <2>3, <3>1
  <2> QED
    BY <2>2, <2>3
<1>10. ASSUME NEW u \in Tabs, Unreachable(u)
       PROVE  Goal
  <2>1. CASE u = t
    <3>1. heal[t] # "idle" /\ heal'[t] = "idle" /\ page' = page
      BY <1>1, <1>10, <2>1 DEF Unreachable, Probing
    <3>2. page[t].timer # "heal"
      BY <3>1 DEF IInv, ClaimsAreUnspent, Idle
    <3> QED
      BY <3>1, <3>2 DEF Recovering, Idle
  <2>2. CASE u # t
    BY <1>1, <1>2, <1>10, <2>2 DEF Unreachable
  <2> QED
    BY <2>1, <2>2
<1>11. ASSUME NEW u \in Tabs, Reachable(u)
       PROVE  Goal
  <2>1. target'[t] = target[t]
    BY <1>11 DEF Reachable, history
  <2>2. CASE heal[t] = "idle" \/ (heal[u] # "found" /\ u # t)
    BY <1>1, <1>2, <1>11, <2>1, <2>2 DEF Reachable, Drop, Strayed, Probing
  <2>3. CASE heal[t] # "idle" /\ heal[u] = "found"
    BY <1>3, <1>11, <2>1, <2>3 DEF Reachable, Drop
  <2>4. CASE heal[t] # "idle" /\ heal[u] # "found" /\ u = t
    <3>1. heal'[t] \in Dropped => heal[t] \in Dropped
      BY <1>1, <1>11, <2>4 DEF Reachable, Dropped, Probing
    <3> QED
      BY <1>3, <2>1, <2>4, <3>1
  <2> QED
    BY <2>2, <2>3, <2>4
<1> QED
  BY <1>4, <1>5, <1>6, <1>7, <1>8, <1>9, <1>10, <1>11 DEF Next, Recovers

LEMMA RecoveryOrderStep ==
    ASSUME ShellAssumption, IInv, [Next]_vars,
           WorkersInOrder, PagesInOrder, RecoveriesInOrder, DroppedIsDropped
    PROVE  RecoveriesInOrder' /\ DroppedIsDropped'
<1>1. Workers' \subseteq Workers \cup {deployed} /\ deployed <= deployed'
  BY WorkerStep
<1>2. deployed \in Nat /\ deployed' \in Nat
  BY StepKeeps DEF IInv, TypeOK, Builds
<1> SUFFICES ASSUME NEW t \in Tabs
             PROVE  /\ Recovering(t)' => Up(t)' /\ page'[t].shell <= target'[t] /\ target'[t] <= deployed'
                    /\ heal'[t] \in Dropped => \A w \in Workers' : target'[t] <= w
  BY DEF RecoveriesInOrder, DroppedIsDropped, Recovering, Dropped
<1>3. target[t] \in Nat /\ target \in [Tabs -> 0..MaxBuild] /\ heal \in [Tabs -> Stages]
  BY DEF IInv, TypeOK
<1>4. CASE Loaded(t) \/ (Kept(t) /\ ~Recovering(t)')
  BY <1>4 DEF Loaded, Recovering, Idle, Dropped
<1>5. CASE Kept(t) /\ ChunkFails(t)
  BY <1>2, <1>3, <1>5 DEF Kept, ChunkFails, PagesInOrder, Up, Dropped, network
<1>6. CASE /\ Kept(t) /\ Recovering(t) /\ target'[t] = target[t]
           /\ heal'[t] \in Dropped => heal[t] \in Dropped \/ reg' = NoReg
  <2>1. Up(t) /\ page[t].shell <= target[t] /\ target[t] <= deployed
    BY <1>6 DEF RecoveriesInOrder, Recovering
  <2>2. Up(t)' /\ page'[t].shell <= target'[t] /\ target'[t] <= deployed'
    BY <1>1, <1>2, <1>3, <1>6, <2>1 DEF Kept, Up
  <2>3. reg' = NoReg => Workers' = {}
    BY DEF NoReg, Workers
  <2>4. heal'[t] \in Dropped => \A w \in Workers' : target'[t] <= w
    BY <1>1, <1>6, <2>1, <2>3 DEF DroppedIsDropped, Dropped
  <2> QED
    BY <2>2, <2>4
<1> QED
  BY <1>4, <1>5, <1>6, RecoveryStep

\* In prompt mode a worker told to skip waiting takes over, or goes with the registration.
LEMMA ActiveStep ==
    ASSUME ShellAssumption, IInv, WorkersInOrder, [Next]_vars, prompt
    PROVE  /\ prompt'
           /\ \/ reg'.active = reg.active /\ (skip' = skip \/ skip' # None)
              \/ reg' = NoReg
              \/ reg.active = None /\ reg'.active = reg.installing /\ reg.installing # None
              \/ reg'.active = reg.waiting /\ reg.waiting # None
<1>1. reg \in Registrations
  BY DEF IInv, TypeOK
<1> DEFINE Goal == /\ prompt'
                   /\ \/ reg'.active = reg.active /\ (skip' = skip \/ skip' # None)
                      \/ reg' = NoReg
                      \/ reg.active = None /\ reg'.active = reg.installing /\ reg.installing # None
                      \/ reg'.active = reg.waiting /\ reg.waiting # None
<1>2. CASE UNCHANGED vars \/ Deploy \/ GoesDown \/ ComesUp
  BY <1>2 DEF vars, Deploy, GoesDown, ComesUp, network, browser
<1>3. CASE Installed
  BY <1>1, <1>3 DEF Installed, NoReg, Registrations, network
<1>4. CASE InstallFails
  BY <1>1, <1>4 DEF InstallFails, Registrations, network
<1>5. CASE Activate
  <2>1. skip = reg.waiting /\ reg.waiting # None
    BY <1>5 DEF Activate, WorkersInOrder
  <2>2. reg' = [reg EXCEPT !.active = reg.waiting, !.waiting = None] /\ prompt' = prompt
    BY <1>5, <2>1 DEF Activate, network
  <2> QED
    BY <1>1, <2>1, <2>2 DEF Registrations
<1>6. ASSUME NEW u \in Tabs, UserReload(u) \/ FallbackReload(u) \/ NetReload(u)
             \/ RegisterFails(u) \/ Dismiss(u) \/ ClickReload(u) \/ Remount(u) \/ GuardAges(u) \/ ChunkFails(u)
      PROVE  Goal
  BY <1>6 DEF UserReload, FallbackReload, NetReload, RegisterFails, Dismiss, ClickReload, Apply,
     Remount, GuardAges, ChunkFails, network, browser
<1>7. ASSUME NEW u \in Tabs, NoHandOver(u) \/ WorkerArrives(u) \/ NoWorkerArrives(u)
             \/ Unreachable(u) \/ UnregisterFails(u)
      PROVE  Goal
  BY <1>7 DEF NoHandOver, WorkerArrives, NoWorkerArrives, Unreachable, UnregisterFails, Apply, network, browser
<1>8. ASSUME NEW u \in Tabs, Register(u) \/ Poll(u) \/ HandOver(u)
      PROVE  Goal
  <2>1. reg' \in {reg, Checked} /\ prompt' = prompt /\ skip' = skip
    BY <1>8 DEF Register, Poll, HandOver, network
  <2>2. Checked.active = reg.active
    BY <1>1 DEF Checked, Registrations
  <2> QED
    BY <2>1, <2>2
<1>9. ASSUME NEW u \in Tabs, Reachable(u)
      PROVE  Goal
  BY <1>9 DEF Reachable, Drop, network, browser
<1> QED
  BY <1>2, <1>3, <1>4, <1>5, <1>6, <1>7, <1>8, <1>9 DEF Next, Recovers

LEMMA ArmedStep ==
    ASSUME ShellAssumption, IInv, BuildsInv, [Next]_vars
    PROVE  ArmedEscapes'
<1> USE DEF BuildsInv
<1>1. Workers' \subseteq Workers \cup {deployed}
  BY WorkerStep
<1>2. /\ deployed \in Nat /\ deployed # None /\ None = 0 /\ reg \in Registrations
      /\ reg.active \in Nat /\ reg.waiting \in Nat /\ reg.installing \in Nat
  BY DEF IInv, TypeOK, Builds, None, Registrations, ShellAssumption
<1> SUFFICES ASSUME NEW t \in Tabs, page'[t].timer = "heal", prompt', page'[t].controlled,
                    page'[t].shell # target'[t]
             PROVE  /\ skip' = None /\ reg'.active # None => page'[t].shell < reg'.active
                    /\ reg'.active = None => \A w \in Workers' : page'[t].shell < w
  BY DEF ArmedEscapes
<1>3. prompt
  BY DEF Next, vars, network, Deploy, GoesDown, ComesUp, Installed, InstallFails, Activate, UserReload, Register,
     RegisterFails, Poll, Dismiss, ClickReload, FallbackReload, Remount, GuardAges, ChunkFails, Recovers,
     HandOver, NoHandOver, WorkerArrives, NoWorkerArrives, Unreachable, Reachable, UnregisterFails, NetReload
<1>4. Kept(t) /\ Recovering(t) /\ target'[t] = target[t]
  <2>1. ~Loaded(t) /\ Recovering(t)'
    BY DEF Loaded, Recovering
  <2>2. ~(Kept(t) /\ ChunkFails(t))
    <3> SUFFICES ASSUME Kept(t), ChunkFails(t) PROVE FALSE
      OBVIOUS
    <3>1. page[t].timer = "heal" /\ guard[t] = "free"
      BY DEF Kept, ChunkFails, Claim, WorkerArrives, Idle
    <3> QED
      BY <3>1 DEF IInv, ClaimsAreUnspent
  <2> QED
    BY <2>1, <2>2, RecoveryStep
<1>5. /\ page'[t].shell = page[t].shell /\ page[t].controlled /\ page[t].shell \in Nat
      /\ page[t].shell < target[t] /\ target[t] <= deployed /\ page[t].shell < deployed
  <2>1. page[t].shell <= target[t] /\ target[t] <= deployed
    BY <1>4 DEF RecoveriesInOrder, Recovering
  <2>2. page[t].shell \in Nat /\ target[t] \in Nat
    BY DEF IInv, TypeOK, Pages
  <2> QED
    BY <1>2, <1>4, <2>1, <2>2 DEF Kept
<1>6. CASE WorkerArrives(t)
  <2>1. reg' = reg /\ Workers' = Workers
    BY <1>6 DEF WorkerArrives, Apply, Workers
  <2>2. reg.waiting # None => skip' # None /\ reg.active # None
    BY <1>6 DEF WorkerArrives, Apply, WorkersInOrder
  <2>3. reg.waiting = None => reg.active = deployed
    BY <1>6 DEF WorkerArrives, TookOver
  <2> QED
    BY <1>2, <1>5, <2>1, <2>2, <2>3
<1>7. CASE page[t].timer = "heal"
  <2>1. /\ skip = None /\ reg.active # None => page[t].shell < reg.active
        /\ reg.active = None => \A w \in Workers : page[t].shell < w
    BY <1>3, <1>4, <1>5, <1>7 DEF ArmedEscapes
  <2>2. CASE reg'.active = reg.active /\ (skip' = skip \/ skip' # None)
    BY <1>1, <1>5, <2>1, <2>2
  <2>3. CASE reg' = NoReg
    BY <2>3 DEF NoReg, Workers
  <2>4. CASE reg.active = None /\ reg'.active = reg.installing /\ reg.installing # None
    BY <1>5, <2>1, <2>4 DEF Workers
  <2>5. CASE reg'.active = reg.waiting /\ reg.waiting # None
    <3>1. reg.active < reg.waiting /\ reg.active # None
      BY <2>5 DEF WorkersInOrder
    <3>2. page[t].shell <= reg.active
      BY <1>5, <3>1 DEF PagesInOrder, Workers
    <3> QED
      BY <1>2, <1>5, <2>5, <3>1, <3>2
  <2> QED
    BY <1>3, <2>2, <2>3, <2>4, <2>5, ActiveStep
<1> QED
  BY <1>4, <1>6, <1>7 DEF Kept

\* Builds stay in order, however many are deployed and however often the network fails.
THEOREM BuildsInvariant == Spec => []BuildsInv
<1>1. ASSUME Init PROVE BuildsInv
  <2>1. /\ reg.active \in {None, 1} /\ reg.waiting = None /\ reg.installing = None
        /\ deployed = 1 /\ skip = None /\ None = 0
    BY <1>1 DEF Init, NoReg, None
  <2>2. Navigated \in {Fresh(1, TRUE), Fresh(1, FALSE)}
    BY <1>1, <2>1 DEF Init, Navigated
  <2>3. 1 \in 0..MaxBuild
    BY ShellAssumption DEF ShellAssumption
  <2>4. Navigated.shell = 1 /\ Navigated.timer = "off"
    <3>1. \A c \in BOOLEAN : Fresh(1, c).shell = 1 /\ Fresh(1, c).timer = "off"
      BY <2>3, ShellAssumption, FreshIsAPage
    <3> QED
      BY <2>2, <3>1
  <2>5. \A t \in Tabs : page[t] = Navigated /\ heal[t] = "idle"
    BY <1>1 DEF Init
  <2>6. \A w \in Workers : w = 1
    BY <2>1 DEF Workers
  <2>7. WorkersInOrder
    BY <2>1, <2>6 DEF WorkersInOrder
  <2>8. PagesInOrder
    <3>1. \A t \in Tabs : page[t].shell = 1
      BY <2>4, <2>5
    <3>2. 1 <= deployed /\ \A w \in Workers : 1 <= w
      BY <2>1, <2>6
    <3> QED
      BY <3>1, <3>2 DEF PagesInOrder
  <2> QED
    BY <2>4, <2>5, <2>7, <2>8 DEF BuildsInv, RecoveriesInOrder, DroppedIsDropped, ArmedEscapes, Idle
<1>2. ASSUME IInv, BuildsInv, [Next]_vars PROVE BuildsInv'
  BY <1>2, ShellAssumption, WorkerStep, PageOrderStep, RecoveryOrderStep, ArmedStep DEF BuildsInv
<1> QED
  BY <1>1, <1>2, Invariance, PTL DEF Spec

\* What a navigation finds: the active worker, or what the server has, or nothing.
LEMMA NavigationEffect ==
    ASSUME ShellAssumption, IInv, NEW t \in Tabs, FallbackReload(t) \/ NetReload(t)
    PROVE  page'[t].shell = IF reg.active # None THEN reg.active ELSE IF online THEN deployed ELSE None
<1>1. page'[t] = Navigated
  BY DEF FallbackReload, NetReload, Load
<1>2. deployed \in 0..MaxBuild /\ None \in 0..MaxBuild /\ reg.active \in 0..MaxBuild
  BY DEF IInv, TypeOK, Builds, None, Registrations, ShellAssumption
<1>3. \A b \in 0..MaxBuild, c \in BOOLEAN : Fresh(b, c).shell = b
  BY FreshIsAPage
<1> QED
  BY <1>1, <1>2, <1>3 DEF Navigated

\* The reload the recovery makes by itself: no worker is older than its target.
LEMMA NetReloadStep ==
    ASSUME ShellAssumption, IInv, BuildsInv, NEW t \in Tabs, heal[t] = "reload", NetReload(t)
    PROVE  /\ Up(t)' => page'[t].shell >= target[t]
           /\ page[t].shell # target[t] => page'[t].shell # page[t].shell
<1>1. /\ deployed \in Nat /\ None = 0 /\ reg.active \in Nat /\ target[t] \in Nat /\ page[t].shell \in Nat
  BY DEF IInv, TypeOK, Builds, None, Registrations, Pages
<1>2. page[t].shell # None /\ page[t].shell <= target[t] /\ target[t] <= deployed
  BY DEF BuildsInv, RecoveriesInOrder, Idle, Up
<1>3. reg.active # None => target[t] <= reg.active
  BY DEF BuildsInv, DroppedIsDropped, Workers
<1> QED
  BY <1>1, <1>2, <1>3, NavigationEffect DEF Up

\* The reload it has armed, whoever makes it.
LEMMA ArmedReloadStep ==
    ASSUME ShellAssumption, IInv, BuildsInv, NEW t \in Tabs, page[t].timer = "heal",
           FallbackReload(t) \/ (Activate /\ page'[t] # page[t]),
           prompt, page[t].shell # target[t]
    PROVE  page'[t].shell # page[t].shell \/ ~page[t].controlled
<1> SUFFICES ASSUME page[t].controlled PROVE page'[t].shell # page[t].shell
  OBVIOUS
<1>1. /\ deployed \in Nat /\ None = 0 /\ reg.active \in Nat /\ reg.waiting \in Nat
      /\ target[t] \in Nat /\ page[t].shell \in Nat
  BY DEF IInv, TypeOK, Builds, None, Registrations, Pages
<1>2. page[t].shell # None /\ page[t].shell <= target[t] /\ target[t] <= deployed
  BY DEF BuildsInv, RecoveriesInOrder, Up
<1>3. CASE FallbackReload(t)
  <2>1. reg.active # None => page[t].shell < reg.active
    BY <1>3 DEF FallbackReload, BuildsInv, ArmedEscapes
  <2> QED
    BY <1>1, <1>2, <1>3, <2>1, NavigationEffect
<1>4. CASE Activate /\ page'[t] # page[t]
  <2>1. page'[t].shell = reg.waiting
    BY <1>4, ActivateLoads
  <2>2. skip = reg.waiting /\ reg.waiting # None
    BY <1>4 DEF Activate, BuildsInv, WorkersInOrder
  <2>3. page[t].shell <= reg.active /\ reg.active < reg.waiting
    BY <2>2 DEF BuildsInv, PagesInOrder, WorkersInOrder, Workers
  <2> QED
    BY <1>1, <2>1, <2>3
<1> QED
  BY <1>3, <1>4

\* What the recovery loads is never the build that was gone when it began.
THEOREM RecoveriesLeaveTheBuild == Spec => RecoveryLeavesTheBuild
<1>1. ASSUME IInv, BuildsInv, NEW t \in Tabs, ReloadsToHeal(t), prompt, page[t].shell # target[t]
      PROVE  \/ page'[t].shell # page[t].shell
             \/ page[t].timer = "heal" /\ ~page[t].controlled
  BY <1>1, ShellAssumption, NetReloadStep, ArmedReloadStep DEF ReloadsToHeal
<1>2. IInv /\ BuildsInv =>
        [\A t \in Tabs : ReloadsToHeal(t) /\ prompt /\ page[t].shell # target[t] =>
            \/ page'[t].shell # page[t].shell
            \/ page[t].timer = "heal" /\ ~page[t].controlled]_vars
  BY <1>1
<1> QED
  BY <1>2, Invariance, BuildsInvariant, PTL DEF RecoveryLeavesTheBuild

\* Once the registration is dropped, the recovery lands on what the server had when it
\* began, or newer.
THEOREM RecoveriesLandOnTheDeployment == Spec => RecoveryLandsOnTheDeployment
<1>1. IInv /\ BuildsInv =>
        [\A t \in Tabs : heal[t] = "reload" /\ NetReload(t) /\ Up(t)' => page'[t].shell >= target[t]]_vars
  BY ShellAssumption, NetReloadStep
<1> QED
  BY <1>1, Invariance, BuildsInvariant, PTL DEF RecoveryLandsOnTheDeployment

-----------------------------------------------------------------------------
(* The notice *)

\* A tab has dismissed no more than it has heard of.
News(t) ==
    /\ page[t].dismissed <= page[t].heard
    /\ page[t].reg = "live" /\ reg.waiting # None => Visible(page[t]) \/ page[t].refused = reg.waiting
NewsInv == \A t \in Tabs : News(t)

\* A step that leaves the worker that waits, or leaves none, and what the tab knows.
SameNews(t) ==
    /\ page'[t].heard = page[t].heard /\ page'[t].dismissed = page[t].dismissed
    /\ page'[t].refused = page[t].refused /\ (page'[t].reg = "live" => page[t].reg = "live")
SameWaiting == reg'.waiting \in {None, reg.waiting}

LEMMA SameNewsKeeps ==
    ASSUME NEW t \in Tabs, News(t), SameNews(t), SameWaiting
    PROVE  News(t)'
BY DEF News, SameNews, SameWaiting, Visible

LEMMA LoadKeepsNews ==
    ASSUME NEW t \in Tabs, News(t), Loaded(t) \/ (page'[t] = page[t] /\ SameWaiting)
    PROVE  News(t)'
<1>1. CASE Loaded(t)
  BY <1>1 DEF News, Loaded
<1>2. CASE page'[t] = page[t] /\ SameWaiting
  BY <1>2, SameNewsKeeps DEF SameNews
<1> QED
  BY <1>1, <1>2

\* A tab that hears of a worker announces it, whatever was dismissed before.
LEMMA HearsKeepsNews ==
    ASSUME NEW p \in Pages, p.dismissed <= p.heard, p.reg = "live"
    PROVE  Hears(p).dismissed <= Hears(p).heard /\ Visible(Hears(p))
<1>1. /\ Hears(p).dismissed = p.dismissed /\ Hears(p).heard = p.heard + 1
      /\ p.heard \in Nat /\ p.dismissed \in Nat
  BY HearsIsAPage DEF Pages
<1> QED
  BY <1>1 DEF Visible

LEMMA RegistrationKeepsNews ==
    ASSUME ShellAssumption, IInv, NewsInv, NEW t \in Tabs, Installed \/ InstallFails \/ Activate
    PROVE  News(t)'
<1>1. page[t] \in Pages /\ page \in [Tabs -> Pages] /\ reg \in Registrations /\ News(t)
  BY DEF IInv, TypeOK, NewsInv
<1>2. CASE Installed
  <2>1. CASE reg.active = None
    <3>1. page' = page /\ reg'.waiting = None
      BY <1>2, <2>1 DEF Installed, NoReg
    <3> QED
      BY <1>1, <3>1, LoadKeepsNews DEF SameWaiting
  <2>2. CASE reg.active # None /\ page[t].reg = "live"
    <3>1. page'[t] = Hears(page[t])
      BY <1>1, <1>2, <2>2 DEF Installed
    <3> QED
      BY <1>1, <2>2, <3>1, HearsKeepsNews DEF News
  <2>3. CASE reg.active # None /\ page[t].reg # "live"
    <3>1. page'[t] = page[t]
      BY <1>1, <1>2, <2>3 DEF Installed, Hears
    <3> QED
      BY <1>1, <2>3, <3>1 DEF News
  <2> QED
    BY <2>1, <2>2, <2>3
<1>3. CASE InstallFails
  BY <1>1, <1>3, LoadKeepsNews DEF InstallFails, SameWaiting, Registrations
<1>4. CASE Activate
  <2>1. SameWaiting
    BY <1>1, <1>4 DEF Activate, SameWaiting, Registrations
  <2> QED
    BY <1>1, <1>4, <2>1, ActivateLoads, LoadKeepsNews
<1> QED
  BY <1>2, <1>3, <1>4

LEMMA NoticeKeepsNews ==
    ASSUME ShellAssumption, IInv, NewsInv, NEW t \in Tabs, NEW u \in Tabs,
           \/ Register(u) \/ RegisterFails(u) \/ Dismiss(u) \/ ClickReload(u) \/ Remount(u) \/ WorkerArrives(u)
    PROVE  News(t)'
<1>1. /\ page[t] \in Pages /\ page \in [Tabs -> Pages] /\ reg \in Registrations /\ News(t)
      /\ page[t].heard \in Nat /\ page[t].dismissed \in Nat
  BY DEF IInv, TypeOK, NewsInv, Pages
<1>2. SameWaiting
  <2>1. Checked.waiting = reg.waiting
    BY <1>1 DEF Checked, Registrations
  <2> QED
    BY <2>1 DEF SameWaiting, Register, RegisterFails, Dismiss, ClickReload, Remount, WorkerArrives, Apply, browser
<1>3. CASE u # t
  <2>1. page'[t] = page[t]
    BY <1>1, <1>3 DEF Register, RegisterFails, Dismiss, ClickReload, Remount, WorkerArrives, Apply
  <2> QED
    BY <1>1, <1>2, <2>1, LoadKeepsNews
<1>4. CASE u = t /\ Register(t)
  <2> DEFINE q == [page[t] EXCEPT !.reg = "live"]
  <2>1. q \in Pages /\ q.reg = "live" /\ q.heard = page[t].heard /\ q.dismissed = page[t].dismissed
    BY <1>1 DEF Pages
  <2>2. page'[t] = (IF reg.waiting # None THEN Hears(q) ELSE q) /\ reg' = Checked
    BY <1>1, <1>4 DEF Register
  <2> HIDE DEF q
  <2>3. reg'.waiting = reg.waiting
    BY <1>1, <2>2 DEF Checked, Registrations
  <2>4. CASE reg.waiting # None
    BY <1>1, <2>1, <2>2, <2>4, HearsKeepsNews DEF News
  <2>5. CASE reg.waiting = None
    BY <1>1, <2>1, <2>2, <2>3, <2>5 DEF News
  <2> QED
    BY <2>4, <2>5
<1>5. CASE u = t /\ (RegisterFails(t) \/ ClickReload(t) \/ WorkerArrives(t))
  <2>1. SameNews(t)
    BY <1>1, <1>5 DEF SameNews, RegisterFails, ClickReload, WorkerArrives, Apply, Pages
  <2> QED
    BY <1>1, <1>2, <2>1, SameNewsKeeps
<1>6. CASE u = t /\ Dismiss(t)
  <2> DEFINE q == [page[t] EXCEPT !.dismissed = page[t].heard, !.refused = reg.waiting]
  <2>1. page'[t] = q /\ reg' = reg
    BY <1>1, <1>6 DEF Dismiss, browser
  <2>2. q.dismissed = page[t].heard /\ q.heard = page[t].heard /\ q.refused = reg.waiting
    BY <1>1 DEF Pages
  <2> HIDE DEF q
  <2> QED
    BY <1>1, <2>1, <2>2 DEF News
<1>7. CASE u = t /\ Remount(t)
  <2> DEFINE f == Fresh(page[t].shell, page[t].controlled)
             r == [f EXCEPT !.listens = page[t].listens,
                            !.timer = IF page[t].timer = "heal" THEN "heal" ELSE "off"]
  <2>1. f \in Pages /\ f.reg = "pending" /\ f.heard = 0 /\ f.dismissed = 0
    <3>1. page[t].shell \in 0..MaxBuild /\ page[t].controlled \in BOOLEAN
      BY <1>1 DEF Pages
    <3> QED
      BY <3>1, FreshIsAPage
  <2>2. page'[t] = r
    BY <1>1, <1>7 DEF Remount
  <2> HIDE DEF f
  <2>3. r.reg = "pending" /\ r.heard = 0 /\ r.dismissed = 0
    BY <2>1 DEF Pages
  <2> HIDE DEF r
  <2> QED
    BY <2>2, <2>3 DEF News
<1> QED
  BY <1>3, <1>4, <1>5, <1>6, <1>7

LEMMA RecoveryKeepsNews ==
    ASSUME IInv, NewsInv, NEW t \in Tabs, NEW u \in Tabs,
           \/ Poll(u) \/ GuardAges(u) \/ ChunkFails(u) \/ HandOver(u) \/ NoHandOver(u) \/ NoWorkerArrives(u)
           \/ Unreachable(u) \/ Reachable(u) \/ UnregisterFails(u)
    PROVE  News(t)'
<1>1. page[t] \in Pages /\ page \in [Tabs -> Pages] /\ reg \in Registrations /\ News(t)
  BY DEF IInv, TypeOK, NewsInv
<1>2. SameWaiting
  <2>1. Checked.waiting = reg.waiting /\ NoReg.waiting = None
    BY <1>1 DEF Checked, NoReg, Registrations
  <2> QED
    BY <2>1 DEF SameWaiting, Poll, GuardAges, ChunkFails, HandOver, NoHandOver, NoWorkerArrives, Unreachable,
       Reachable, Drop, UnregisterFails, browser
<1>3. SameNews(t)
  <2> DEFINE q == [page[t] EXCEPT !.reg = "dead"]
  <2>1. page'[t] \in {q, page[t]}
    BY DEF Poll, GuardAges, ChunkFails, HandOver, NoHandOver, NoWorkerArrives, Unreachable,
       Reachable, Drop, UnregisterFails, browser
  <2>2. q.reg = "dead" /\ q.heard = page[t].heard /\ q.dismissed = page[t].dismissed /\ q.refused = page[t].refused
    BY <1>1 DEF Pages
  <2> HIDE DEF q
  <2> QED
    BY <2>1, <2>2 DEF SameNews
<1> QED
  BY <1>1, <1>2, <1>3, SameNewsKeeps

\* Whoever has dismissed the notice still hears of every later worker.
THEOREM UpdatesAreAnnounced == Spec => []LaterUpdatesAreAnnounced
<1>1. ASSUME Init PROVE NewsInv
  <2>1. reg.waiting = None
    BY <1>1 DEF Init, NoReg
  <2>2. IInv /\ \A t \in Tabs : page[t] = Navigated
    BY <1>1, ShellAssumption, InitInvariant DEF Init
  <2>3. deployed \in 0..MaxBuild /\ None \in 0..MaxBuild /\ reg.active \in 0..MaxBuild
    BY <2>2, ShellAssumption DEF IInv, TypeOK, Builds, None, Registrations, ShellAssumption
  <2>4. \A b \in 0..MaxBuild, c \in BOOLEAN : Fresh(b, c).heard = 0 /\ Fresh(b, c).dismissed = 0
    BY ShellAssumption, FreshIsAPage
  <2>5. Navigated.heard = 0 /\ Navigated.dismissed = 0
    BY <2>3, <2>4 DEF Navigated
  <2>6. \A t \in Tabs : page[t].dismissed <= page[t].heard
    <3> SUFFICES ASSUME NEW t \in Tabs PROVE page[t].dismissed <= page[t].heard
      OBVIOUS
    <3>1. page[t].dismissed = 0 /\ page[t].heard = 0
      BY <2>2, <2>5
    <3>2. 0 <= 0
      OBVIOUS
    <3> QED
      BY <3>1, <3>2
  <2> QED
    BY <2>1, <2>6 DEF NewsInv, News
<1>2. ASSUME IInv, NewsInv, [Next]_vars PROVE NewsInv'
  <2> SUFFICES ASSUME NEW t \in Tabs PROVE News(t)'
    BY DEF NewsInv
  <2>1. CASE UNCHANGED vars \/ Deploy \/ GoesDown \/ ComesUp
    <3>1. page' = page /\ reg' = reg
      BY <2>1 DEF vars, Deploy, GoesDown, ComesUp, browser
    <3> QED
      BY <1>2, <3>1, LoadKeepsNews DEF NewsInv, SameWaiting
  <2>2. ASSUME NEW u \in Tabs, UserReload(u) \/ FallbackReload(u) \/ NetReload(u) PROVE News(t)'
    BY <1>2, <2>2, ShellAssumption, LoadedAlone, LoadKeepsNews DEF NewsInv, SameWaiting
  <2> QED
    BY <1>2, <2>1, <2>2, ShellAssumption, RegistrationKeepsNews, NoticeKeepsNews, RecoveryKeepsNews DEF Next, Recovers
<1>3. NewsInv => LaterUpdatesAreAnnounced
  BY DEF NewsInv, News, LaterUpdatesAreAnnounced
<1> QED
  BY <1>1, <1>2, <1>3, Invariance, PTL DEF Spec
=============================================================================
