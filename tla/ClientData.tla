----------------------------- MODULE ClientData -----------------------------
(***************************************************************************)
(* The query cache of one open tab: the favorites and the preferences as   *)
(* they are on screen, the optimistic changes to them (hooks.ts), and the  *)
(* server's copy.  Requests and answers travel independently.              *)
(*                                                                         *)
(* Of TanStack Query (external): onMutate runs at once, before the request;*)
(* invalidateQueries drops a fetch under way and starts another; a         *)
(* cancelled or failed fetch changes no data; a mutation ends when what    *)
(* onSettled returned has ended; the mutations of a scope run in turn.     *)
(* The server runs one request at a time and answers a whole list.         *)
(* Answers come within staleTime of the patch, so that a window that gets  *)
(* the focus meanwhile refetches nothing.                                  *)
(***************************************************************************)
EXTENDS Naturals, Sequences, SequencesExt

CONSTANTS
    N,                  \* services are 1..N, in the order of their names
    MaxWrites,          \* bound: changes to the favorites
    MaxPatches          \* bound: changes to the preferences

ASSUME ClientAssumption == N \in Nat \ {0} /\ MaxWrites \in Nat /\ MaxPatches \in Nat

VARIABLES
    stored,             \* the server's favorites, in the user's own arrangement
    prefs,              \* the server's preferences
    shown, me,          \* the caches behind the screen
    fetch,              \* the fetch of the favorites; since: writes made before it
    failed,             \* the last fetch of the favorites failed
    writes, patches,    \* the mutations, in the order in which they were made
    arranging,          \* the edit mode, with the order it was entered with
    (* history *)
    due,                \* what Abbrechen is to restore, or NoList
    applied,            \* the last order write the server has applied
    refused,            \* a write was refused, or it or its answer lost
    crossed,            \* two changes of the preferences were under way at once
    unheard             \* a preference was stored and its answer lost

caches == <<shown, me>>
server == <<stored, prefs, applied>>
history == <<due, applied, refused, crossed, unheard>>
vars == <<stored, prefs, shown, me, fetch, failed, writes, patches, arranging, due, applied, refused, crossed, unheard>>

Services == 1..N
Lists == {l \in UNION {[1..k -> Services] : k \in 0..N} : IsInjective(l)}
NoList == <<0>>
Prefs == [theme : {"light", "dark"}, order : {"alpha", "manual"}]
Changes == [theme : {"light", "dark"}] \cup [order : {"alpha", "manual"}]

\* GET /api/favorites
ByName(l) == SetToSortSeq(ToSet(l), <)
View(l, p) == IF p.order = "manual" THEN l ELSE ByName(l)
Open(m) == m.stage # "done"
Ended == [kind |-> "none", arg |-> <<>>, prev |-> <<>>, stage |-> "done"]
Idle == [stage |-> "idle"]
Asked == [stage |-> "asked", since |-> Len(writes)]

Init ==
    /\ stored \in Lists /\ prefs \in {p \in Prefs : p.theme = "light"}
    /\ shown = View(stored, prefs) /\ me = prefs
    /\ fetch = Idle /\ failed = FALSE
    /\ writes = <<>> /\ patches = <<>>
    /\ arranging = NoList
    /\ due = NoList /\ applied = 0 /\ refused = FALSE /\ crossed = FALSE /\ unheard = FALSE

-----------------------------------------------------------------------------
(* Fetches *)

\* Whoever awaits the fetch goes on when it ends, however it ends.
\* Mutant: a cancelled fetch leaves its waiters waiting.
StillAwaited(ws) == ws
Released(ws) == [i \in DOMAIN ws |-> IF ws[i].stage = "settling" THEN Ended ELSE ws[i]]

AnswerFetch ==
    /\ fetch.stage = "asked"
    /\ fetch' = [stage |-> "answered", since |-> fetch.since, list |-> View(stored, prefs)]
    /\ UNCHANGED <<server, caches, failed, writes, patches, arranging, due, refused, crossed, unheard>>

FetchArrives ==
    /\ fetch.stage = "answered"
    /\ shown' = fetch.list /\ failed' = FALSE
    /\ fetch' = Idle /\ writes' = Released(writes)
    /\ UNCHANGED <<server, me, patches, arranging, due, refused, crossed, unheard>>

FetchFails ==
    /\ fetch.stage # "idle"
    /\ failed' = TRUE
    /\ fetch' = Idle /\ writes' = Released(writes)
    /\ UNCHANGED <<server, caches, patches, arranging, due, refused, crossed, unheard>>

-----------------------------------------------------------------------------
(* Changes to the favorites *)

\* Mutant: onMutate without cancelQueries.
MutateUncancelled(kind, arg, list) ==
    /\ Len(writes) < MaxWrites
    /\ writes' = Append(writes, [kind |-> kind, arg |-> arg, prev |-> shown, stage |-> "sent"])
    /\ shown' = list /\ failed' = FALSE
    /\ UNCHANGED fetch
\* onMutate: a fetch under way is cancelled, the list is remembered and patched.
Mutate(kind, arg, list) ==
    /\ Len(writes) < MaxWrites
    /\ writes' = Append(Released(writes), [kind |-> kind, arg |-> arg, prev |-> shown, stage |-> "sent"])
    /\ shown' = list /\ failed' = FALSE
    /\ fetch' = Idle

\* The star of a tile: useFavoriteActions' add and remove.
Star(s) ==
    /\ arranging = NoList
    /\ IF s \in ToSet(shown) THEN Mutate("remove", <<s>>, Remove(shown, s))
                             ELSE Mutate("add", <<s>>, Append(shown, s))
    /\ due' = NoList
    /\ UNCHANGED <<server, me, patches, arranging, refused, crossed, unheard>>

\* useFavoritesOrderMutation's patch: what the list does not name keeps its place at
\* the end.
Reordered(ids) == SelectSeq(ids, LAMBDA s : s \in ToSet(shown))
                  \o SelectSeq(shown, LAMBDA s : s \notin ToSet(ids))
Reorder(ids) == Mutate("order", ids, Reordered(ids))

\* "Anordnen" is offered in the manual order, with something to arrange.
Arrange ==
    /\ arranging = NoList /\ me.order = "manual" /\ shown # <<>>
    /\ arranging' = shown /\ due' = NoList
    /\ UNCHANGED <<server, caches, fetch, failed, writes, patches, refused, crossed, unheard>>

Move(i, to) ==
    /\ arranging # NoList /\ me.order = "manual"
    /\ {i, to} \subseteq DOMAIN shown /\ to \in {1, i - 1, i + 1} \ {i}
    /\ Reorder(InsertAt(RemoveAt(shown, i), to, shown[i]))
    /\ UNCHANGED <<server, me, patches, arranging, due, refused, crossed, unheard>>

Done ==
    /\ arranging # NoList
    /\ arranging' = NoList
    /\ UNCHANGED <<server, caches, fetch, failed, writes, patches, due, refused, crossed, unheard>>

\* Abbrechen: one more write of the remembered list, when the screen shows another.
Cancel ==
    /\ arranging # NoList
    /\ IF arranging # shown THEN Reorder(arranging) ELSE UNCHANGED <<shown, fetch, failed, writes>>
    /\ due' = IF failed \/ \E i \in DOMAIN writes : Open(writes[i]) /\ writes[i].kind # "order"
              THEN NoList ELSE arranging
    /\ arranging' = NoList
    /\ UNCHANGED <<server, me, patches, refused, crossed, unheard>>

\* Mutant: no scope.
RunsAtOnce(i) == writes[i].stage = "sent"
\* Order writes share a scope: one runs when those before it have ended.
Runs(i) ==
    /\ writes[i].stage = "sent"
    /\ writes[i].kind = "order" =>
          \A j \in 1..(i - 1) : writes[j].kind = "order" => ~Open(writes[j])

\* What the server makes of a write: it refuses an order that is no permutation.
Accepted(w) == w.kind = "order" => ToSet(w.arg) = ToSet(stored)
Applied(w) ==
    IF w.kind = "order" THEN w.arg
    ELSE IF w.kind = "remove" THEN Remove(stored, w.arg[1])
    ELSE IF w.arg[1] \in ToSet(stored) THEN stored ELSE stored \o w.arg

\* The request arrives or is lost; its answer may be lost too.
ServeWrite(i) ==
    /\ Runs(i)
    /\ \/ /\ Accepted(writes[i])
          /\ stored' = Applied(writes[i])
          /\ applied' = IF writes[i].kind = "order" THEN i ELSE applied
          /\ \E stage \in {"ok", "error"} : writes' = [writes EXCEPT ![i].stage = stage]
       \/ writes' = [writes EXCEPT ![i].stage = "error"] /\ UNCHANGED <<stored, applied>>
    /\ refused' = (refused \/ writes'[i].stage = "error")
    /\ UNCHANGED <<prefs, caches, fetch, failed, patches, arranging, due, crossed, unheard>>

\* Mutant: nothing is invalidated after an error.
SettleOnSuccess(i) ==
    IF writes[i].stage = "error"
    THEN writes' = [writes EXCEPT ![i] = Ended] /\ UNCHANGED fetch
    ELSE writes' = [Released(writes) EXCEPT ![i].stage = "settling"] /\ fetch' = Asked
\* onSettled: the favorites are fetched again, and that is awaited.
Settle(i) ==
    /\ writes' = [Released(writes) EXCEPT ![i].stage = "settling"]
    /\ fetch' = Asked

\* The answer: onError puts back the list of before the change.
WriteAnswered(i) ==
    /\ writes[i].stage \in {"ok", "error"}
    /\ Settle(i)
    /\ IF writes[i].stage = "error"
       THEN shown' = writes[i].prev /\ failed' = FALSE
       ELSE UNCHANGED <<shown, failed>>
    /\ UNCHANGED <<server, me, patches, arranging, due, refused, crossed, unheard>>

-----------------------------------------------------------------------------
(* Changes to the preferences *)

Patched(p, change) == [f \in DOMAIN p |-> IF f \in DOMAIN change THEN change[f] ELSE p[f]]

SetPref(change) ==
    /\ Len(patches) < MaxPatches
    /\ Patched(me, change) # me
    /\ crossed' = (crossed \/ \E i \in DOMAIN patches : Open(patches[i]))
    /\ patches' = Append(patches, [change |-> change, prev |-> me, got |-> me, stage |-> "sent"])
    /\ me' = Patched(me, change)
    /\ arranging' = IF me'.order = "manual" THEN arranging ELSE NoList
    /\ UNCHANGED <<server, shown, fetch, failed, writes, due, refused, unheard>>

\* The answer to a PATCH is the whole of /api/me.
ServePatch(i) ==
    /\ patches[i].stage = "sent"
    /\ \/ /\ prefs' = Patched(prefs, patches[i].change)
          /\ \E stage \in {"ok", "error"} :
                /\ patches' = [patches EXCEPT ![i].stage = stage, ![i].got = prefs']
                /\ unheard' = (unheard \/ stage = "error")
       \/ patches' = [patches EXCEPT ![i].stage = "error"] /\ UNCHANGED <<prefs, unheard>>
    /\ UNCHANGED <<stored, applied, caches, fetch, failed, writes, arranging, due, refused, crossed>>

\* onSuccess, and the favorites are fetched again when their order changed.
Reconcile(i) ==
    /\ me' = patches[i].got
    /\ IF "order" \in DOMAIN patches[i].change
       THEN fetch' = Asked /\ writes' = Released(writes)
       ELSE UNCHANGED <<fetch, writes>>

\* Mutant: an error is not rolled back.
KeepPatch(i) == UNCHANGED <<me, fetch, writes>>
RollBack(i) == me' = patches[i].prev /\ UNCHANGED <<fetch, writes>>

PatchAnswered(i) ==
    /\ patches[i].stage \in {"ok", "error"}
    /\ IF patches[i].stage = "ok" THEN Reconcile(i) ELSE RollBack(i)
    /\ patches' = [patches EXCEPT ![i].stage = "done", ![i].prev = me', ![i].got = me']
    /\ arranging' = IF me'.order = "manual" THEN arranging ELSE NoList
    /\ UNCHANGED <<server, shown, failed, due, refused, crossed, unheard>>

Next ==
    \/ AnswerFetch \/ FetchArrives \/ FetchFails \/ Arrange \/ Done \/ Cancel
    \/ \E s \in Services : Star(s)
    \/ \E i, to \in Services : Move(i, to)
    \/ \E i \in DOMAIN writes : ServeWrite(i) \/ WriteAnswered(i)
    \/ \E change \in Changes : SetPref(change)
    \/ \E i \in DOMAIN patches : ServePatch(i) \/ PatchAnswered(i)

Spec == Init /\ [][Next]_vars

\* Requests are served and answered, or fail: the browser gives up on them.
FairSpec ==
    /\ Spec /\ WF_vars(AnswerFetch) /\ WF_vars(FetchArrives)
    /\ \A i \in 1..MaxWrites : WF_vars(i \in DOMAIN writes /\ (ServeWrite(i) \/ WriteAnswered(i)))
    /\ \A i \in 1..MaxPatches : WF_vars(i \in DOMAIN patches /\ (ServePatch(i) \/ PatchAnswered(i)))

-----------------------------------------------------------------------------
Writes == [kind : {"add", "remove", "order", "none"}, arg : Lists, prev : Lists,
           stage : {"sent", "ok", "error", "settling", "done"}]
Patches == [change : Changes, prev : Prefs, got : Prefs, stage : {"sent", "ok", "error", "done"}]

TypeOK ==
    /\ stored \in Lists /\ shown \in Lists /\ prefs \in Prefs /\ me \in Prefs
    /\ fetch \in [stage : {"idle"}] \cup [stage : {"asked"}, since : 0..MaxWrites]
                 \cup [stage : {"answered"}, since : 0..MaxWrites, list : Lists]
    /\ failed \in BOOLEAN
    /\ Len(writes) <= MaxWrites /\ \A i \in DOMAIN writes : writes[i] \in Writes
    /\ Len(patches) <= MaxPatches /\ \A i \in DOMAIN patches : patches[i] \in Patches
    /\ arranging \in Lists \cup {NoList} /\ due \in Lists \cup {NoList}
    /\ applied \in 0..MaxWrites /\ refused \in BOOLEAN /\ crossed \in BOOLEAN /\ unheard \in BOOLEAN

Quiet ==
    /\ fetch = Idle /\ ~failed
    /\ \A i \in DOMAIN writes : ~Open(writes[i])
    /\ \A i \in DOMAIN patches : ~Open(patches[i])

\* Once nothing is under way and the last fetch did not fail, the favorites on screen
\* are the server's, whatever was refused, lost or rolled back on the way there (the
\* rollbacks restore lists that others have changed since).  A preference whose
\* answer was lost may have changed their order.
QuietShowsStored == Quiet /\ ~unheard => shown = View(stored, prefs)

\* ... and so are the preferences, if no two changes of them crossed.
QuietMeIsStored == Quiet /\ ~unheard /\ ~crossed => me = prefs

\* "two moves landing out of order would persist the earlier arrangement over the later
\* one" (useFavoritesOrderMutation): the server applies orders as they were made.
OrdersApplyInTurn == [][applied' >= applied]_vars

\* A list that was asked for before a click never replaces what the click put on screen.
NoFetchOutlivesAClick ==
    fetch # Idle => \A i \in DOMAIN writes : i > fetch.since => ~Open(writes[i])

\* "What Abbrechen restores: the arrangement the screen was entered with" (cancel): once
\* all is quiet again, and nothing was refused or lost, that is what is stored.  Moves
\* alone were on their way when it was clicked, and no change came after it.
CancelRestores == Quiet /\ ~refused /\ due # NoList => stored = due

\* Every change comes to an end, those that wait for their turn included.
ChangesEnd ==
    \A i \in 1..MaxWrites :
        (i \in DOMAIN writes /\ Open(writes[i])) ~> (i \in DOMAIN writes /\ ~Open(writes[i]))

-----------------------------------------------------------------------------
(* What the proofs add to the quiet states: the way there *)

\* The answer to a change that starts a fetch of the favorites is still to come.
WriteDue == \E i \in DOMAIN writes : writes[i].stage \in {"sent", "ok", "error"}
PatchDue == \E i \in DOMAIN patches : patches[i].stage = "ok" /\ "order" \in DOMAIN patches[i].change

\* The screen shows what is stored, or a fetch that will bring it is under way or due.
ScreenFollows ==
    \/ unheard \/ WriteDue \/ PatchDue
    \/ fetch.stage = "asked"
    \/ fetch.stage = "answered" /\ fetch.list = View(stored, prefs)
    \/ fetch = Idle /\ (failed \/ shown = View(stored, prefs))

\* What the answer to a change of the preferences will put on screen is stored.
MeFollows ==
    \/ unheard \/ crossed
    \/ /\ \A i, j \in DOMAIN patches : Open(patches[i]) /\ Open(patches[j]) => i = j
       /\ \A i \in DOMAIN patches : Open(patches[i]) =>
             prefs = IF patches[i].stage = "ok" THEN patches[i].got ELSE patches[i].prev
       /\ (\A i \in DOMAIN patches : ~Open(patches[i])) => me = prefs
=============================================================================
