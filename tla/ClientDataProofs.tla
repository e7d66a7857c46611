-------------------------- MODULE ClientDataProofs --------------------------
(***************************************************************************)
(* What the optimistic changes of hooks.ts keep, for any number of         *)
(* favorites and changes: a fetch that was under way never undoes a click, *)
(* the server applies orders in the order of the moves, and when all is    *)
(* quiet the screen is what is stored.                                     *)
(***************************************************************************)
EXTENDS ClientData, SequenceTheorems, TLAPS

IsSequence(ws) == \E S : ws \in Seq(S)
Fields(w) == {"kind", "stage"} \subseteq DOMAIN w

WritesAreRecords == IsSequence(writes) /\ \A i \in DOMAIN writes : Fields(writes[i])

\* An order that waits for its turn was made after all that were applied.
OrdersWait ==
    /\ applied \in Nat /\ applied <= Len(writes)
    /\ \A i \in DOMAIN writes :
          writes[i].stage = "sent" /\ writes[i].kind = "order" => i > applied

FetchIsSince == fetch = Idle \/ fetch.since \in Nat

DInv == WritesAreRecords /\ OrdersWait /\ FetchIsSince /\ NoFetchOutlivesAClick

-----------------------------------------------------------------------------
(* Sequences of writes *)

LEMMA SequenceFacts ==
    ASSUME NEW ws, IsSequence(ws)
    PROVE  Len(ws) \in Nat /\ DOMAIN ws = 1..Len(ws)
BY LenProperties DEF IsSequence

\* A function on the indices of a sequence is a sequence as long.
LEMMA SameIndices ==
    ASSUME NEW ws, IsSequence(ws), NEW S, NEW g \in [DOMAIN ws -> S]
    PROVE  IsSequence(g) /\ Len(g) = Len(ws) /\ DOMAIN g = DOMAIN ws
<1>1. Len(ws) \in Nat /\ DOMAIN ws = 1..Len(ws)
  BY SequenceFacts
<1>2. g \in Seq(S)
  BY <1>1, SeqDef
<1>3. Len(g) = Len(ws)
  BY <1>1, <1>2, LenProperties
<1> QED
  BY <1>1, <1>2, <1>3 DEF IsSequence

LEMMA Replaced ==
    ASSUME NEW ws, IsSequence(ws), NEW i \in DOMAIN ws, NEW e
    PROVE  LET g == [ws EXCEPT ![i] = e] IN
           /\ IsSequence(g) /\ Len(g) = Len(ws) /\ DOMAIN g = DOMAIN ws
           /\ \A j \in DOMAIN ws : g[j] = IF j = i THEN e ELSE ws[j]
<1> DEFINE S == {ws[j] : j \in DOMAIN ws} \cup {e}
           g == [ws EXCEPT ![i] = e]
<1>1. ws \in [DOMAIN ws -> S]
  BY LenProperties DEF IsSequence
<1>2. g \in [DOMAIN ws -> S] /\ \A j \in DOMAIN ws : g[j] = IF j = i THEN e ELSE ws[j]
  BY <1>1
<1> HIDE DEF S
<1> QED
  BY <1>2, SameIndices

LEMMA Appended ==
    ASSUME NEW ws, IsSequence(ws), NEW e
    PROVE  LET g == Append(ws, e) IN
           /\ IsSequence(g) /\ Len(g) = Len(ws) + 1 /\ DOMAIN g = 1..(Len(ws) + 1)
           /\ g[Len(ws) + 1] = e
           /\ \A j \in DOMAIN ws : g[j] = ws[j]
<1>1. PICK S : ws \in Seq(S)
  BY DEF IsSequence
<1> DEFINE T == S \cup {e}
<1>2. ws \in Seq(T) /\ e \in T
  BY <1>1, SeqMonotonic
<1> HIDE DEF T
<1>3. /\ Append(ws, e) \in Seq(T) /\ Len(Append(ws, e)) = Len(ws) + 1
      /\ \A j \in 1..Len(ws) : Append(ws, e)[j] = ws[j]
      /\ Append(ws, e)[Len(ws) + 1] = e
  BY <1>2, AppendProperties
<1>4. Len(ws) \in Nat /\ DOMAIN ws = 1..Len(ws)
  BY SequenceFacts
<1>5. DOMAIN Append(ws, e) = 1..(Len(ws) + 1)
  BY <1>3, LenProperties
<1> QED
  BY <1>3, <1>4, <1>5 DEF IsSequence

LEMMA ReleasedFacts ==
    ASSUME NEW ws, IsSequence(ws)
    PROVE  /\ IsSequence(Released(ws)) /\ Len(Released(ws)) = Len(ws)
           /\ DOMAIN Released(ws) = DOMAIN ws
           /\ \A i \in DOMAIN ws :
                 Released(ws)[i] = IF ws[i].stage = "settling" THEN Ended ELSE ws[i]
<1> DEFINE S == {ws[j] : j \in DOMAIN ws} \cup {Ended}
<1>1. /\ Released(ws) \in [DOMAIN ws -> S]
      /\ \A i \in DOMAIN ws : Released(ws)[i] = IF ws[i].stage = "settling" THEN Ended ELSE ws[i]
  BY DEF Released
<1> HIDE DEF S
<1> QED
  BY <1>1, SameIndices

-----------------------------------------------------------------------------
(* What a step does to the writes *)

\* No write starts or opens again: it goes on, or ends.
GoesOn(ws, now) ==
    /\ IsSequence(now) /\ Len(now) = Len(ws) /\ DOMAIN now = DOMAIN ws
    /\ \A i \in DOMAIN now : Fields(now[i])
    /\ \A i \in DOMAIN ws : Open(now[i]) => Open(ws[i]) /\ now[i].kind = ws[i].kind
    /\ \A i \in DOMAIN ws : now[i].stage = "sent" => ws[i].stage = "sent"

\* One more write, behind the others.
OneMore(ws, now) ==
    \E old, e :
       /\ GoesOn(ws, old) /\ now = Append(old, e)
       /\ Fields(e) /\ e.stage = "sent"

LEMMA StaysIsGoingOn ==
    ASSUME WritesAreRecords
    PROVE  GoesOn(writes, writes)
BY DEF GoesOn, WritesAreRecords

LEMMA ReleasedGoesOn ==
    ASSUME WritesAreRecords
    PROVE  GoesOn(writes, Released(writes))
<1>1. Fields(Ended) /\ ~Open(Ended) /\ Ended.stage # "sent"
  BY DEF Fields, Ended, Open
<1> QED
  BY <1>1, ReleasedFacts DEF GoesOn, WritesAreRecords

LEMMA StagedGoesOn ==
    ASSUME WritesAreRecords, NEW old, GoesOn(writes, old), NEW i \in DOMAIN writes,
           Open(writes[i]), NEW stage, stage # "sent", Open(old[i])
    PROVE  GoesOn(writes, [old EXCEPT ![i].stage = stage])
<1> DEFINE w == [old[i] EXCEPT !.stage = stage]
<1>1. Fields(old[i])
  BY DEF GoesOn
<1>2. Fields(w) /\ w.stage = stage /\ w.kind = old[i].kind
  BY <1>1 DEF Fields
<1>3. [old EXCEPT ![i].stage = stage] = [old EXCEPT ![i] = w]
  OBVIOUS
<1> HIDE DEF w
<1>4. IsSequence(old) /\ i \in DOMAIN old
  BY DEF GoesOn
<1> DEFINE g == [old EXCEPT ![i].stage = stage]
<1>5. /\ IsSequence(g) /\ Len(g) = Len(old) /\ DOMAIN g = DOMAIN old
      /\ \A j \in DOMAIN old : g[j] = IF j = i THEN w ELSE old[j]
  BY <1>3, <1>4, Replaced
<1> HIDE DEF g
<1>6. \A j \in DOMAIN old : Fields(g[j])
  BY <1>2, <1>5 DEF GoesOn
<1>7. \A j \in DOMAIN writes : Open(g[j]) => Open(writes[j]) /\ g[j].kind = writes[j].kind
  BY <1>2, <1>5 DEF GoesOn
<1>8. \A j \in DOMAIN writes : g[j].stage = "sent" => writes[j].stage = "sent"
  BY <1>2, <1>5 DEF GoesOn
<1> QED
  BY <1>5, <1>6, <1>7, <1>8 DEF GoesOn, g

LEMMA SettleGoesOn ==
    ASSUME WritesAreRecords, NEW i \in DOMAIN writes, writes[i].stage \in {"ok", "error"}, Settle(i)
    PROVE  GoesOn(writes, writes')
<1>1. Open(writes[i]) /\ Released(writes)[i] = writes[i]
  BY ReleasedFacts DEF Open, WritesAreRecords
<1> QED
  BY <1>1, ReleasedGoesOn, StagedGoesOn DEF Settle

\* What a step does to the writes, the fetch and what the server has applied.
WritesGoOn == GoesOn(writes, writes') /\ applied' = applied
MutateStep == OneMore(writes, writes') /\ fetch' = Idle /\ applied' = applied
FetchStep ==
    \/ fetch' = Idle
    \/ fetch' = [stage |-> "asked", since |-> Len(writes)]
    \/ fetch # Idle /\ fetch' # Idle /\ fetch'.since = fetch.since
ServeStep(i) ==
    /\ GoesOn(writes, writes') /\ fetch' = fetch
    /\ Runs(i) /\ writes[i].kind = "order" /\ applied' = i
    /\ writes'[i].stage # "sent"

LEMMA MutateIsOneMore ==
    ASSUME WritesAreRecords, NEW kind, NEW arg, NEW list, Mutate(kind, arg, list)
    PROVE  OneMore(writes, writes') /\ fetch' = Idle
<1> DEFINE e == [kind |-> kind, arg |-> arg, prev |-> shown, stage |-> "sent"]
<1>1. Fields(e) /\ e.stage = "sent"
  BY DEF Fields
<1>2. writes' = Append(Released(writes), e) /\ fetch' = Idle
  BY DEF Mutate
<1> HIDE DEF e
<1> QED
  BY <1>1, <1>2, ReleasedGoesOn DEF OneMore

LEMMA ServeKinds ==
    ASSUME WritesAreRecords, NEW i \in DOMAIN writes, ServeWrite(i)
    PROVE  (WritesGoOn /\ FetchStep /\ fetch' = fetch) \/ ServeStep(i)
<1>1. writes[i].stage = "sent" /\ Open(writes[i]) /\ Runs(i) /\ fetch' = fetch
  BY DEF ServeWrite, Runs, Open
<1>2. PICK stage \in {"ok", "error"} : writes' = [writes EXCEPT ![i].stage = stage]
  BY DEF ServeWrite
<1>3. GoesOn(writes, writes')
  BY <1>1, <1>2, StagedGoesOn, StaysIsGoingOn
<1>4. writes'[i].stage # "sent"
  BY <1>2 DEF WritesAreRecords, Fields
<1>5. applied' = applied \/ (writes[i].kind = "order" /\ applied' = i)
  BY DEF ServeWrite
<1>6. FetchStep
  BY <1>1 DEF FetchStep
<1> QED
  BY <1>1, <1>3, <1>4, <1>5, <1>6 DEF WritesGoOn, ServeStep

LEMMA StepKinds ==
    ASSUME WritesAreRecords, [Next]_vars
    PROVE  \/ WritesGoOn /\ FetchStep
           \/ MutateStep
           \/ \E i \in DOMAIN writes : ServeStep(i)
<1> USE DEF WritesGoOn, FetchStep
<1>0. GoesOn(writes, writes) /\ GoesOn(writes, Released(writes))
  BY StaysIsGoingOn, ReleasedGoesOn
<1>1. CASE AnswerFetch
  <2>1. fetch' # Idle /\ fetch # Idle /\ fetch'.since = fetch.since
    BY <1>1 DEF AnswerFetch, Idle
  <2> QED
    BY <1>0, <1>1, <2>1 DEF AnswerFetch, server
<1>2. CASE FetchArrives \/ FetchFails
  BY <1>0, <1>2 DEF FetchArrives, FetchFails, server
<1>3. CASE Arrange \/ Done
  BY <1>0, <1>3 DEF Arrange, Done, server
<1>4. CASE Cancel
  <2>1. CASE arranging # shown
    BY <1>4, <2>1, MutateIsOneMore DEF Cancel, Reorder, MutateStep, server
  <2>2. CASE arranging = shown
    BY <1>0, <1>4, <2>2 DEF Cancel, server
  <2> QED
    BY <2>1, <2>2
<1>5. ASSUME NEW s \in Services, Star(s) PROVE MutateStep
  BY <1>5, MutateIsOneMore DEF Star, MutateStep, server
<1>6. ASSUME NEW i \in Services, NEW to \in Services, Move(i, to) PROVE MutateStep
  BY <1>6, MutateIsOneMore DEF Move, Reorder, MutateStep, server
<1>7. ASSUME NEW i \in DOMAIN writes, WriteAnswered(i) PROVE WritesGoOn /\ FetchStep
  BY <1>7, SettleGoesOn DEF WriteAnswered, Settle, Asked, server
<1>8. ASSUME NEW change \in Changes, SetPref(change) PROVE WritesGoOn /\ FetchStep
  BY <1>0, <1>8 DEF SetPref, server
<1>9. ASSUME NEW i \in DOMAIN patches, ServePatch(i) \/ PatchAnswered(i) PROVE WritesGoOn /\ FetchStep
  BY <1>0, <1>9 DEF ServePatch, PatchAnswered, Reconcile, RollBack, Asked, server
<1>10. CASE UNCHANGED vars
  BY <1>0, <1>10 DEF vars
<1> QED
  BY <1>1, <1>2, <1>3, <1>4, <1>5, <1>6, <1>7, <1>8, <1>9, <1>10, ServeKinds DEF Next

-----------------------------------------------------------------------------
(* The invariant *)

LEMMA OneMoreFacts ==
    ASSUME WritesAreRecords, NEW now, OneMore(writes, now)
    PROVE  /\ IsSequence(now) /\ Len(now) = Len(writes) + 1 /\ DOMAIN now = 1..(Len(writes) + 1)
           /\ Len(writes) \in Nat /\ DOMAIN writes = 1..Len(writes)
           /\ \A i \in DOMAIN now : Fields(now[i])
           /\ \A i \in DOMAIN writes :
                 now[i].stage = "sent" => writes[i].stage = "sent" /\ now[i].kind = writes[i].kind
<1>1. PICK old, e : /\ GoesOn(writes, old) /\ now = Append(old, e)
                    /\ Fields(e) /\ e.stage = "sent"
  BY DEF OneMore
<1>2. IsSequence(old) /\ Len(old) = Len(writes) /\ DOMAIN old = DOMAIN writes
  BY <1>1 DEF GoesOn
<1>3. /\ IsSequence(now) /\ Len(now) = Len(old) + 1 /\ DOMAIN now = 1..(Len(old) + 1)
      /\ now[Len(old) + 1] = e
      /\ \A j \in DOMAIN old : now[j] = old[j]
  BY <1>1, <1>2, Appended
<1>4. Len(writes) \in Nat /\ DOMAIN writes = 1..Len(writes)
  BY SequenceFacts DEF WritesAreRecords
<1>5. \A i \in DOMAIN now : Fields(now[i])
  BY <1>1, <1>2, <1>3, <1>4 DEF GoesOn
<1>6. \A i \in DOMAIN writes :
         now[i].stage = "sent" => writes[i].stage = "sent" /\ now[i].kind = writes[i].kind
  BY <1>1, <1>2, <1>3 DEF GoesOn, Open
<1> QED
  BY <1>2, <1>3, <1>4, <1>5, <1>6

LEMMA RecordsStep ==
    ASSUME WritesAreRecords, [Next]_vars
    PROVE  WritesAreRecords'
<1>1. CASE GoesOn(writes, writes')
  BY <1>1 DEF GoesOn, WritesAreRecords
<1>2. CASE OneMore(writes, writes')
  BY <1>2, OneMoreFacts DEF WritesAreRecords
<1> QED
  BY <1>1, <1>2, StepKinds DEF WritesGoOn, MutateStep, ServeStep

LEMMA FetchInvStep ==
    ASSUME WritesAreRecords, FetchIsSince, NoFetchOutlivesAClick, [Next]_vars
    PROVE  FetchIsSince' /\ NoFetchOutlivesAClick'
<1> USE DEF FetchIsSince, NoFetchOutlivesAClick
<1>1. Idle' = Idle
  BY DEF Idle
<1>2. CASE fetch' = Idle
  BY <1>1, <1>2
<1>3. CASE GoesOn(writes, writes') /\ FetchStep /\ fetch' # Idle
  <2>1. /\ Len(writes) \in Nat /\ DOMAIN writes' = 1..Len(writes)
        /\ DOMAIN writes = 1..Len(writes)
    BY <1>3, SequenceFacts DEF GoesOn, WritesAreRecords
  <2>2. \A i \in DOMAIN writes : Open(writes'[i]) => Open(writes[i])
    BY <1>3 DEF GoesOn
  <2>3. CASE fetch' = [stage |-> "asked", since |-> Len(writes)]
    <3>1. fetch'.since = Len(writes)
      BY <2>3
    <3> QED
      BY <2>1, <3>1
  <2>4. CASE fetch # Idle /\ fetch'.since = fetch.since
    BY <2>1, <2>2, <2>4 DEF Open
  <2> QED
    BY <1>3, <2>3, <2>4 DEF FetchStep
<1>4. ASSUME NEW i \in DOMAIN writes, ServeStep(i) PROVE FetchStep
  BY <1>4 DEF ServeStep, FetchStep
<1> QED
  BY <1>2, <1>3, <1>4, StepKinds DEF WritesGoOn, MutateStep, ServeStep

LEMMA OrdersStep ==
    ASSUME WritesAreRecords, OrdersWait, [Next]_vars
    PROVE  OrdersWait' /\ applied' >= applied
<1> USE DEF OrdersWait
<1>0. Len(writes) \in Nat /\ DOMAIN writes = 1..Len(writes)
  BY SequenceFacts DEF WritesAreRecords
<1>1. CASE WritesGoOn
  BY <1>0, <1>1 DEF WritesGoOn, GoesOn, Open
<1>2. CASE MutateStep
  <2>1. /\ Len(writes') = Len(writes) + 1 /\ DOMAIN writes' = 1..(Len(writes) + 1)
        /\ \A i \in DOMAIN writes :
              writes'[i].stage = "sent" => writes[i].stage = "sent" /\ writes'[i].kind = writes[i].kind
    BY <1>2, OneMoreFacts DEF MutateStep
  <2> QED
    BY <1>0, <1>2, <2>1 DEF MutateStep
<1>3. ASSUME NEW i \in DOMAIN writes, ServeStep(i)
      PROVE  OrdersWait' /\ applied' >= applied
  <2>1. writes[i].stage = "sent" /\ writes[i].kind = "order" /\ applied' = i
    BY <1>3 DEF ServeStep, Runs
  <2>2. i > applied /\ i \in 1..Len(writes)
    BY <1>0, <2>1
  <2>3. ASSUME NEW j \in DOMAIN writes, writes'[j].stage = "sent", writes'[j].kind = "order"
        PROVE  j > i
    <3>1. writes[j].stage = "sent" /\ writes[j].kind = "order" /\ j # i
      BY <1>3, <2>3 DEF ServeStep, GoesOn, Open
    <3>2. ~(j \in 1..(i - 1))
      BY <1>3, <2>1, <3>1 DEF ServeStep, Runs, Open
    <3> QED
      BY <1>0, <2>2, <3>1, <3>2
  <2>4. Len(writes') = Len(writes) /\ DOMAIN writes' = DOMAIN writes
    BY <1>3 DEF ServeStep, GoesOn
  <2> QED
    BY <1>0, <2>1, <2>2, <2>3, <2>4
<1> QED
  BY <1>1, <1>2, <1>3, StepKinds

THEOREM WritesInvariant == Spec => []DInv
<1>1. Init => DInv
  <2>1. IsSequence(<<>>) /\ Len(<<>>) = 0 /\ DOMAIN <<>> = {}
    BY EmptySeq, LenProperties DEF IsSequence
  <2> QED
    BY <2>1 DEF Init, DInv, WritesAreRecords, OrdersWait, FetchIsSince, NoFetchOutlivesAClick
<1>2. DInv /\ [Next]_vars => DInv'
  BY RecordsStep, FetchInvStep, OrdersStep DEF DInv
<1> QED
  BY <1>1, <1>2, PTL DEF Spec

\* A list that was asked for before a click never replaces what the click put on
\* screen: useFavoriteActions cancels the fetch before it patches the list.
THEOREM FetchesYieldToClicks == Spec => []NoFetchOutlivesAClick
<1>1. DInv => NoFetchOutlivesAClick
  BY DEF DInv
<1> QED
  BY <1>1, WritesInvariant, PTL

\* The scope of useFavoritesOrderMutation: the server applies the orders of the
\* edit mode as they were made, whatever is lost or refused.
THEOREM OrdersArriveInTurn == Spec => OrdersApplyInTurn
<1>1. ASSUME DInv, [Next]_vars PROVE [applied' >= applied]_vars
  BY <1>1, OrdersStep DEF DInv
<1> QED
  BY <1>1, WritesInvariant, PTL DEF Spec, OrdersApplyInTurn

-----------------------------------------------------------------------------
(* The preferences *)

\* What the proofs need to know of the changes to the preferences.
PatchesAreRecords ==
    /\ IsSequence(patches) /\ prefs \in Prefs
    /\ unheard \in BOOLEAN /\ crossed \in BOOLEAN
    /\ \A i \in DOMAIN patches :
          /\ {"change", "prev", "got", "stage"} \subseteq DOMAIN patches[i]
          /\ patches[i].change \in Changes

LEMMA PatchedFacts ==
    ASSUME NEW p \in Prefs, NEW change \in Changes
    PROVE  /\ Patched(p, change) \in Prefs
           /\ "order" \notin DOMAIN change => Patched(p, change).order = p.order
<1> DEFINE q == Patched(p, change)
<1>2. DOMAIN p = {"theme", "order"}
  BY DEF Prefs
<1>1. q = [x \in DOMAIN p |-> IF x \in DOMAIN change THEN change[x] ELSE p[x]]
  BY DEF Patched
<1>3. CASE change \in [theme : {"light", "dark"}]
  <2>1. DOMAIN change = {"theme"}
    BY <1>3
  <2>2. q = [theme |-> change.theme, order |-> p.order]
    BY <1>1, <1>2, <2>1
  <2> QED
    BY <1>3, <2>2 DEF Prefs
<1>4. CASE change \in [order : {"alpha", "manual"}]
  <2>1. DOMAIN change = {"order"}
    BY <1>4
  <2>2. q = [theme |-> p.theme, order |-> change.order]
    BY <1>1, <1>2, <2>1
  <2> QED
    BY <1>4, <2>1, <2>2 DEF Prefs
<1> QED
  BY <1>3, <1>4 DEF Changes

\* What a step does to the patches: nothing, or one is made, served or answered.
PatchMade ==
    \E change \in Changes :
        /\ patches' = Append(patches, [change |-> change, prev |-> me, got |-> me, stage |-> "sent"])
        /\ crossed' = (crossed \/ \E i \in DOMAIN patches : Open(patches[i]))
        /\ UNCHANGED <<prefs, unheard>>
PatchServed(i) ==
    /\ patches[i].stage = "sent" /\ UNCHANGED <<me, crossed>>
    /\ \E p :
        /\ patches' = [patches EXCEPT ![i] = p]
        /\ {"change", "prev", "got", "stage"} \subseteq DOMAIN p
        /\ p.change = patches[i].change /\ p.prev = patches[i].prev
        /\ \/ prefs' = Patched(prefs, p.change) /\ p.stage = "ok" /\ p.got = prefs' /\ unheard' = unheard
           \/ prefs' = Patched(prefs, p.change) /\ p.stage = "error" /\ unheard' = TRUE
           \/ UNCHANGED <<prefs, unheard>> /\ p.stage = "error"
PatchEnds(i) ==
    /\ patches[i].stage \in {"ok", "error"} /\ UNCHANGED <<prefs, crossed, unheard>>
    /\ me' = IF patches[i].stage = "ok" THEN patches[i].got ELSE patches[i].prev
    /\ \E p :
        /\ patches' = [patches EXCEPT ![i] = p]
        /\ {"change", "prev", "got", "stage"} \subseteq DOMAIN p
        /\ p.change = patches[i].change /\ p.stage = "done"
PatchesStay == UNCHANGED <<patches, prefs, me, crossed, unheard>>

LEMMA ServeIsServed ==
    ASSUME PatchesAreRecords, NEW i \in DOMAIN patches, ServePatch(i)
    PROVE  PatchServed(i)
<1> DEFINE old == patches[i]
<1>1. {"change", "prev", "got", "stage"} \subseteq DOMAIN old
  BY DEF PatchesAreRecords
<1>2. CASE prefs' = prefs /\ unheard' = unheard /\ patches' = [patches EXCEPT ![i].stage = "error"]
  <2> DEFINE p == [old EXCEPT !.stage = "error"]
  <2>1. /\ DOMAIN p = DOMAIN old /\ p.change = old.change /\ p.prev = old.prev /\ p.stage = "error"
    BY <1>1
  <2>2. patches' = [patches EXCEPT ![i] = p]
    BY <1>2
  <2> HIDE DEF p
  <2> QED
    BY <1>1, <1>2, <2>1, <2>2 DEF ServePatch, PatchServed, caches
<1>3. ASSUME prefs' = Patched(prefs, old.change), NEW stage \in {"ok", "error"},
             patches' = [patches EXCEPT ![i].stage = stage, ![i].got = prefs'],
             unheard' = (unheard \/ stage = "error")
      PROVE  PatchServed(i)
  <2> DEFINE p == [[old EXCEPT !.stage = stage] EXCEPT !.got = prefs']
  <2>1. /\ DOMAIN p = DOMAIN old /\ p.change = old.change /\ p.prev = old.prev
        /\ p.stage = stage /\ p.got = prefs'
    BY <1>1
  <2>2. patches' = [patches EXCEPT ![i] = p]
    BY <1>3
  <2>3. \/ stage = "ok" /\ unheard' = unheard
        \/ stage = "error" /\ unheard' = TRUE
    BY <1>3 DEF PatchesAreRecords
  <2>4. old.stage = "sent" /\ UNCHANGED <<me, crossed>>
    BY DEF ServePatch, caches
  <2> HIDE DEF p
  <2> QED
    BY <1>1, <1>3, <2>1, <2>2, <2>3, <2>4 DEF PatchServed
<1> QED
  BY <1>2, <1>3 DEF ServePatch

LEMMA AnswerEnds ==
    ASSUME PatchesAreRecords, NEW i \in DOMAIN patches, PatchAnswered(i)
    PROVE  PatchEnds(i)
<1> DEFINE old == patches[i]
           p == [[[old EXCEPT !.stage = "done"] EXCEPT !.prev = me'] EXCEPT !.got = me']
<1>1. {"change", "prev", "got", "stage"} \subseteq DOMAIN old
  BY DEF PatchesAreRecords
<1>2. DOMAIN p = DOMAIN old /\ p.change = old.change /\ p.stage = "done"
  BY <1>1
<1>3. patches' = [patches EXCEPT ![i] = p]
  BY DEF PatchAnswered
<1> HIDE DEF p
<1> QED
  BY <1>1, <1>2, <1>3 DEF PatchAnswered, PatchEnds, Reconcile, RollBack, server

LEMMA PatchKinds ==
    ASSUME PatchesAreRecords, [Next]_vars
    PROVE  \/ PatchesStay \/ PatchMade
           \/ \E i \in DOMAIN patches : PatchServed(i) \/ PatchEnds(i)
<1> USE DEF PatchesStay
<1>1. CASE AnswerFetch \/ FetchArrives \/ FetchFails \/ Arrange \/ Done \/ Cancel
  BY <1>1 DEF AnswerFetch, FetchArrives, FetchFails, Arrange, Done, Cancel, caches, server
<1>2. ASSUME NEW s \in Services, Star(s) PROVE PatchesStay
  BY <1>2 DEF Star, server
<1>3. ASSUME NEW i \in Services, NEW to \in Services, Move(i, to) PROVE PatchesStay
  BY <1>3 DEF Move, server
<1>4. ASSUME NEW i \in DOMAIN writes, ServeWrite(i) \/ WriteAnswered(i) PROVE PatchesStay
  BY <1>4 DEF ServeWrite, WriteAnswered, server, caches
<1>5. ASSUME NEW change \in Changes, SetPref(change) PROVE PatchMade
  BY <1>5 DEF SetPref, PatchMade, server
<1>6. CASE UNCHANGED vars
  BY <1>6 DEF vars
<1> QED
  BY <1>1, <1>2, <1>3, <1>4, <1>5, <1>6, ServeIsServed, AnswerEnds DEF Next

LEMMA PatchesStep ==
    ASSUME PatchesAreRecords, [Next]_vars
    PROVE  PatchesAreRecords'
<1> USE DEF PatchesAreRecords
<1>1. CASE PatchesStay
  BY <1>1 DEF PatchesStay
<1>2. CASE PatchMade
  <2>1. PICK change \in Changes :
           patches' = Append(patches, [change |-> change, prev |-> me, got |-> me, stage |-> "sent"])
    BY <1>2 DEF PatchMade
  <2> DEFINE e == [change |-> change, prev |-> me, got |-> me, stage |-> "sent"]
  <2>2. {"change", "prev", "got", "stage"} \subseteq DOMAIN e /\ e.change \in Changes
    OBVIOUS
  <2> HIDE DEF e
  <2>3. /\ IsSequence(patches') /\ DOMAIN patches' = 1..(Len(patches) + 1)
        /\ patches'[Len(patches) + 1] = e
        /\ \A j \in DOMAIN patches : patches'[j] = patches[j]
    BY <2>1, Appended DEF e
  <2>4. Len(patches) \in Nat /\ DOMAIN patches = 1..Len(patches)
    BY SequenceFacts
  <2> QED
    BY <1>2, <2>2, <2>3, <2>4 DEF PatchMade
<1>3. ASSUME NEW i \in DOMAIN patches, PatchServed(i) \/ PatchEnds(i) PROVE PatchesAreRecords'
  <2>1. PICK p : /\ patches' = [patches EXCEPT ![i] = p]
                 /\ {"change", "prev", "got", "stage"} \subseteq DOMAIN p
                 /\ p.change = patches[i].change
    BY <1>3 DEF PatchServed, PatchEnds
  <2>2. /\ IsSequence(patches') /\ DOMAIN patches' = DOMAIN patches
        /\ \A j \in DOMAIN patches : patches'[j] = IF j = i THEN p ELSE patches[j]
    BY <2>1, Replaced
  <2>3. prefs' \in Prefs /\ unheard' \in BOOLEAN /\ crossed' \in BOOLEAN
    BY <1>3, PatchedFacts DEF PatchServed, PatchEnds
  <2> QED
    BY <2>1, <2>2, <2>3
<1> QED
  BY <1>1, <1>2, <1>3, PatchKinds

\* What is open is one change, and its answer will show what is stored.
LEMMA MeStep ==
    ASSUME PatchesAreRecords, MeFollows, [Next]_vars
    PROVE  MeFollows'
<1> SUFFICES ASSUME ~unheard', ~crossed' PROVE MeFollows'
  BY DEF MeFollows
<1> USE DEF MeFollows
<1>1. CASE PatchesStay
  BY <1>1 DEF PatchesStay
<1>2. CASE PatchMade
  <2>1. PICK change \in Changes :
           patches' = Append(patches, [change |-> change, prev |-> me, got |-> me, stage |-> "sent"])
    BY <1>2 DEF PatchMade
  <2> DEFINE e == [change |-> change, prev |-> me, got |-> me, stage |-> "sent"]
  <2>2. e.stage = "sent" /\ e.prev = me
    OBVIOUS
  <2> HIDE DEF e
  <2>3. /\ DOMAIN patches' = 1..(Len(patches) + 1)
        /\ patches'[Len(patches) + 1] = e
        /\ \A j \in DOMAIN patches : patches'[j] = patches[j]
    BY <2>1, Appended DEF e, PatchesAreRecords
  <2>4. Len(patches) \in Nat /\ DOMAIN patches = 1..Len(patches)
    BY SequenceFacts DEF PatchesAreRecords
  <2>5. crossed' = (crossed \/ \E i \in DOMAIN patches : Open(patches[i]))
    BY <1>2 DEF PatchMade
  <2>6. (\A i \in DOMAIN patches : ~Open(patches[i])) /\ ~crossed
    BY <2>5, Zenon DEF PatchesAreRecords
  <2>7. ~unheard /\ prefs' = prefs
    BY <1>2 DEF PatchMade
  <2> QED
    BY <2>2, <2>3, <2>4, <2>6, <2>7 DEF Open
<1>3. ASSUME NEW i \in DOMAIN patches, PatchServed(i) PROVE MeFollows'
  <2>1. PICK p :
           /\ patches' = [patches EXCEPT ![i] = p] /\ p.prev = patches[i].prev
           /\ \/ p.stage = "ok" /\ p.got = prefs' /\ unheard' = unheard
              \/ UNCHANGED <<prefs, unheard>> /\ p.stage = "error"
    BY <1>3 DEF PatchServed
  <2>2. /\ DOMAIN patches' = DOMAIN patches
        /\ \A j \in DOMAIN patches : patches'[j] = IF j = i THEN p ELSE patches[j]
    BY <2>1, Replaced DEF PatchesAreRecords
  <2>3. patches[i].stage = "sent" /\ UNCHANGED crossed
    BY <1>3 DEF PatchServed
  <2> QED
    BY <2>1, <2>2, <2>3 DEF Open
<1>4. ASSUME NEW i \in DOMAIN patches, PatchEnds(i) PROVE MeFollows'
  <2>1. PICK p : patches' = [patches EXCEPT ![i] = p] /\ p.stage = "done"
    BY <1>4 DEF PatchEnds
  <2>2. /\ DOMAIN patches' = DOMAIN patches
        /\ \A j \in DOMAIN patches : patches'[j] = IF j = i THEN p ELSE patches[j]
    BY <2>1, Replaced DEF PatchesAreRecords
  <2> QED
    BY <1>4, <2>1, <2>2 DEF PatchEnds, Open
<1> QED
  BY <1>1, <1>2, <1>3, <1>4, PatchKinds

-----------------------------------------------------------------------------
(* The favorites on screen *)

LEMMA ReleasedStaysDue ==
    ASSUME WritesAreRecords, WriteDue, writes' = Released(writes)
    PROVE  WriteDue'
BY ReleasedFacts DEF WriteDue, WritesAreRecords

LEMMA MutateIsDue ==
    ASSUME WritesAreRecords, NEW kind, NEW arg, NEW list, Mutate(kind, arg, list)
    PROVE  WriteDue'
<1>1. PICK old, e : GoesOn(writes, old) /\ writes' = Append(old, e) /\ e.stage = "sent"
  BY MutateIsOneMore DEF OneMore
<1>2. IsSequence(old) /\ Len(old) \in Nat
  BY <1>1, SequenceFacts DEF GoesOn
<1>3. DOMAIN writes' = 1..(Len(old) + 1) /\ writes'[Len(old) + 1] = e
  BY <1>1, <1>2, Appended
<1>4. Len(old) + 1 \in DOMAIN writes'
  BY <1>2, <1>3
<1> QED
  BY <1>1, <1>3, <1>4 DEF WriteDue

LEMMA ServedIsDue ==
    ASSUME WritesAreRecords, NEW i \in DOMAIN writes, ServeWrite(i)
    PROVE  WriteDue'
<1>1. PICK stage \in {"ok", "error"} : writes' = [writes EXCEPT ![i].stage = stage]
  BY DEF ServeWrite
<1>2. DOMAIN writes' = DOMAIN writes /\ writes'[i].stage = stage
  BY <1>1 DEF WritesAreRecords, Fields
<1> QED
  BY <1>1, <1>2 DEF WriteDue

\* A change of the preferences that is served changes the order of the list only if a
\* fetch follows its answer, or the answer is lost.
LEMMA ServedPatchKeepsView ==
    ASSUME PatchesAreRecords, NEW i \in DOMAIN patches, PatchServed(i), ~unheard'
    PROVE  /\ ~unheard
           /\ PatchDue' \/ prefs'.order = prefs.order
           /\ PatchDue => PatchDue'
<1> USE DEF PatchDue
<1>1. PICK p :
         /\ patches' = [patches EXCEPT ![i] = p] /\ p.change = patches[i].change
         /\ \/ prefs' = Patched(prefs, p.change) /\ p.stage = "ok" /\ unheard' = unheard
            \/ prefs' = Patched(prefs, p.change) /\ p.stage = "error" /\ unheard' = TRUE
            \/ UNCHANGED <<prefs, unheard>> /\ p.stage = "error"
  BY DEF PatchServed
<1>2. /\ DOMAIN patches' = DOMAIN patches
      /\ \A j \in DOMAIN patches : patches'[j] = IF j = i THEN p ELSE patches[j]
  BY <1>1, Replaced DEF PatchesAreRecords
<1>3. patches[i].stage = "sent"
  BY DEF PatchServed
<1>4. "order" \notin DOMAIN p.change => Patched(prefs, p.change).order = prefs.order
  BY <1>1, PatchedFacts DEF PatchesAreRecords
<1> QED
  BY <1>1, <1>2, <1>3, <1>4

LEMMA PatchesStayDue ==
    ASSUME PatchesAreRecords, PatchDue, PatchMade \/ PatchesStay
    PROVE  PatchDue'
<1>1. CASE PatchesStay
  BY <1>1 DEF PatchesStay, PatchDue
<1>2. CASE PatchMade
  <2>1. PICK e : patches' = Append(patches, e)
    BY <1>2 DEF PatchMade
  <2>2. /\ DOMAIN patches' = 1..(Len(patches) + 1)
        /\ \A j \in DOMAIN patches : patches'[j] = patches[j]
        /\ Len(patches) \in Nat /\ DOMAIN patches = 1..Len(patches)
    BY <2>1, Appended, SequenceFacts DEF PatchesAreRecords
  <2> QED
    BY <2>2 DEF PatchDue
<1> QED
  BY <1>1, <1>2

LEMMA EndedPatchKeepsDue ==
    ASSUME PatchesAreRecords, PatchDue, NEW i \in DOMAIN patches, PatchAnswered(i)
    PROVE  PatchDue' \/ fetch' = Asked
<1>1. PICK p : patches' = [patches EXCEPT ![i] = p]
  BY AnswerEnds DEF PatchEnds
<1>2. /\ DOMAIN patches' = DOMAIN patches
      /\ \A j \in DOMAIN patches : patches'[j] = IF j = i THEN p ELSE patches[j]
  BY <1>1, Replaced DEF PatchesAreRecords
<1>3. CASE patches[i].stage = "ok" /\ "order" \in DOMAIN patches[i].change
  BY <1>3 DEF PatchAnswered, Reconcile
<1> QED
  BY <1>2, <1>3 DEF PatchDue

\* Whatever a step leaves as it was keeps the screen in step with the server.
LEMMA ScreenStays ==
    ASSUME ScreenFollows, WriteDue => WriteDue', PatchDue => PatchDue', unheard' = unheard,
           UNCHANGED <<shown, fetch, failed, stored>>, prefs'.order = prefs.order
    PROVE  ScreenFollows'
<1>1. View(stored, prefs)' = View(stored, prefs) /\ Idle' = Idle
  BY DEF View, Idle
<1> QED
  BY <1>1 DEF ScreenFollows

LEMMA ScreenStep ==
    ASSUME WritesAreRecords, PatchesAreRecords, ScreenFollows, [Next]_vars
    PROVE  ScreenFollows'
<1>0. /\ Idle' = Idle /\ Idle.stage = "idle" /\ Asked.stage = "asked"
      /\ View(stored, prefs)' = View(stored', prefs')
  BY DEF Idle, Asked, View
<1>1. CASE AnswerFetch
  <2>1. fetch'.stage = "answered" /\ fetch'.list = View(stored, prefs)
    BY <1>1 DEF AnswerFetch
  <2>2. UNCHANGED <<stored, prefs>>
    BY <1>1 DEF AnswerFetch, server
  <2> QED
    BY <1>0, <2>1, <2>2 DEF ScreenFollows
<1>2. CASE FetchArrives
  <2>1. /\ fetch.stage = "answered" /\ fetch' = Idle /\ shown' = fetch.list
        /\ writes' = Released(writes) /\ UNCHANGED <<stored, prefs, unheard, patches>>
    BY <1>2 DEF FetchArrives, server
  <2>2. WriteDue => WriteDue'
    BY <2>1, ReleasedStaysDue
  <2>3. PatchDue => PatchDue'
    BY <2>1 DEF PatchDue
  <2> QED
    BY <1>0, <2>1, <2>2, <2>3 DEF ScreenFollows
<1>3. CASE FetchFails
  BY <1>0, <1>3 DEF FetchFails, ScreenFollows
<1>4. CASE Arrange \/ Done \/ (Cancel /\ arranging = shown) \/ UNCHANGED vars
  <2>1. UNCHANGED <<shown, fetch, failed, stored, prefs, unheard, writes, patches>>
    BY <1>4 DEF Arrange, Done, Cancel, vars, server, caches
  <2> QED
    BY <2>1, ScreenStays DEF WriteDue, PatchDue
<1>5. ASSUME \/ Cancel /\ arranging # shown
             \/ \E s \in Services : Star(s)
             \/ \E i, to \in Services : Move(i, to)
      PROVE  ScreenFollows'
  <2>1. \E kind, arg, list : Mutate(kind, arg, list)
    BY <1>5 DEF Cancel, Star, Move, Reorder
  <2> QED
    BY <2>1, MutateIsDue DEF ScreenFollows
<1>6. ASSUME NEW i \in DOMAIN writes, ServeWrite(i) PROVE ScreenFollows'
  BY <1>6, ServedIsDue DEF ScreenFollows
<1>7. ASSUME NEW i \in DOMAIN writes, WriteAnswered(i) PROVE ScreenFollows'
  BY <1>0, <1>7 DEF WriteAnswered, Settle, ScreenFollows
<1>8. ASSUME NEW change \in Changes, SetPref(change) PROVE ScreenFollows'
  <2>1. PatchMade
    BY <1>8 DEF SetPref, PatchMade, server
  <2>2. UNCHANGED <<shown, fetch, failed, stored, prefs, unheard, writes>>
    BY <1>8 DEF SetPref, server
  <2> QED
    BY <2>1, <2>2, PatchesStayDue, ScreenStays DEF WriteDue
<1>9. ASSUME NEW i \in DOMAIN patches, ServePatch(i), ~unheard' PROVE ScreenFollows'
  <2>1. PatchServed(i)
    BY <1>9, ServeIsServed
  <2>2. UNCHANGED <<shown, fetch, failed, stored, writes>>
    BY <1>9 DEF ServePatch, caches
  <2>3. CASE PatchDue'
    BY <2>3 DEF ScreenFollows
  <2>4. CASE prefs'.order = prefs.order /\ (PatchDue => PatchDue') /\ ~unheard
    <3>1. unheard' = unheard
      BY <1>9, <2>4, PatchesStep DEF PatchesAreRecords, Next
    <3> QED
      BY <2>2, <2>4, <3>1, ScreenStays DEF WriteDue
  <2> QED
    BY <1>9, <2>1, <2>3, <2>4, ServedPatchKeepsView
<1>10. ASSUME NEW i \in DOMAIN patches, PatchAnswered(i) PROVE ScreenFollows'
  <2>1. CASE fetch' = Asked
    BY <1>0, <2>1 DEF ScreenFollows
  <2>2. CASE fetch' # Asked
    <3>1. UNCHANGED <<shown, fetch, failed, stored, prefs, unheard, writes>>
      BY <1>10, <2>2 DEF PatchAnswered, Reconcile, RollBack, server
    <3>2. PatchDue => PatchDue'
      BY <1>10, <2>2, EndedPatchKeepsDue
    <3> QED
      BY <3>1, <3>2, ScreenStays DEF WriteDue
  <2> QED
    BY <2>1, <2>2
<1> QED
  BY <1>1, <1>2, <1>3, <1>4, <1>5, <1>6, <1>7, <1>8, <1>9, <1>10 DEF Next, ScreenFollows

\* The screen follows what is stored, through every crossing of requests, refusal,
\* loss and rollback.
THEOREM ScreenInvariant == Spec => [](PatchesAreRecords /\ ScreenFollows /\ MeFollows)
<1> DEFINE SInv == PatchesAreRecords /\ ScreenFollows /\ MeFollows
<1>1. Init => SInv
  <2>1. IsSequence(<<>>) /\ DOMAIN <<>> = {}
    BY EmptySeq, LenProperties DEF IsSequence
  <2>2. Init => prefs \in Prefs
    BY DEF Init, Prefs
  <2>3. Init => ScreenFollows
    BY DEF Init, ScreenFollows
  <2> QED
    BY <2>1, <2>2, <2>3 DEF Init, PatchesAreRecords, MeFollows
<1>2. DInv /\ SInv /\ [Next]_vars => SInv'
  BY PatchesStep, ScreenStep, MeStep DEF DInv
<1> QED
  BY <1>1, <1>2, WritesInvariant, PTL DEF Spec

\* Once all is quiet, the favorites on screen are the server's: every change ends in a
\* fetch of its own, whatever the rollbacks restored before (useFavoriteActions).
THEOREM QuietFavoritesAreStored == Spec => []QuietShowsStored
<1>1. ScreenFollows => QuietShowsStored
  <2>1. Idle.stage = "idle"
    BY DEF Idle
  <2> QED
    BY <2>1 DEF ScreenFollows, QuietShowsStored, Quiet, WriteDue, PatchDue, Open
<1> QED
  BY <1>1, ScreenInvariant, PTL

\* ... and so are the preferences, unless two changes of them crossed or the answer to
\* one that was stored is lost (usePreferencesMutation).
THEOREM QuietPreferencesAreStored == Spec => []QuietMeIsStored
<1>1. MeFollows => QuietMeIsStored
  BY DEF MeFollows, QuietMeIsStored, Quiet, Open
<1> QED
  BY <1>1, ScreenInvariant, PTL

=============================================================================
