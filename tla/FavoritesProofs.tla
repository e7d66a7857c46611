-------------------------- MODULE FavoritesProofs --------------------------
(***************************************************************************)
(* IInv is an invariant of Favorites, for every set of services, defaults  *)
(* and requests: the two favorite counters account for the favorites, and  *)
(* the user's arrangement stands.                                          *)
(***************************************************************************)
EXTENDS Favorites, FiniteSetTheorems, TLAPS

(* Counting favorites *)

LEMMA FavsFinite ==
    ASSUME FavoritesAssumption
    PROVE  IsFiniteSet(Favs) /\ Cardinality(Favs) \in Nat
<1>1. Favs \subseteq Services
  BY DEF Favs, Placed
<1> QED
  BY <1>1, FS_Subset, FS_CardinalityType DEF FavoritesAssumption

LEMMA SameFavs ==
    ASSUME row' = row
    PROVE  Favs' = Favs
BY DEF Favs, Placed

\* What the requests keep.
LEMMA RequestTypes ==
    ASSUME TypeOK, NEW r \in Requests
    PROVE  /\ req[r] \in RequestRows
           /\ req[r].stage \in {"prefill", "mark"} => req[r].user \in Users
           /\ req[r].stage \in {"add", "insert", "remove"} => req[r].service \in Services
           /\ req[r].stage = "insert" => req[r].next \in Nat
           /\ req[r].stage \in {"check", "order"} => req[r].pos \in Arrangements
           /\ req[r].stage = "patch" =>
                req[r].mode \in {"usage", "alpha", "manual"} /\ req[r].beta \in BOOLEAN
<1>1. req[r] \in RequestRows
  BY DEF TypeOK
<1> QED
  BY <1>1 DEF RequestRows

LEMMA Becoming ==
    ASSUME TypeOK, NEW r \in Requests, NEW next \in RequestRows, Becomes(r, next)
    PROVE  req' \in [Requests -> RequestRows]
BY DEF Becomes, TypeOK

\* The actions by what they write.
Writes ==
    \/ \E r \in Requests : Prefill(r) \/ (\E pos \in Orders(Favs) : Number(r, pos))
    \/ \E r \in Requests : Insert(r) \/ Remove(r) \/ WriteOrder(r)
    \/ \E r \in Requests : MarkSeeded(r) \/ MarkArranged(r) \/ WritePatch(r)
Moves ==
    \/ \E r \in Requests : StartList(r) \/ ReadNext(r) \/ CheckOrder(r) \/ Fail(r)
    \/ \E r \in Requests, s \in Services : StartAdd(r, s) \/ StartRemove(r, s)
    \/ \E r \in Requests, L \in SUBSET Services : \E pos \in Orders(L) : StartOrder(r, pos)
    \/ \E r \in Requests, mode \in {"usage", "alpha", "manual"}, beta \in BOOLEAN : StartPatch(r, mode, beta)
Surroundings ==
    \E S \in SUBSET Services : SetActive(S) \/ Reload(S)

LEMMA NextSplits ==
    ASSUME TypeOK, [Next]_vars
    PROVE  Writes \/ Moves \/ Surroundings \/ UNCHANGED vars
<1>1. user.beta \in BOOLEAN /\ user.mode \in {"usage", "alpha", "manual"}
  BY DEF TypeOK, Users
<1>2. ASSUME NEW r \in Requests, ListNext(r) PROVE Writes \/ Moves
  BY <1>2 DEF ListNext, Writes, Moves
<1>3. ASSUME NEW r \in Requests, StarNext(r) PROVE Writes \/ Moves
  BY <1>3 DEF StarNext, Writes, Moves
<1>4. ASSUME NEW r \in Requests, OrderNext(r) PROVE Writes \/ Moves
  BY <1>4 DEF OrderNext, Writes, Moves
<1>5. ASSUME NEW r \in Requests, PatchNext(r) PROVE Writes \/ Moves
  BY <1>1, <1>5 DEF PatchNext, Writes, Moves
<1>6. ASSUME NEW r \in Requests, Fail(r) PROVE Moves
  BY <1>6 DEF Moves
<1> QED
  BY <1>2, <1>3, <1>4, <1>5, <1>6 DEF Next, Surroundings

LEMMA OrdersAreArrangements ==
    ASSUME FavoritesAssumption, NEW L \in SUBSET Services, NEW pos \in Orders(L)
    PROVE  pos \in Arrangements
<1>1. Cardinality(L) \in Nat
  BY FS_Subset, FS_CardinalityType DEF FavoritesAssumption
<1> QED
  BY <1>1 DEF Orders, Arrangements, NoRow

LEMMA NextPlaceInNat ==
    ASSUME TypeOK
    PROVE  NextPlace \subseteq Nat
<1>1. \A s \in Favs : row[s] \in Nat
  BY DEF TypeOK, Arrangements, Favs, Placed
<1> QED
  BY <1>1 DEF NextPlace, AfterLast

\* A request that moves on stays well-formed.
LEMMA MovesKeepRequests ==
    ASSUME FavoritesAssumption, TypeOK, Moves
    PROVE  req' \in [Requests -> RequestRows] /\ UNCHANGED <<tables, active, listed, counters, before, renumbered>>
<1> USE DEF RequestRows
<1>1. ASSUME NEW r \in Requests, StartList(r) PROVE req' \in [Requests -> RequestRows]
  BY <1>1, Becoming DEF StartList, AfterSeeding, TypeOK
<1>2. ASSUME NEW r \in Requests, ReadNext(r) PROVE req' \in [Requests -> RequestRows]
  <2>1. PICK n \in NextPlace : Becomes(r, [stage |-> "insert", service |-> req[r].service, next |-> n])
    BY <1>2 DEF ReadNext
  <2>2. n \in Nat /\ req[r].service \in Services
    BY <1>2, NextPlaceInNat, RequestTypes DEF ReadNext
  <2> QED
    BY <2>1, <2>2, Becoming
<1>3. ASSUME NEW r \in Requests, CheckOrder(r) PROVE req' \in [Requests -> RequestRows]
  <2>1. req[r].pos \in Arrangements
    BY <1>3, RequestTypes DEF CheckOrder
  <2>2. [stage |-> "order", pos |-> req[r].pos] \in RequestRows /\ Done \in RequestRows
    BY <2>1 DEF Done
  <2> QED
    BY <1>3, <2>2, Becoming DEF CheckOrder
<1>4. ASSUME NEW r \in Requests, Fail(r) PROVE req' \in [Requests -> RequestRows]
  BY <1>4, Becoming DEF Fail, Done
<1>5. ASSUME NEW r \in Requests, NEW s \in Services, StartAdd(r, s) \/ StartRemove(r, s)
      PROVE  req' \in [Requests -> RequestRows]
  BY <1>5, Becoming DEF StartAdd, StartRemove
<1>6. ASSUME NEW r \in Requests, NEW L \in SUBSET Services, NEW pos \in Orders(L), StartOrder(r, pos)
      PROVE  req' \in [Requests -> RequestRows]
  <2>1. Visible(user) \subseteq Services /\ pos \in Arrangements
    BY OrdersAreArrangements DEF Visible, TypeOK
  <2> QED
    BY <1>6, <2>1, Becoming DEF StartOrder
<1>7. ASSUME NEW r \in Requests, NEW mode \in {"usage", "alpha", "manual"}, NEW beta \in BOOLEAN,
             StartPatch(r, mode, beta)
      PROVE  req' \in [Requests -> RequestRows]
  BY <1>7, Becoming DEF StartPatch
<1>8. UNCHANGED <<tables, active, listed, counters, before, renumbered>>
  BY DEF Moves, StartList, ReadNext, CheckOrder, Fail, StartAdd, StartRemove, StartOrder, StartPatch
<1> QED
  BY <1>1, <1>2, <1>3, <1>4, <1>5, <1>6, <1>7, <1>8 DEF Moves

-----------------------------------------------------------------------------
(* What the writes do to the favorites *)

\* A row taken back or written leaves the places of the others as they are.
LEMMA PrefillEffect ==
    ASSUME FavoritesAssumption, TypeOK, NEW r \in Requests, Prefill(r)
    PROVE  /\ row' \in Arrangements /\ req' \in [Requests -> RequestRows]
           /\ prefilled' \in Nat
           /\ Cardinality(Favs') - prefilled' = Cardinality(Favs) - prefilled
           /\ \A s \in Favs : s \in Favs' /\ row'[s] = row[s]
<1> DEFINE new == (Defaults \cap active) \ Favs
<1>1. row' = [s \in Services |-> IF s \in new THEN 0 ELSE row[s]] /\ prefilled' = prefilled + Cardinality(new)
  BY DEF Prefill
<1>2. new \subseteq Services /\ row \in Arrangements /\ prefilled \in Nat
  BY DEF FavoritesAssumption, TypeOK
<1>3. row' \in Arrangements /\ Favs' = Favs \cup new
  BY <1>1, <1>2 DEF Arrangements, Favs, Placed, NoRow
<1>4. Favs \cap new = {} /\ Favs \subseteq Services
  BY DEF Favs, Placed
<1> HIDE DEF new
<1>5. IsFiniteSet(new) /\ Cardinality(new) \in Nat
  BY <1>2, FS_Subset, FS_CardinalityType DEF FavoritesAssumption
<1>6. Cardinality(Favs') = Cardinality(Favs) + Cardinality(new)
  BY <1>3, <1>4, <1>5, FavsFinite, FS_Union, FS_EmptySet
<1>7. prefilled' \in Nat /\ Cardinality(Favs') - prefilled' = Cardinality(Favs) - prefilled
  BY <1>1, <1>2, <1>5, <1>6, FavsFinite
<1>8. req[r].user \in Users
  BY RequestTypes DEF Prefill
<1>9. req' \in [Requests -> RequestRows]
  BY <1>8, Becoming DEF Prefill, RequestRows
<1>10. \A s \in Favs : s \in Favs' /\ row'[s] = row[s]
  BY <1>1, <1>3, <1>4
<1> QED
  BY <1>3, <1>7, <1>9, <1>10

\* The insert adds one row if there is none, and counts it.
LEMMA InsertEffect ==
    ASSUME FavoritesAssumption, TypeOK, NEW r \in Requests, Insert(r)
    PROVE  /\ row' \in Arrangements /\ added' \in Nat
           /\ Cardinality(Favs') - added' = Cardinality(Favs) - added
           /\ \A s \in Favs : s \in Favs' /\ row'[s] = row[s]
<1> DEFINE s == req[r].service
<1>1. s \in Services /\ req[r].next \in Nat
  BY RequestTypes DEF Insert
<1>2. row \in Arrangements /\ added \in Nat
  BY DEF TypeOK
<1>3. CASE s \in Favs
  <2>1. row' = row /\ added' = added
    BY <1>3 DEF Insert
  <2> QED
    BY <2>1, <1>2, SameFavs
<1>4. CASE s \notin Favs
  <2>1. row' = [row EXCEPT ![s] = req[r].next] /\ added' = added + 1
    BY <1>4 DEF Insert
  <2> HIDE DEF s
  <2>2. row' \in Arrangements /\ Favs' = Favs \cup {s}
    BY <1>1, <1>2, <2>1 DEF Arrangements, Favs, Placed, NoRow
  <2>3. Cardinality(Favs') = Cardinality(Favs) + 1
    BY <1>4, <2>2, FavsFinite, FS_AddElement
  <2>4. \A x \in Favs : x \in Favs' /\ row'[x] = row[x]
    BY <1>2, <1>4, <2>1, <2>2 DEF Arrangements
  <2> QED
    BY <1>2, <2>1, <2>2, <2>3, <2>4, FavsFinite
<1> QED
  BY <1>3, <1>4

\* The removal takes one row if it is there, and counts it as named or unnamed.
LEMMA RemoveEffect ==
    ASSUME FavoritesAssumption, TypeOK, NEW r \in Requests, Remove(r)
    PROVE  /\ row' \in Arrangements /\ removed' \in Nat /\ unnamed' \in Nat
           /\ Cardinality(Favs') + removed' + unnamed' = Cardinality(Favs) + removed + unnamed
           /\ \A s \in Favs \ {req[r].service} : s \in Favs' /\ row'[s] = row[s]
<1> DEFINE s == req[r].service
<1>1. s \in Services
  BY RequestTypes DEF Remove
<1>2. row \in Arrangements /\ removed \in Nat /\ unnamed \in Nat
  BY DEF TypeOK
<1>3. /\ row' = [row EXCEPT ![s] = NoRow]
      /\ removed' = IF s \in Favs /\ req[r].named THEN removed + 1 ELSE removed
      /\ unnamed' = IF s \in Favs /\ ~req[r].named THEN unnamed + 1 ELSE unnamed
  BY DEF Remove
<1> HIDE DEF s
<1>4. row' \in Arrangements /\ Favs' = Favs \ {s}
  BY <1>1, <1>2, <1>3 DEF Arrangements, Favs, Placed, NoRow
<1>5. s \in Favs => Cardinality(Favs') = Cardinality(Favs) - 1
  BY <1>4, FavsFinite, FS_RemoveElement
<1>6. s \notin Favs => Favs' = Favs
  BY <1>4
<1>7. removed' \in Nat /\ unnamed' \in Nat
  BY <1>2, <1>3
<1>8. Cardinality(Favs') + removed' + unnamed' = Cardinality(Favs) + removed + unnamed
  <2>1. Cardinality(Favs) \in Nat
    BY FavsFinite
  <2>2. CASE s \in Favs
    <3>1. \/ removed' = removed + 1 /\ unnamed' = unnamed
          \/ removed' = removed /\ unnamed' = unnamed + 1
      BY <1>3, <2>2
    <3> QED
      BY <1>2, <1>5, <2>1, <2>2, <3>1
  <2>3. CASE s \notin Favs
    <3>1. removed' = removed /\ unnamed' = unnamed
      BY <1>3, <2>3
    <3> QED
      BY <1>2, <1>6, <2>3, <3>1
  <2> QED
    BY <2>2, <2>3
<1>9. \A x \in Favs \ {s} : x \in Favs' /\ row'[x] = row[x]
  BY <1>2, <1>3, <1>4 DEF Arrangements, Favs, Placed
<1> QED
  BY <1>4, <1>7, <1>8, <1>9 DEF s

\* Writing an order gives existing favorites new places, and those places are the order.
LEMMA WriteOrderEffect ==
    ASSUME FavoritesAssumption, TypeOK, NEW r \in Requests, WriteOrder(r)
    PROVE  /\ row' \in Arrangements /\ Favs' = Favs
           /\ before' \in SUBSET (Services \X Services)
           /\ \A p \in before' : p[1] \in Favs /\ p[2] \in Favs /\ row'[p[1]] < row'[p[2]]
<1> DEFINE pos == req[r].pos
           written == Placed(pos) \cap Favs
<1>1. pos \in Arrangements /\ row \in Arrangements
  BY RequestTypes DEF WriteOrder, TypeOK
<1>2. /\ row' = [s \in Services |-> IF s \in written THEN pos[s] ELSE row[s]]
      /\ before' = {p \in written \X written : pos[p[1]] < pos[p[2]]}
  BY DEF WriteOrder
<1> HIDE DEF pos
<1>3. written \subseteq Services /\ \A s \in written : pos[s] # NoRow
  BY DEF Placed, Favs
<1>4. row' \in Arrangements /\ Favs' = Favs
  BY <1>1, <1>2, <1>3 DEF Arrangements, Favs, Placed
<1>5. before' \in SUBSET (Services \X Services)
  BY <1>2, <1>3
<1>6. ASSUME NEW p \in before' PROVE p[1] \in Favs /\ p[2] \in Favs /\ row'[p[1]] < row'[p[2]]
  <2>1. p[1] \in written /\ p[2] \in written /\ pos[p[1]] < pos[p[2]]
    BY <1>2
  <2> QED
    BY <2>1, <1>2, <1>3
<1> QED
  BY <1>4, <1>5, <1>6

-----------------------------------------------------------------------------
(* Every step keeps the invariant *)

LEMMA InitInvariant ==
    ASSUME FavoritesAssumption, Init
    PROVE  IInv
<1>1. TypeOK
  BY DEF Init, TypeOK, Arrangements, Users, NewUser, RequestRows
<1>2. Favs = {}
  BY DEF Init, Favs, Placed
<1>3. MetricIsDelta
  BY <1>2, FS_EmptySet DEF Init, MetricIsDelta
<1> QED
  BY <1>1, <1>3 DEF Init, IInv, ArrangedAreFavorites, ArrangementStands

\* Everything the invariant says stands when the favorites and what counts them do.
LEMMA RestIsKept ==
    ASSUME FavoritesAssumption, IInv, UNCHANGED <<row, counters, before, renumbered>>,
           user' \in Users, active' \in SUBSET Services, listed' \in SUBSET Services,
           req' \in [Requests -> RequestRows]
    PROVE  IInv'
<1>1. Favs' = Favs
  BY SameFavs
<1>2. TypeOK'
  BY DEF IInv, TypeOK, counters
<1> QED
  BY <1>1, <1>2 DEF IInv, MetricIsDelta, ArrangedAreFavorites, ArrangementStands, counters

\* It stands too when rows are only added, counted, and placed anywhere.
LEMMA AdditionsKeepOrder ==
    ASSUME IInv, UNCHANGED <<before, renumbered>>,
           \A s \in Favs : s \in Favs' /\ row'[s] = row[s]
    PROVE  ArrangedAreFavorites' /\ ArrangementStands'
BY DEF IInv, ArrangedAreFavorites, ArrangementStands

LEMMA DoneIsARequest ==
    ASSUME TypeOK, NEW r \in Requests, Becomes(r, Done)
    PROVE  req' \in [Requests -> RequestRows]
BY Becoming DEF Done, RequestRows

LEMMA WritesKeepInvariant ==
    ASSUME FavoritesAssumption, IInv, Writes
    PROVE  IInv'
<1> USE FavoritesAssumption
<1>0. TypeOK /\ MetricIsDelta /\ ArrangedAreFavorites /\ ArrangementStands
  BY DEF IInv
<1>1. ASSUME NEW r \in Requests, Prefill(r) PROVE IInv'
  <2>1. /\ row' \in Arrangements /\ req' \in [Requests -> RequestRows] /\ prefilled' \in Nat
        /\ Cardinality(Favs') - prefilled' = Cardinality(Favs) - prefilled
        /\ \A s \in Favs : s \in Favs' /\ row'[s] = row[s]
    BY <1>0, <1>1, PrefillEffect
  <2>2. UNCHANGED <<user, active, listed, added, removed, unnamed, before, renumbered>>
    BY <1>1 DEF Prefill
  <2>3. TypeOK'
    BY <1>0, <2>1, <2>2 DEF TypeOK
  <2>4. MetricIsDelta'
    BY <1>0, <2>1, <2>2 DEF MetricIsDelta
  <2> QED
    BY <2>1, <2>2, <2>3, <2>4, AdditionsKeepOrder DEF IInv
<1>2. ASSUME NEW r \in Requests, NEW pos \in Orders(Favs), Number(r, pos) PROVE IInv'
  <2>1. Favs \in SUBSET Services
    BY DEF Favs, Placed
  <2>2. pos \in Arrangements
    BY <2>1, OrdersAreArrangements
  <2>3. Favs' = Favs
    BY <1>2 DEF Number, Favs, Placed
  <2>4. req' \in [Requests -> RequestRows]
    BY <1>0, <1>2, Becoming DEF Number, RequestRows
  <2>5. TypeOK'
    BY <1>0, <1>2, <2>2, <2>4 DEF Number, TypeOK, counters
  <2>6. MetricIsDelta' /\ ArrangedAreFavorites'
    BY <1>0, <1>2, <2>3 DEF Number, MetricIsDelta, ArrangedAreFavorites, counters
  <2>7. ArrangementStands'
    BY <1>2 DEF Number, ArrangementStands
  <2> QED
    BY <2>5, <2>6, <2>7 DEF IInv
<1>3. ASSUME NEW r \in Requests, Insert(r) PROVE IInv'
  <2>1. /\ row' \in Arrangements /\ added' \in Nat
        /\ Cardinality(Favs') - added' = Cardinality(Favs) - added
        /\ \A s \in Favs : s \in Favs' /\ row'[s] = row[s]
    BY <1>0, <1>3, InsertEffect
  <2>2. UNCHANGED <<user, active, listed, removed, prefilled, unnamed, before, renumbered>>
    BY <1>3 DEF Insert
  <2>3. req' \in [Requests -> RequestRows]
    BY <1>0, <1>3, DoneIsARequest DEF Insert
  <2>4. TypeOK'
    BY <1>0, <2>1, <2>2, <2>3 DEF TypeOK
  <2>5. /\ Cardinality(Favs) \in Int /\ Cardinality(Favs') \in Int
        /\ added \in Int /\ removed \in Int /\ unnamed \in Int /\ prefilled \in Int
    <3>1. IsFiniteSet(Favs')
      <4>1. Favs' \subseteq Services
        BY DEF Favs, Placed
      <4> QED
        BY <4>1, FS_Subset DEF FavoritesAssumption
    <3> QED
      BY <1>0, <3>1, FavsFinite, FS_CardinalityType DEF TypeOK
  <2>6. MetricIsDelta'
    BY <1>0, <2>1, <2>2, <2>5 DEF MetricIsDelta
  <2> QED
    BY <2>1, <2>2, <2>4, <2>6, AdditionsKeepOrder DEF IInv
<1>4. ASSUME NEW r \in Requests, Remove(r) PROVE IInv'
  <2>1. /\ row' \in Arrangements /\ removed' \in Nat /\ unnamed' \in Nat
        /\ Cardinality(Favs') + removed' + unnamed' = Cardinality(Favs) + removed + unnamed
        /\ \A s \in Favs \ {req[r].service} : s \in Favs' /\ row'[s] = row[s]
    BY <1>0, <1>4, RemoveEffect
  <2>2. /\ before' = {p \in before : req[r].service \notin {p[1], p[2]}}
        /\ UNCHANGED <<user, active, listed, added, prefilled, renumbered>>
    BY <1>4 DEF Remove
  <2>3. req' \in [Requests -> RequestRows]
    BY <1>0, <1>4, DoneIsARequest DEF Remove
  <2>4. TypeOK'
    BY <1>0, <2>1, <2>2, <2>3 DEF TypeOK
  <2>5. /\ Cardinality(Favs) \in Int /\ Cardinality(Favs') \in Int
        /\ added \in Int /\ removed \in Int /\ unnamed \in Int /\ prefilled \in Int
    <3>1. IsFiniteSet(Favs')
      <4>1. Favs' \subseteq Services
        BY DEF Favs, Placed
      <4> QED
        BY <4>1, FS_Subset DEF FavoritesAssumption
    <3> QED
      BY <1>0, <3>1, FavsFinite, FS_CardinalityType DEF TypeOK
  <2>6. MetricIsDelta'
    BY <1>0, <2>1, <2>2, <2>5 DEF MetricIsDelta
  <2>7. ArrangedAreFavorites' /\ ArrangementStands'
    BY <1>0, <2>1, <2>2 DEF ArrangedAreFavorites, ArrangementStands
  <2> QED
    BY <2>4, <2>6, <2>7 DEF IInv
<1>5. ASSUME NEW r \in Requests, WriteOrder(r) PROVE IInv'
  <2>1. /\ row' \in Arrangements /\ Favs' = Favs
        /\ before' \in SUBSET (Services \X Services)
        /\ \A p \in before' : p[1] \in Favs /\ p[2] \in Favs /\ row'[p[1]] < row'[p[2]]
    BY <1>0, <1>5, WriteOrderEffect
  <2>2. renumbered' = FALSE /\ UNCHANGED <<user, active, listed, counters>>
    BY <1>5 DEF WriteOrder
  <2>3. req' \in [Requests -> RequestRows]
    BY <1>0, <1>5, DoneIsARequest DEF WriteOrder
  <2>4. TypeOK'
    BY <1>0, <2>1, <2>2, <2>3 DEF TypeOK, counters
  <2>5. MetricIsDelta'
    BY <1>0, <2>1, <2>2 DEF MetricIsDelta, counters
  <2>6. ArrangedAreFavorites' /\ ArrangementStands'
    BY <2>1 DEF ArrangedAreFavorites, ArrangementStands
  <2> QED
    BY <2>4, <2>5, <2>6 DEF IInv
<1>6. ASSUME NEW r \in Requests, MarkSeeded(r) PROVE IInv'
  <2>1. req' \in [Requests -> RequestRows]
    BY <1>0, <1>6, Becoming DEF MarkSeeded, AfterSeeding, RequestRows
  <2>2. user' \in Users
    BY <1>0, <1>6 DEF MarkSeeded, TypeOK, Users
  <2> QED
    BY <1>0, <1>6, <2>1, <2>2, RestIsKept DEF MarkSeeded, TypeOK
<1>7. ASSUME NEW r \in Requests, MarkArranged(r) PROVE IInv'
  <2>1. req' \in [Requests -> RequestRows] /\ user' \in Users
    BY <1>0, <1>7, DoneIsARequest DEF MarkArranged, TypeOK, Users
  <2> QED
    BY <1>0, <1>7, <2>1, RestIsKept DEF MarkArranged, TypeOK
<1>8. ASSUME NEW r \in Requests, WritePatch(r) PROVE IInv'
  <2>1. req[r].mode \in {"usage", "alpha", "manual"} /\ req[r].beta \in BOOLEAN
    BY <1>0, <1>8, RequestTypes DEF WritePatch
  <2>2. req' \in [Requests -> RequestRows] /\ user' \in Users
    BY <1>0, <1>8, <2>1, DoneIsARequest DEF WritePatch, TypeOK, Users
  <2> QED
    BY <1>0, <1>8, <2>2, RestIsKept DEF WritePatch, TypeOK
<1> QED
  BY <1>1, <1>2, <1>3, <1>4, <1>5, <1>6, <1>7, <1>8 DEF Writes

\* IInv is inductive.
LEMMA StepKeepsInvariant ==
    ASSUME FavoritesAssumption, IInv, [Next]_vars
    PROVE  IInv'
<1>1. TypeOK
  BY DEF IInv
<1>2. CASE Writes
  BY <1>2, WritesKeepInvariant
<1>3. CASE Moves
  <2>1. /\ req' \in [Requests -> RequestRows]
        /\ UNCHANGED <<tables, active, listed, counters, before, renumbered>>
    BY <1>1, <1>3, MovesKeepRequests
  <2> QED
    BY <1>1, <2>1, RestIsKept DEF tables, TypeOK
<1>4. CASE Surroundings
  BY <1>1, <1>4, RestIsKept DEF Surroundings, SetActive, Reload, tables, TypeOK
<1>5. CASE UNCHANGED vars
  BY <1>1, <1>5, RestIsKept DEF vars, counters, TypeOK
<1> QED
  BY <1>1, <1>2, <1>3, <1>4, <1>5, NextSplits

-----------------------------------------------------------------------------
(* The theorems *)

\* IInv holds in every state that one user's requests can reach, with any number
\* of services, defaults and requests: the requests run their statements one by
\* one, as service/favorites.go does.
THEOREM FavoritesInvariant == Spec => []IInv
<1>1. Init => IInv
  BY InitInvariant, FavoritesAssumption
<1>2. IInv /\ [Next]_vars => IInv'
  BY StepKeepsInvariant, FavoritesAssumption
<1> QED
  BY <1>1, <1>2, PTL DEF Spec

\* However the stars, removals and pre-fills of one user interleave, the counters
\* of AddFavorite and RemoveFavorite are the delta from the pre-filled favorites.
THEOREM CountersAreTheDelta == Spec => []MetricIsDelta
<1>1. IInv => MetricIsDelta
  BY DEF IInv
<1> QED
  BY <1>1, FavoritesInvariant, PTL

\* What SetFavoritesOrder wrote stays the order until the user writes another, but
\* for the one-time numbering by usage of a listing that was already running.
THEOREM ArrangementIsKept == Spec => []ArrangementStands
<1>1. IInv => ArrangementStands
  BY DEF IInv
<1> QED
  BY <1>1, FavoritesInvariant, PTL
=============================================================================
