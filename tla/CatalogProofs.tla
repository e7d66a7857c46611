--------------------------- MODULE CatalogProofs ---------------------------
(***************************************************************************)
(* Proofs about the catalogue the readers are served.  CatalogCache, for   *)
(* every set of callers, TTL and number of writes: types, the invariant    *)
(* IInv, the refinement of CatalogReads and InvalidatedIsGone.  What       *)
(* CatalogView's operators promise for every catalogue and every reader,   *)
(* and from that what CatalogLoad promises for every set of services,      *)
(* categories, slugs and groups.                                           *)
(***************************************************************************)
EXTENDS CatalogCache, CatalogLoad, TLAPS

\* The shape of a loader call.
LEMMA LoadTypes ==
    ASSUME TypeOK, NEW p \in Callers
    PROVE  /\ load[p].n \in 0..3
           /\ load[p].read \in [Tables -> Nat]
           /\ \A t \in 1..load[p].n : t \in Tables /\ load[p].read[t] \in Nat
<1>1. load[p] \in Loads
  BY DEF TypeOK
<1> QED
  BY <1>1 DEF Loads, Snapshots, Tables

\* What Read does to the loader call of p, spelled out for the leaves below.
LEMMA ReadEffect ==
    ASSUME TypeOK, NEW p \in Callers, Read(p)
    PROVE  /\ load' \in [Callers -> Loads]
           /\ load'[p].n = load[p].n + 1
           /\ load'[p].read[load[p].n + 1] = db
           /\ \A t \in Tables : t # load[p].n + 1 => load'[p].read[t] = load[p].read[t]
           /\ \A q \in Callers : q # p => load'[q] = load[q]
<1> DEFINE n == load[p].n
           r == [load[p].read EXCEPT ![n + 1] = db]
<1>1. load[p] \in Loads /\ db \in Nat /\ load \in [Callers -> Loads]
  BY DEF TypeOK
<1>2. n \in 0..2 /\ n + 1 \in Tables /\ load[p].read \in [Tables -> Nat]
  BY <1>1 DEF Loads, Snapshots, Tables, Read
<1>3. /\ r \in [Tables -> Nat]
      /\ r[n + 1] = db
      /\ \A t \in Tables : t # n + 1 => r[t] = load[p].read[t]
  BY <1>1, <1>2
<1> HIDE DEF r
<1>4. load' = [load EXCEPT ![p] = [read |-> r, n |-> n + 1]]
  BY DEF Read, r
<1>5. [read |-> r, n |-> n + 1] \in Loads
  BY <1>2, <1>3 DEF Loads, Snapshots
<1>6. load'[p] = [read |-> r, n |-> n + 1] /\ \A q \in Callers : q # p => load'[q] = load[q]
  BY <1>1, <1>4
<1>7. load' \in [Callers -> Loads]
  BY <1>1, <1>4, <1>5
<1> QED
  BY <1>3, <1>6, <1>7

\* Every step keeps the types.
LEMMA TypeStep ==
    ASSUME TypeOK, [Next]_vars
    PROVE  TypeOK'
<1> USE CacheAssumption DEF TypeOK, Tables, Snapshots, Loads, Unread, Nothing
<1>1. ASSUME NEW p \in Callers, Begin(p) PROVE TypeOK'
  BY <1>1 DEF Begin
<1>2. ASSUME NEW p \in Callers, Hit(p) PROVE TypeOK'
  BY <1>2 DEF Hit, Answer, Fresh
<1>3. ASSUME NEW p \in Callers, Miss(p) PROVE TypeOK'
  BY <1>3 DEF Miss, Fresh
<1>4. ASSUME NEW p \in Callers, Lead(p) PROVE TypeOK'
  BY <1>4 DEF Lead, InFlight
<1>5. ASSUME NEW p \in Callers, Join(p) PROVE TypeOK'
  BY <1>5 DEF Join, InFlight
<1>6. ASSUME NEW p \in Callers, Read(p) PROVE TypeOK'
  <2>1. load' \in [Callers -> Loads]
    BY <1>6, ReadEffect
  <2> QED
    BY <1>6, <2>1 DEF Read
<1>7. ASSUME NEW p \in Callers, LoadFails(p) PROVE TypeOK'
  BY <1>7 DEF LoadFails
<1>8. ASSUME NEW p \in Callers, Store(p) PROVE TypeOK'
  BY <1>8 DEF Store
<1>9. ASSUME NEW p \in Callers, Settle(p) PROVE TypeOK'
  BY <1>9 DEF Settle
<1>10. ASSUME NEW p \in Callers, Return(p) PROVE TypeOK'
  BY <1>10 DEF Return, Answer
<1>11. ASSUME NEW p \in Callers, ReturnStale(p) PROVE TypeOK'
  BY <1>11 DEF ReturnStale, Answer
<1>12. ASSUME NEW p \in Callers, ReturnError(p) PROVE TypeOK'
  BY <1>12 DEF ReturnError
<1>13. CASE AdminWrite
  BY <1>13 DEF AdminWrite
<1>14. CASE ExternalWrite
  BY <1>14 DEF ExternalWrite
<1>15. CASE Tick
  BY <1>15 DEF Tick
<1>16. CASE Restart
  BY <1>16 DEF Restart
<1>17. ASSUME NEW v \in owed, Invalidate(v) PROVE TypeOK'
  BY <1>17 DEF Invalidate, Later, InFlight
<1>18. CASE UNCHANGED vars
  BY <1>18 DEF vars
<1> QED
  BY <1>1, <1>2, <1>3, <1>4, <1>5, <1>6, <1>7, <1>8, <1>9, <1>10, <1>11, <1>12, <1>13, <1>14, <1>15, <1>16, <1>17, <1>18 DEF Next, Step

\* At most one loader call runs, and whoever waits waits for it.
LEMMA OneLoadStep ==
    ASSUME TypeOK, OneLoad, [Next]_vars
    PROVE  OneLoad'
<1> USE CacheAssumption DEF TypeOK, OneLoad, InFlight, Tables, Snapshots, Loads, Unread, Nothing
<1>1. ASSUME NEW p \in Callers, Begin(p) PROVE OneLoad'
  BY <1>1 DEF Begin
<1>2. ASSUME NEW p \in Callers, Hit(p) PROVE OneLoad'
  BY <1>2 DEF Hit, Answer, Fresh
<1>3. ASSUME NEW p \in Callers, Miss(p) PROVE OneLoad'
  BY <1>3 DEF Miss, Fresh
<1>4. ASSUME NEW p \in Callers, Lead(p) PROVE OneLoad'
  BY <1>4 DEF Lead, InFlight
<1>5. ASSUME NEW p \in Callers, Join(p) PROVE OneLoad'
  BY <1>5 DEF Join, InFlight
<1>6. ASSUME NEW p \in Callers, Read(p) PROVE OneLoad'
  BY <1>6 DEF Read
<1>7. ASSUME NEW p \in Callers, LoadFails(p) PROVE OneLoad'
  BY <1>7 DEF LoadFails
<1>8. ASSUME NEW p \in Callers, Store(p) PROVE OneLoad'
  BY <1>8 DEF Store
<1>9. ASSUME NEW p \in Callers, Settle(p) PROVE OneLoad'
  BY <1>9 DEF Settle
<1>10. ASSUME NEW p \in Callers, Return(p) PROVE OneLoad'
  BY <1>10 DEF Return, Answer
<1>11. ASSUME NEW p \in Callers, ReturnStale(p) PROVE OneLoad'
  BY <1>11 DEF ReturnStale, Answer
<1>12. ASSUME NEW p \in Callers, ReturnError(p) PROVE OneLoad'
  BY <1>12 DEF ReturnError
<1>13. CASE AdminWrite
  BY <1>13 DEF AdminWrite
<1>14. CASE ExternalWrite
  BY <1>14 DEF ExternalWrite
<1>15. CASE Tick
  BY <1>15 DEF Tick
<1>16. CASE Restart
  BY <1>16 DEF Restart
<1>17. ASSUME NEW v \in owed, Invalidate(v) PROVE OneLoad'
  BY <1>17 DEF Invalidate, Later, InFlight
<1>18. CASE UNCHANGED vars
  BY <1>18 DEF vars
<1> QED
  BY <1>1, <1>2, <1>3, <1>4, <1>5, <1>6, <1>7, <1>8, <1>9, <1>10, <1>11, <1>12, <1>13, <1>14, <1>15, <1>16, <1>17, <1>18 DEF Next, Step

\* A running load stays ahead of the snapshots stored before it.
LEMMA LoadAheadStep ==
    ASSUME IInv, [Next]_vars
    PROVE  LoadAhead'
<1> USE CacheAssumption DEF IInv, TypeOK, OneLoad, LoadAhead, CacheIsNewest, ReadSoFar, InFlight, Tables, Snapshots, Loads, Unread, Nothing
<1>1. ASSUME NEW p \in Callers, Begin(p) PROVE LoadAhead'
  BY <1>1 DEF Begin
<1>2. ASSUME NEW p \in Callers, Hit(p) PROVE LoadAhead'
  BY <1>2 DEF Hit, Answer, Fresh
<1>3. ASSUME NEW p \in Callers, Miss(p) PROVE LoadAhead'
  BY <1>3 DEF Miss, Fresh
<1>4. ASSUME NEW p \in Callers, Lead(p) PROVE LoadAhead'
  BY <1>4 DEF Lead, InFlight
<1>5. ASSUME NEW p \in Callers, Join(p) PROVE LoadAhead'
  BY <1>5 DEF Join, InFlight
<1>6. ASSUME NEW p \in Callers, Read(p) PROVE LoadAhead'
  <2> SUFFICES ASSUME NEW q \in Callers, pc[q] = "load", NEW t \in 1..load'[q].n
               PROVE  newest[t] <= load'[q].read[t] /\ load'[q].read[t] <= db
                      /\ dropped.quiet <= load'[q].read[t]
    BY <1>6 DEF Read
  <2>1. load' \in [Callers -> Loads] /\ load'[q].n \in 0..3 /\ t \in Tables
    BY <1>6, ReadEffect
  <2>2. CASE q # p
    BY <1>6, <2>2, ReadEffect
  <2>3. CASE q = p /\ t = load[p].n + 1
    <3>1. load'[p].read[t] = db
      BY <1>6, <2>3, ReadEffect
    <3>2. newest[t] <= db /\ dropped.quiet <= db
      BY <2>1
    <3>3. UNCHANGED <<newest, dropped, db>>
      BY <1>6 DEF Read
    <3> QED
      BY <2>3, <3>1, <3>2, <3>3
  <2>4. CASE q = p /\ t # load[p].n + 1
    <3>0. load[p].n \in 0..3 /\ load'[p].n = load[p].n + 1
      BY <1>6, LoadTypes, ReadEffect
    <3>1. t \in 1..load[p].n
      BY <2>1, <2>4, <3>0
    <3>2. load'[p].read[t] = load[p].read[t]
      BY <1>6, <2>1, <2>4, ReadEffect
    <3>3. UNCHANGED <<newest, dropped, db>> /\ pc[p] = "load"
      BY <1>6 DEF Read
    <3> QED
      BY <2>4, <3>1, <3>2, <3>3
  <2> QED
    BY <2>2, <2>3, <2>4
<1>7. ASSUME NEW p \in Callers, LoadFails(p) PROVE LoadAhead'
  BY <1>7 DEF LoadFails
<1>8. ASSUME NEW p \in Callers, Store(p) PROVE LoadAhead'
  BY <1>8 DEF Store
<1>9. ASSUME NEW p \in Callers, Settle(p) PROVE LoadAhead'
  BY <1>9 DEF Settle
<1>10. ASSUME NEW p \in Callers, Return(p) PROVE LoadAhead'
  BY <1>10 DEF Return, Answer
<1>11. ASSUME NEW p \in Callers, ReturnStale(p) PROVE LoadAhead'
  BY <1>11 DEF ReturnStale, Answer
<1>12. ASSUME NEW p \in Callers, ReturnError(p) PROVE LoadAhead'
  BY <1>12 DEF ReturnError
<1>13. CASE AdminWrite
  <2> SUFFICES ASSUME NEW q \in Callers, pc[q] = "load", NEW t \in 1..load[q].n
               PROVE  load[q].read[t] <= db + 1
    BY <1>13 DEF AdminWrite
  <2> QED
    BY LoadTypes
<1>14. CASE ExternalWrite
  <2> SUFFICES ASSUME NEW q \in Callers, pc[q] = "load", NEW t \in 1..load[q].n
               PROVE  load[q].read[t] <= db + 1
    BY <1>14 DEF ExternalWrite
  <2> QED
    BY LoadTypes
<1>15. CASE Tick
  BY <1>15 DEF Tick
<1>16. CASE Restart
  BY <1>16 DEF Restart
<1>17. ASSUME NEW v \in owed, Invalidate(v) PROVE LoadAhead'
  BY <1>17 DEF Invalidate, Later, InFlight
<1>18. CASE UNCHANGED vars
  BY <1>18 DEF vars
<1> QED
  BY <1>1, <1>2, <1>3, <1>4, <1>5, <1>6, <1>7, <1>8, <1>9, <1>10, <1>11, <1>12, <1>13, <1>14, <1>15, <1>16, <1>17, <1>18 DEF Next, Step

\* The cache stays at the last snapshot stored.
LEMMA CacheIsNewestStep ==
    ASSUME IInv, [Next]_vars
    PROVE  CacheIsNewest'
<1> USE CacheAssumption DEF IInv, TypeOK, OneLoad, LoadAhead, CacheIsNewest, ReadSoFar, NotBefore, InFlight, Tables, Snapshots, Loads, Unread, Nothing
<1>1. ASSUME NEW p \in Callers, Begin(p) PROVE CacheIsNewest'
  BY <1>1 DEF Begin
<1>2. ASSUME NEW p \in Callers, Hit(p) PROVE CacheIsNewest'
  BY <1>2 DEF Hit, Answer, Fresh
<1>3. ASSUME NEW p \in Callers, Miss(p) PROVE CacheIsNewest'
  BY <1>3 DEF Miss, Fresh
<1>4. ASSUME NEW p \in Callers, Lead(p) PROVE CacheIsNewest'
  BY <1>4 DEF Lead, InFlight
<1>5. ASSUME NEW p \in Callers, Join(p) PROVE CacheIsNewest'
  BY <1>5 DEF Join, InFlight
<1>6. ASSUME NEW p \in Callers, Read(p) PROVE CacheIsNewest'
  BY <1>6 DEF Read
<1>7. ASSUME NEW p \in Callers, LoadFails(p) PROVE CacheIsNewest'
  BY <1>7 DEF LoadFails
<1>8. ASSUME NEW p \in Callers, Store(p) PROVE CacheIsNewest'
  BY <1>8 DEF Store
<1>9. ASSUME NEW p \in Callers, Settle(p) PROVE CacheIsNewest'
  BY <1>9 DEF Settle
<1>10. ASSUME NEW p \in Callers, Return(p) PROVE CacheIsNewest'
  BY <1>10 DEF Return, Answer
<1>11. ASSUME NEW p \in Callers, ReturnStale(p) PROVE CacheIsNewest'
  BY <1>11 DEF ReturnStale, Answer
<1>12. ASSUME NEW p \in Callers, ReturnError(p) PROVE CacheIsNewest'
  BY <1>12 DEF ReturnError
<1>13. CASE AdminWrite
  BY <1>13 DEF AdminWrite
<1>14. CASE ExternalWrite
  BY <1>14 DEF ExternalWrite
<1>15. CASE Tick
  BY <1>15 DEF Tick
<1>16. CASE Restart
  BY <1>16 DEF Restart
<1>17. ASSUME NEW v \in owed, Invalidate(v) PROVE CacheIsNewest'
  BY <1>17 DEF Invalidate, Later, InFlight
<1>18. CASE UNCHANGED vars
  BY <1>18 DEF vars
<1> QED
  BY <1>1, <1>2, <1>3, <1>4, <1>5, <1>6, <1>7, <1>8, <1>9, <1>10, <1>11, <1>12, <1>13, <1>14, <1>15, <1>16, <1>17, <1>18 DEF Next, Step

\* Readers stay behind it.
LEMMA ReadersBehindStep ==
    ASSUME IInv, [Next]_vars
    PROVE  ReadersBehind'
<1> USE CacheAssumption DEF IInv, TypeOK, OneLoad, LoadAhead, CacheIsNewest, ReadersBehind, ReadSoFar, AtMost, NotBefore, InFlight, Tables, Snapshots, Loads, Unread, Nothing
<1>1. ASSUME NEW p \in Callers, Begin(p) PROVE ReadersBehind'
  BY <1>1 DEF Begin
<1>2. ASSUME NEW p \in Callers, Hit(p) PROVE ReadersBehind'
  BY <1>2 DEF Hit, Answer, Fresh
<1>3. ASSUME NEW p \in Callers, Miss(p) PROVE ReadersBehind'
  BY <1>3 DEF Miss, Fresh
<1>4. ASSUME NEW p \in Callers, Lead(p) PROVE ReadersBehind'
  BY <1>4 DEF Lead, InFlight
<1>5. ASSUME NEW p \in Callers, Join(p) PROVE ReadersBehind'
  BY <1>5 DEF Join, InFlight
<1>6. ASSUME NEW p \in Callers, Read(p) PROVE ReadersBehind'
  BY <1>6 DEF Read
<1>7. ASSUME NEW p \in Callers, LoadFails(p) PROVE ReadersBehind'
  BY <1>7 DEF LoadFails
<1>8. ASSUME NEW p \in Callers, Store(p) PROVE ReadersBehind'
  BY <1>8 DEF Store
<1>9. ASSUME NEW p \in Callers, Settle(p) PROVE ReadersBehind'
  BY <1>9 DEF Settle
<1>10. ASSUME NEW p \in Callers, Return(p) PROVE ReadersBehind'
  BY <1>10 DEF Return, Answer
<1>11. ASSUME NEW p \in Callers, ReturnStale(p) PROVE ReadersBehind'
  BY <1>11 DEF ReturnStale, Answer
<1>12. ASSUME NEW p \in Callers, ReturnError(p) PROVE ReadersBehind'
  BY <1>12 DEF ReturnError
<1>13. CASE AdminWrite
  BY <1>13 DEF AdminWrite
<1>14. CASE ExternalWrite
  BY <1>14 DEF ExternalWrite
<1>15. CASE Tick
  BY <1>15 DEF Tick
<1>16. CASE Restart
  BY <1>16 DEF Restart
<1>17. ASSUME NEW v \in owed, Invalidate(v) PROVE ReadersBehind'
  BY <1>17 DEF Invalidate, Later, InFlight
<1>18. CASE UNCHANGED vars
  BY <1>18 DEF vars
<1> QED
  BY <1>1, <1>2, <1>3, <1>4, <1>5, <1>6, <1>7, <1>8, <1>9, <1>10, <1>11, <1>12, <1>13, <1>14, <1>15, <1>16, <1>17, <1>18 DEF Next, Step

LEMMA IInvInit == Init => IInv
<1> USE CacheAssumption DEF Init, Tables, Snapshots, Loads, Unread, Nothing
<1>1. Init => TypeOK
  BY DEF TypeOK
<1>2. Init => OneLoad
  <2> SUFFICES ASSUME Init, NEW p \in Callers
               PROVE  /\ pc[p] \notin {"load", "settle", "wait"}
                      /\ call # p
                      /\ load[p].n = 0
                      /\ res[p] = NoSnap
    BY DEF OneLoad
  <2> QED
    OBVIOUS
<1>3. Init => LoadAhead
  BY DEF LoadAhead, ReadSoFar
<1>4. Init => CacheIsNewest
  BY DEF CacheIsNewest
<1>5. Init => ReadersBehind
  <2> SUFFICES ASSUME Init, NEW p \in Callers
               PROVE  /\ \A t \in Tables : seen[p][t] <= newest[t]
                      /\ asked[p].quiet <= dropped.quiet
                      /\ pc[p] = "idle"
    BY DEF ReadersBehind, AtMost
  <2> QED
    OBVIOUS
<1> QED
  BY <1>1, <1>2, <1>3, <1>4, <1>5 DEF IInv

\* TypeOK holds in every reachable state, and so does the order of loads.
THEOREM CacheInvariant == Spec => [](TypeOK /\ IInv)
<1>1. IInv /\ [Next]_vars => IInv'
  <2> SUFFICES ASSUME IInv, [Next]_vars PROVE IInv'
    OBVIOUS
  <2>1. TypeOK /\ OneLoad
    BY DEF IInv
  <2>2. TypeOK'
    BY <2>1, TypeStep
  <2>3. OneLoad'
    BY <2>1, OneLoadStep
  <2>4. LoadAhead' /\ CacheIsNewest' /\ ReadersBehind'
    BY LoadAheadStep, CacheIsNewestStep, ReadersBehindStep
  <2> QED
    BY <2>2, <2>3, <2>4 DEF IInv
<1>2. IInv => TypeOK
  BY DEF IInv
<1> QED
  BY <1>1, <1>2, IInvInit, PTL DEF Spec

\* What every answer is: between what the reader saw last and the database, and
\* past every write that a quiet Invalidate announced before the Get began.
LEMMA AnswerIsBetween ==
    ASSUME IInv, NEW p \in Callers, Answers(p)
    PROVE  \E s \in Snapshots :
               /\ seen' = [seen EXCEPT ![p] = s]
               /\ db' = db
               /\ AtMost(seen[p], s)
               /\ \A t \in Tables : s[t] <= db
               /\ NotBefore(asked[p].quiet, s)
<1> USE DEF IInv, TypeOK, CacheIsNewest, ReadersBehind, AtMost, NotBefore, Snapshots, Tables
<1>1. CASE Hit(p)
  <2>1. snap \in Snapshots /\ seen' = [seen EXCEPT ![p] = snap] /\ db' = db
    BY <1>1 DEF Hit, Fresh, Answer
  <2>2. AtMost(seen[p], snap) /\ \A t \in Tables : snap[t] <= db
    BY <1>1 DEF Hit, Fresh
  <2>3. NotBefore(asked[p].quiet, snap)
    BY <1>1 DEF Hit, Fresh
  <2> QED
    BY <2>1, <2>2, <2>3
<1>2. CASE Return(p)
  <2>1. res[p] \in Snapshots /\ seen' = [seen EXCEPT ![p] = res[p]] /\ db' = db
    BY <1>2 DEF Return, Answer
  <2>2. AtMost(seen[p], res[p]) /\ \A t \in Tables : res[p][t] <= db
    BY <1>2, <2>1 DEF Return
  <2>3. NotBefore(asked[p].quiet, res[p])
    BY <1>2 DEF Return
  <2> QED
    BY <2>1, <2>2, <2>3
<1>3. CASE ReturnStale(p)
  <2>1. snap \in Snapshots /\ seen' = [seen EXCEPT ![p] = snap] /\ db' = db
    BY <1>3 DEF ReturnStale, Answer
  <2>2. AtMost(seen[p], snap) /\ \A t \in Tables : snap[t] <= db
    BY <1>3 DEF ReturnStale
  <2>3. NotBefore(asked[p].quiet, snap)
    BY <1>3 DEF ReturnStale
  <2> QED
    BY <2>1, <2>2, <2>3
<1> QED
  BY <1>1, <1>2, <1>3 DEF Answers

\* No Get that begins after a quiet Invalidate is answered from before its write.
THEOREM InvalidatedStaysGone == Spec => InvalidatedIsGone
<1>1. ASSUME IInv, NEW p \in Callers, Answers(p)
      PROVE  \A t \in Tables : seen'[p][t] >= asked[p].quiet
  <2>1. PICK s \in Snapshots : seen' = [seen EXCEPT ![p] = s] /\ NotBefore(asked[p].quiet, s)
    BY <1>1, AnswerIsBetween
  <2>2. asked[p].quiet \in Nat /\ seen'[p] = s
    BY <1>1, <2>1 DEF IInv, TypeOK
  <2> QED
    BY <2>1, <2>2 DEF NotBefore, Snapshots
<1>2. IInv => [\A p \in Callers : Answers(p) => \A t \in Tables : seen'[p][t] >= asked[p].quiet]_vars
  BY <1>1
<1> QED
  BY <1>2, CacheInvariant, PTL DEF InvalidatedIsGone

\* The cache implements CatalogReads: the order of what each reader is shown.
THEOREM CacheImplementsReads == Spec => ReadsNeverGoBack
<1>1. Init => Reads!Init
  BY DEF Init, Reads!Init, Nothing
<1>2. IInv /\ [Next]_vars => [Reads!Next]_(Reads!vars)
  <2> SUFFICES ASSUME IInv, [Next]_vars PROVE [Reads!Next]_(Reads!vars)
    OBVIOUS
  <2>1. ASSUME NEW p \in Callers, Answers(p) PROVE Reads!Serve(p)
    <3>1. PICK s \in Snapshots :
              /\ seen' = [seen EXCEPT ![p] = s]
              /\ db' = db
              /\ AtMost(seen[p], s)
              /\ \A t \in Tables : s[t] <= db
      BY <2>1, AnswerIsBetween
    <3>2. db \in Nat
      BY DEF IInv, TypeOK
    <3>3. s \in [Tables -> 0..db]
      BY <3>1, <3>2 DEF Snapshots
    <3> QED
      BY <3>1, <3>3 DEF Reads!Serve, AtMost
  <2>2. CASE AdminWrite \/ ExternalWrite
    BY <2>2 DEF AdminWrite, ExternalWrite, Reads!Next, Reads!Commit
  <2>3. CASE \E p \in Callers : Answers(p)
    BY <2>1, <2>3 DEF Reads!Next
  <2>4. CASE UNCHANGED <<db, seen>>
    BY <2>4 DEF Reads!vars
  <2>5. CASE UNCHANGED vars
    BY <2>5 DEF vars, Reads!vars
  <2>6. ASSUME NEW p \in Callers, Begin(p) \/ Step(p), ~ Answers(p)
        PROVE  UNCHANGED <<db, seen>>
    BY <2>6 DEF Step, Answers, Begin, Miss, Lead, Join, Read, LoadFails, Store, Settle, ReturnError
  <2>7. CASE Tick \/ Restart \/ \E v \in owed : Invalidate(v)
    BY <2>7 DEF Tick, Restart, Invalidate, Reads!vars
  <2> QED
    BY <2>2, <2>3, <2>4, <2>5, <2>6, <2>7 DEF Next
<1> QED
  BY <1>1, <1>2, CacheInvariant, PTL DEF Spec, ReadsNeverGoBack, Reads!Spec

-----------------------------------------------------------------------------
(***************************************************************************)
(* CatalogLoad: first the operators of CatalogView.                        *)
(***************************************************************************)

\* Nothing about a catalogue without restricted categories and beta services
\* depends on the reader.
LEMMA SameForEveryReader ==
    ASSUME NEW S, NEW C, ~IsRestricted(C), ~HasBeta(S), NEW held, NEW b
    PROVE  Narrow(S, C, held, b) = [services |-> S, categories |-> Populated(C, S)]
<1>1. \A x \in S : Visible(x, C, held, b)
  BY DEF Visible, IsRestricted, HasBeta
<1>2. {x \in S : Visible(x, C, held, b)} = S
  BY <1>1
<1> QED
  BY <1>2 DEF Narrow

\* VisibleTo's two short cuts (the prepared public view, and the whole catalogue
\* when nothing narrows) change no answer: it is Narrow for every reader.
THEOREM ShortCutsAreExact ==
    ASSUME NEW S, NEW C, NEW held, NEW b \in BOOLEAN
    PROVE  VisibleTo(NewSnapshot(S, C), held, b) = Narrow(S, C, held, b)
<1> DEFINE whole == NewSnapshot(S, C)
<1>1. /\ whole.services = S
      /\ whole.categories = C
      /\ whole.restricted = IsRestricted(C)
      /\ whole.hasBeta = HasBeta(S)
  BY DEF NewSnapshot
<1>2. whole.public = IF IsRestricted(C) \/ HasBeta(S) \/ HasEmptyCategory(S, C)
                    THEN Narrow(S, C, {}, FALSE)
                    ELSE [services |-> S, categories |-> C]
  BY DEF NewSnapshot
<1> HIDE DEF whole
<1>3. CASE ~IsRestricted(C) /\ ~HasBeta(S)
  <2>1. VisibleTo(whole, held, b) = whole.public
    BY <1>1, <1>3 DEF VisibleTo
  <2>2. whole.public = [services |-> S, categories |-> Populated(C, S)]
    BY <1>2, <1>3, SameForEveryReader DEF HasEmptyCategory
  <2>3. Narrow(S, C, held, b) = [services |-> S, categories |-> Populated(C, S)]
    BY <1>3, SameForEveryReader
  <2> QED
    BY <2>1, <2>2, <2>3 DEF whole
<1>4. CASE (IsRestricted(C) \/ HasBeta(S)) /\ held = {} /\ ~b
  BY <1>1, <1>2, <1>4 DEF VisibleTo, whole
<1>5. CASE (IsRestricted(C) \/ HasBeta(S)) /\ ~(held = {} /\ ~b)
  BY <1>1, <1>5 DEF VisibleTo, whole
<1> QED
  BY <1>3, <1>4, <1>5

\* A view never carries a category its reader may not see: a category is offered
\* for a service the reader sees, and that service's restrictions are all held.
THEOREM ViewHoldsItsCategories ==
    ASSUME NEW S, NEW C, NEW held, NEW b,
           NEW c \in Narrow(S, C, held, b).categories, c.vis # Public
    PROVE  c.vis \in held
BY DEF Narrow, Populated, Visible

\* Holding more groups, or asking for beta services, never takes a service or a
\* category away from a reader.
THEOREM MoreGroupsShowMore ==
    ASSUME NEW S, NEW C, NEW held, NEW more, held \subseteq more,
           NEW b \in BOOLEAN, NEW d \in BOOLEAN, b => d
    PROVE  /\ Narrow(S, C, held, b).services \subseteq Narrow(S, C, more, d).services
           /\ Narrow(S, C, held, b).categories \subseteq Narrow(S, C, more, d).categories
<1>1. \A x \in S : Visible(x, C, held, b) => Visible(x, C, more, d)
  BY DEF Visible
<1> QED
  BY <1>1 DEF Narrow, Populated

-----------------------------------------------------------------------------
(***************************************************************************)
(* The state machine.                                                      *)
(***************************************************************************)

TablesOK ==
    /\ svc \in [ServiceIds -> Rows]
    /\ cat \in [CategoryIds -> CategoryRows]
    /\ Consistent

\* While no write overlaps the load, what it has is what the tables hold.
GotIsCurrent ==
    /\ stage \in 0..2
    /\ quiet /\ stage >= 1 => got.categories = CategoryList
    /\ quiet /\ stage = 2 => got.services = ServiceList
    /\ stage # 0 => ~Loaded

SnapshotIsAssembled ==
    Loaded =>
        /\ \E S, C : snapshot = NewSnapshot(S, C)
        /\ quiet => snapshot = NewSnapshot(Filed(ServiceList), CategoryList)

LInv == TablesOK /\ GotIsCurrent /\ SnapshotIsAssembled

\* Writing a service row keeps the constraints when the row has its categories.
LEMMA ServiceRowWritten ==
    ASSUME TablesOK, NEW s \in ServiceIds, NEW row \in Rows,
           row.state # "none", row.cats # {}, row.cats \subseteq Existing,
           svc' = [svc EXCEPT ![s] = row], cat' = cat
    PROVE  TablesOK'
<1>1. svc' \in [ServiceIds -> Rows] /\ Existing' = Existing
  BY DEF TablesOK, Existing
<1>2. \A t \in ServiceIds : svc'[t] = IF t = s THEN row ELSE svc[t]
  BY DEF TablesOK
<1> QED
  BY <1>1, <1>2 DEF TablesOK, Consistent

\* Writing a category row keeps the constraints when its slug was free or its own.
LEMMA CategoryRowWritten ==
    ASSUME TablesOK, NEW k \in CategoryIds, NEW row \in CategoryRows, row.slug # NoSlug,
           \A j \in CategoryIds : j # k => cat[j].slug # row.slug,
           cat' = [cat EXCEPT ![k] = row], svc' = svc
    PROVE  TablesOK'
<1>1. cat' \in [CategoryIds -> CategoryRows]
  BY DEF TablesOK
<1>2. \A j \in CategoryIds : cat'[j] = IF j = k THEN row ELSE cat[j]
  BY DEF TablesOK
<1>3. Existing \subseteq Existing'
  BY <1>2 DEF Existing
<1> QED
  BY <1>1, <1>2, <1>3 DEF TablesOK, Consistent, Existing

\* Every committed catalogue satisfies the constraints.
LEMMA TablesStep ==
    ASSUME TablesOK, [LoadNext]_loadVars
    PROVE  TablesOK'
<1> USE LoadAssumption
<1>1. ASSUME NEW s \in ServiceIds, NEW cats \in SUBSET CategoryIds, NEW b \in BOOLEAN, CreateService(s, cats, b)
      PROVE  TablesOK'
  <2> DEFINE row == [state |-> "active", cats |-> cats, beta |-> b]
  <2>1. row \in Rows /\ row.state # "none" /\ row.cats = cats
    BY DEF Rows
  <2>2. svc' = [svc EXCEPT ![s] = row] /\ cat' = cat /\ cats # {} /\ cats \subseteq Existing
    BY <1>1 DEF CreateService, WriteService
  <2> HIDE DEF row
  <2> QED
    BY <2>1, <2>2, ServiceRowWritten
<1>2. ASSUME NEW s \in ServiceIds, NEW cats \in SUBSET CategoryIds, NEW b \in BOOLEAN, UpdateService(s, cats, b)
      PROVE  TablesOK'
  <2> DEFINE row == [svc[s] EXCEPT !.cats = cats, !.beta = b]
  <2>1. svc[s] \in Rows
    BY DEF TablesOK
  <2>2. row \in Rows /\ row.state = svc[s].state /\ row.cats = cats
    BY <2>1 DEF Rows
  <2>3. /\ svc' = [svc EXCEPT ![s] = row] /\ cat' = cat
        /\ cats # {} /\ cats \subseteq Existing /\ svc[s].state # "none"
    BY <1>2 DEF UpdateService, WriteService
  <2> HIDE DEF row
  <2> QED
    BY <2>2, <2>3, ServiceRowWritten
<1>3. ASSUME NEW s \in ServiceIds, SoftDeleteService(s)
      PROVE  TablesOK'
  <2> DEFINE row == [svc[s] EXCEPT !.state = "inactive"]
  <2>1. svc[s] \in Rows
    BY DEF TablesOK
  <2>2. row \in Rows /\ row.state = "inactive" /\ row.cats = svc[s].cats
    BY <2>1 DEF Rows
  <2>3. svc' = [svc EXCEPT ![s] = row] /\ cat' = cat /\ svc[s].state = "active"
    BY <1>3 DEF SoftDeleteService, WriteService
  <2>4. svc[s].cats # {} /\ svc[s].cats \subseteq Existing
    BY <2>3 DEF TablesOK, Consistent
  <2> HIDE DEF row
  <2> QED
    BY <2>2, <2>3, <2>4, ServiceRowWritten
<1>4. ASSUME NEW k \in CategoryIds, NEW slug \in Slugs, NEW vis \in Visibilities \cup {Public},
             CreateCategory(k, slug, vis) \/ UpdateCategory(k, slug, vis)
      PROVE  TablesOK'
  <2> DEFINE row == [slug |-> slug, vis |-> vis]
  <2>1. row \in CategoryRows /\ row.slug = slug /\ slug # NoSlug
    BY DEF CategoryRows
  <2>2. cat' = [cat EXCEPT ![k] = row] /\ svc' = svc
    BY <1>4 DEF CreateCategory, UpdateCategory, WriteCategory
  <2>3. \A j \in CategoryIds : j # k => cat[j].slug # slug
    BY <1>4, <2>1 DEF CreateCategory, UpdateCategory, SlugFree, TablesOK, Consistent, Existing
  <2> HIDE DEF row
  <2> QED
    BY <2>1, <2>2, <2>3, CategoryRowWritten
<1>5. ASSUME NEW k \in CategoryIds, DeleteCategory(k)
      PROVE  TablesOK'
  <2>1. /\ cat' = [cat EXCEPT ![k] = NoCategory] /\ svc' = svc
        /\ \A s \in ServiceIds : k \notin svc[s].cats
    BY <1>5 DEF DeleteCategory, WriteCategory
  <2>2. cat' \in [CategoryIds -> CategoryRows]
    BY <2>1 DEF TablesOK, NoCategory, CategoryRows
  <2>3. \A j \in CategoryIds : cat'[j] = IF j = k THEN NoCategory ELSE cat[j]
    BY <2>1 DEF TablesOK
  <2>4. Existing' = Existing \ {k}
    BY <2>3 DEF Existing, NoCategory
  <2> QED
    BY <2>1, <2>2, <2>3, <2>4 DEF TablesOK, Consistent
<1>6. CASE ReadCategories \/ ReadServices \/ ReadPairs \/ UNCHANGED loadVars
  BY <1>6 DEF ReadCategories, ReadServices, ReadPairs, loadVars, TablesOK, Consistent, Existing
<1> QED
  BY <1>1, <1>2, <1>3, <1>4, <1>5, <1>6 DEF LoadNext

\* A step either reads, or writes while a load runs, or does nothing.
LEMMA StepKinds ==
    ASSUME [LoadNext]_loadVars
    PROVE  \/ ReadCategories
           \/ ReadServices
           \/ ReadPairs
           \/ ~quiet' /\ stage # 0 /\ UNCHANGED <<stage, got, snapshot>>
           \/ UNCHANGED loadVars
BY DEF LoadNext, CreateService, UpdateService, SoftDeleteService, CreateCategory,
       UpdateCategory, DeleteCategory, WriteService, WriteCategory, Written, Overlaps

LEMMA GotStep ==
    ASSUME LInv, [LoadNext]_loadVars
    PROVE  GotIsCurrent' /\ SnapshotIsAssembled'
<1> USE DEF LInv, GotIsCurrent, SnapshotIsAssembled, Loaded
<1>1. CASE ReadCategories
  <2>1. CategoryList' = CategoryList
    BY <1>1 DEF ReadCategories, CategoryList, Existing
  <2>2. got'.categories = CategoryList
    BY <1>1 DEF ReadCategories
  <2> QED
    BY <1>1, <2>1, <2>2 DEF ReadCategories
<1>2. CASE ReadServices
  <2>1. CategoryList' = CategoryList /\ ServiceList' = ServiceList
    BY <1>2 DEF ReadServices, CategoryList, ServiceList, Existing, Active
  <2>2. got'.categories = got.categories /\ got'.services = ServiceList
    BY <1>2 DEF ReadServices
  <2> QED
    BY <1>2, <2>1, <2>2 DEF ReadServices
<1>3. CASE ReadPairs
  <2>1. /\ CategoryList' = CategoryList
        /\ ServiceList' = ServiceList
        /\ Filed(ServiceList)' = Filed(ServiceList)
    BY <1>3 DEF ReadPairs, CategoryList, ServiceList, Existing, Active, Filed, PairedWith
  <2>2. snapshot' = NewSnapshot(Filed(got.services), got.categories) /\ stage' = 0 /\ stage = 2
    BY <1>3 DEF ReadPairs
  <2>3. quiet' => got.categories = CategoryList /\ got.services = ServiceList
    BY <1>3, <2>2 DEF ReadPairs
  <2> QED
    BY <2>1, <2>2, <2>3
<1>4. CASE ~quiet' /\ stage # 0 /\ UNCHANGED <<stage, got, snapshot>>
  BY <1>4
<1>5. CASE UNCHANGED loadVars
  BY <1>5 DEF loadVars, CategoryList, ServiceList, Existing, Active, Filed, PairedWith
<1> QED
  BY <1>1, <1>2, <1>3, <1>4, <1>5, StepKinds

THEOREM LoadInvariant == LoadSpec => []LInv
<1>1. LoadInit => LInv
  BY DEF LoadInit, LInv, TablesOK, GotIsCurrent, SnapshotIsAssembled, Loaded
<1>2. LInv /\ [LoadNext]_loadVars => LInv'
  BY TablesStep, GotStep DEF LInv
<1> QED
  BY <1>1, <1>2, PTL DEF LoadSpec

\* The lookup by slug in an untorn snapshot is the rule on the tables.
LEMMA SlugLookupIsExact ==
    ASSUME TablesOK, NEW held, NEW b \in BOOLEAN, NEW s \in Active
    PROVE  Visible([id |-> s, cats |-> PairedWith(s), beta |-> svc[s].beta], CategoryList, held, b)
           <=> Entitled(s, held, b)
<1> DEFINE v == [id |-> s, cats |-> PairedWith(s), beta |-> svc[s].beta]
<1>1. v.cats = {cat[k].slug : k \in svc[s].cats} /\ v.beta = svc[s].beta
  BY DEF PairedWith
<1> HIDE DEF v
<1>2. svc[s].cats \subseteq Existing /\ s \in ServiceIds /\ svc[s].cats \subseteq CategoryIds
  BY DEF TablesOK, Consistent, Active, Existing
<1>3. ASSUME Visible(v, CategoryList, held, b) PROVE Entitled(s, held, b)
  <2>1. ASSUME NEW k \in svc[s].cats, cat[k].vis # Public PROVE cat[k].vis \in held
    <3>1. [slug |-> cat[k].slug, vis |-> cat[k].vis] \in CategoryList
      BY <1>2 DEF CategoryList
    <3>2. cat[k].slug \in v.cats
      BY <1>1
    <3> QED
      BY <1>3, <2>1, <3>1, <3>2 DEF Visible
  <2> QED
    BY <1>1, <1>3, <2>1 DEF Entitled, Restriction, Visible
<1>4. ASSUME Entitled(s, held, b) PROVE Visible(v, CategoryList, held, b)
  <2>1. ASSUME NEW c \in CategoryList, c.slug \in v.cats, c.vis # Public PROVE c.vis \in held
    <3>1. PICK j \in Existing : c.slug = cat[j].slug /\ c.vis = cat[j].vis
      BY DEF CategoryList
    <3>2. PICK k \in svc[s].cats : cat[k].slug = c.slug
      BY <1>1, <2>1
    <3>3. j = k
      BY <1>2, <3>1, <3>2 DEF TablesOK, Consistent
    <3> QED
      BY <1>4, <2>1, <3>1, <3>3 DEF Entitled, Restriction
  <2> QED
    BY <1>1, <1>4, <2>1 DEF Entitled, Visible
<1> QED
  BY <1>3, <1>4 DEF v

\* A load no write overlapped shows every reader what the tables entitle them to.
THEOREM QuietLoadsAreExact == LoadSpec => []QuietLoadIsExact
<1>1. LInv => QuietLoadIsExact
  <2> SUFFICES ASSUME LInv, Loaded, quiet, NEW held \in SUBSET Visibilities, NEW b \in BOOLEAN
               PROVE  Shown(held, b) = {s \in ServiceIds : Entitled(s, held, b)}
    BY DEF QuietLoadIsExact
  <2>1. snapshot = NewSnapshot(Filed(ServiceList), CategoryList)
    BY DEF LInv, SnapshotIsAssembled
  <2>2. VisibleTo(snapshot, held, b) = Narrow(Filed(ServiceList), CategoryList, held, b)
    BY <2>1, ShortCutsAreExact
  <2>3. VisibleTo(snapshot, held, b).services
            = {v \in Filed(ServiceList) : Visible(v, CategoryList, held, b)}
    BY <2>2 DEF Narrow
  <2> DEFINE row(s) == [id |-> s, cats |-> PairedWith(s), beta |-> svc[s].beta]
  <2>4. Filed(ServiceList) = {row(s) : s \in Active}
    <3>1. ASSUME NEW v \in Filed(ServiceList) PROVE \E s \in Active : v = row(s)
      <4>1. PICK r \in ServiceList : v = [id |-> r.id, cats |-> PairedWith(r.id), beta |-> r.beta]
        BY DEF Filed
      <4>2. PICK s \in Active : r = [id |-> s, beta |-> svc[s].beta]
        BY DEF ServiceList
      <4>3. r.id = s /\ r.beta = svc[s].beta
        BY <4>2
      <4> QED
        BY <4>1, <4>3
    <3>2. ASSUME NEW s \in Active PROVE row(s) \in Filed(ServiceList)
      <4> DEFINE r == [id |-> s, beta |-> svc[s].beta]
      <4>1. r \in ServiceList /\ r.id = s /\ r.beta = svc[s].beta
        BY DEF ServiceList
      <4> HIDE DEF r
      <4> QED
        BY <4>1 DEF Filed
    <3> HIDE DEF row
    <3> QED
      BY <3>1, <3>2
  <2>5. \A s \in Active : row(s).id = s /\ (Visible(row(s), CategoryList, held, b) <=> Entitled(s, held, b))
    BY SlugLookupIsExact DEF LInv
  <2> HIDE DEF row
  <2>6. Shown(held, b) = {s \in Active : Entitled(s, held, b)}
    <3>1. \A s \in Shown(held, b) : s \in Active /\ Entitled(s, held, b)
      BY <2>3, <2>4, <2>5 DEF Shown
    <3>2. \A s \in Active : Entitled(s, held, b) => s \in Shown(held, b)
      BY <2>3, <2>4, <2>5 DEF Shown
    <3> QED
      BY <3>1, <3>2
  <2> QED
    BY <2>6 DEF Entitled, Active
<1> QED
  BY <1>1, LoadInvariant, PTL

\* Also in a torn snapshot no reader is offered a category without a service of
\* theirs, or one they do not hold.
THEOREM NoEmptyCategories == LoadSpec => []NoCategoryWithoutService
<1>1. LInv => NoCategoryWithoutService
  <2> SUFFICES ASSUME LInv, Loaded, NEW held \in SUBSET Visibilities, NEW b \in BOOLEAN,
                      NEW c \in VisibleTo(snapshot, held, b).categories
               PROVE  /\ \E v \in VisibleTo(snapshot, held, b).services : c.slug \in v.cats
                      /\ c.vis \in held \cup {Public}
    BY DEF NoCategoryWithoutService
  <2>1. PICK S, C : snapshot = NewSnapshot(S, C)
    BY DEF LInv, SnapshotIsAssembled
  <2>2. VisibleTo(snapshot, held, b) = Narrow(S, C, held, b)
    BY <2>1, ShortCutsAreExact
  <2> QED
    BY <2>2, ViewHoldsItsCategories DEF Narrow, Populated
<1> QED
  BY <1>1, LoadInvariant, PTL

-----------------------------------------------------------------------------
(***************************************************************************)
(* What a torn load keeps: restrictions no category write touched.         *)
(***************************************************************************)

\* What the statements returned, and the histories, keep their shape.
Shapes ==
    /\ got \in [categories : SUBSET Categories(Slugs, Visibilities),
                services : SUBSET [id : ServiceIds, beta : BOOLEAN]]
    /\ writes \in 0..MaxWrites
    /\ restricted \subseteq ServiceIds /\ hidden \subseteq ServiceIds

\* Without category writes the categories read first are still those of the
\* tables when the pairs are read, and what counts as restricted still is.
RestrictionsAreRead ==
    /\ stage # 0 /\ catQuiet => got.categories = CategoryList
    /\ stage # 0 => restricted \subseteq RestrictedNow
    /\ RestrictedStaysHidden

RInv == LInv /\ Shapes /\ RestrictionsAreRead

LEMMA ListsAreTyped ==
    ASSUME TablesOK
    PROVE  /\ CategoryList \subseteq Categories(Slugs, Visibilities)
           /\ ServiceList \subseteq [id : ServiceIds, beta : BOOLEAN]
<1>1. ASSUME NEW k \in Existing
      PROVE  [slug |-> cat[k].slug, vis |-> cat[k].vis] \in Categories(Slugs, Visibilities)
  BY DEF Existing, TablesOK, CategoryRows, Categories
<1>2. ASSUME NEW s \in Active
      PROVE  [id |-> s, beta |-> svc[s].beta] \in [id : ServiceIds, beta : BOOLEAN]
  BY DEF Active, TablesOK, Rows
<1> QED
  BY <1>1, <1>2 DEF CategoryList, ServiceList

\* An admin write shrinks the histories, and unless it writes a category the
\* list of categories stays.
LEMMA WritesDuringALoad ==
    ASSUME [LoadNext]_loadVars
    PROVE  \/ ReadCategories
           \/ ReadServices
           \/ ReadPairs
           \/ /\ stage # 0 /\ UNCHANGED <<stage, got, snapshot>>
              /\ restricted' = restricted \cap RestrictedNow'
              /\ hidden' = hidden \cap HiddenNow'
              /\ writes < MaxWrites /\ writes' = writes + 1
              /\ ~catQuiet' \/ (cat' = cat /\ catQuiet' = catQuiet)
           \/ UNCHANGED loadVars
BY DEF LoadNext, CreateService, UpdateService, SoftDeleteService, CreateCategory,
       UpdateCategory, DeleteCategory, WriteService, WriteCategory, Written, Overlaps

LEMMA ShapesStep ==
    ASSUME TablesOK, Shapes, [LoadNext]_loadVars
    PROVE  Shapes'
<1> USE DEF Shapes
<1>1. CASE ReadCategories
  <2>1. got' = [got EXCEPT !.categories = CategoryList] /\ writes' = writes
    BY <1>1 DEF ReadCategories
  <2>2. restricted' \subseteq ServiceIds /\ hidden' \subseteq ServiceIds
    BY <1>1 DEF ReadCategories, RestrictedNow, Active, HiddenNow
  <2> QED
    BY <2>1, <2>2, ListsAreTyped
<1>2. CASE ReadServices
  BY <1>2, ListsAreTyped DEF ReadServices
<1>3. CASE ReadPairs
  BY <1>3 DEF ReadPairs, NothingRead
<1>4. CASE /\ UNCHANGED got
           /\ restricted' = restricted \cap RestrictedNow'
           /\ hidden' = hidden \cap HiddenNow'
           /\ writes < MaxWrites /\ writes' = writes + 1
  BY <1>4, LoadAssumption
<1>5. CASE UNCHANGED loadVars
  BY <1>5 DEF loadVars
<1> QED
  BY <1>1, <1>2, <1>3, <1>4, <1>5, WritesDuringALoad

\* The pairs file a restricted service under a restricted category, and the
\* categories read first still say so: no public reader is shown it.
LEMMA PairsHideRestricted ==
    ASSUME TablesOK, RestrictionsAreRead, ReadPairs, catQuiet
    PROVE  (Shown({}, FALSE) \cap restricted = {})'
<1>1. got.categories = CategoryList /\ restricted \subseteq RestrictedNow /\ restricted' = restricted
  BY DEF RestrictionsAreRead, ReadPairs
<1>2. snapshot' = NewSnapshot(Filed(got.services), CategoryList)
  BY <1>1 DEF ReadPairs
<1>3. VisibleTo(snapshot', {}, FALSE).services
        = {v \in Filed(got.services) : Visible(v, CategoryList, {}, FALSE)}
  <2>1. VisibleTo(NewSnapshot(Filed(got.services), CategoryList), {}, FALSE)
          = Narrow(Filed(got.services), CategoryList, {}, FALSE)
    BY ShortCutsAreExact
  <2>2. Narrow(Filed(got.services), CategoryList, {}, FALSE).services
          = {v \in Filed(got.services) : Visible(v, CategoryList, {}, FALSE)}
    BY DEF Narrow
  <2> QED
    BY <1>2, <2>1, <2>2
<1>4. ASSUME NEW v \in Filed(got.services), Visible(v, CategoryList, {}, FALSE), v.id \in restricted
      PROVE  FALSE
  <2>1. v.cats = PairedWith(v.id)
    BY DEF Filed
  <2>2. PICK k \in svc[v.id].cats : cat[k].vis # Public
    BY <1>1, <1>4 DEF RestrictedNow, Restriction
  <2>3. v.id \in Active /\ v.id \in ServiceIds
    BY <1>1, <1>4 DEF RestrictedNow, Active
  <2>4. k \in Existing
    BY <2>2, <2>3 DEF TablesOK, Consistent, Active
  <2>5. [slug |-> cat[k].slug, vis |-> cat[k].vis] \in CategoryList
    BY <2>4 DEF CategoryList
  <2>6. cat[k].slug \in v.cats
    BY <2>1, <2>2, <2>3 DEF PairedWith
  <2> QED
    BY <1>4, <2>2, <2>5, <2>6 DEF Visible
<1> QED
  BY <1>1, <1>3, <1>4 DEF Shown

LEMMA RestrictionsStep ==
    ASSUME RInv, [LoadNext]_loadVars
    PROVE  RestrictionsAreRead'
<1> USE DEF RestrictionsAreRead, RestrictedStaysHidden
<1>1. CASE ReadCategories
  <2>1. got' = [got EXCEPT !.categories = CategoryList] /\ snapshot' = NoSnapshot
    BY <1>1 DEF ReadCategories
  <2>2. got'.categories = CategoryList
    BY <2>1 DEF RInv, Shapes
  <2>3. CategoryList' = CategoryList /\ restricted' = RestrictedNow'
    BY <1>1 DEF ReadCategories, CategoryList, Existing, RestrictedNow, Active, Restriction
  <2> QED
    BY <2>1, <2>2, <2>3 DEF Loaded
<1>2. CASE ReadServices
  <2>1. got'.categories = got.categories /\ stage = 1 /\ snapshot' = snapshot
    BY <1>2 DEF ReadServices, RInv, Shapes
  <2>2. CategoryList' = CategoryList /\ RestrictedNow' = RestrictedNow
    BY <1>2 DEF ReadServices, CategoryList, Existing, RestrictedNow, Active, Restriction
  <2>3. ~Loaded'
    BY <2>1 DEF RInv, LInv, GotIsCurrent, Loaded
  <2> QED
    BY <1>2, <2>1, <2>2, <2>3 DEF ReadServices, RInv
<1>3. CASE ReadPairs
  <2>1. stage' = 0 /\ catQuiet' = catQuiet
    BY <1>3 DEF ReadPairs
  <2>2. RestrictedStaysHidden'
    BY <1>3, <2>1, PairsHideRestricted DEF RInv, LInv
  <2> QED
    BY <2>1, <2>2
<1>4. CASE /\ stage # 0 /\ UNCHANGED <<stage, got, snapshot>>
           /\ restricted' = restricted \cap RestrictedNow'
           /\ ~catQuiet' \/ (cat' = cat /\ catQuiet' = catQuiet)
  <2>1. ~Loaded'
    BY <1>4 DEF RInv, LInv, GotIsCurrent, Loaded
  <2>2. cat' = cat => CategoryList' = CategoryList
    BY DEF CategoryList, Existing
  <2>3. catQuiet' => got'.categories = CategoryList'
    BY <1>4, <2>2 DEF RInv
  <2>4. restricted' \subseteq RestrictedNow'
    BY <1>4
  <2> QED
    BY <2>1, <2>3, <2>4
<1>5. CASE UNCHANGED loadVars
  <2>1. UNCHANGED <<svc, cat, stage, got, snapshot, catQuiet, restricted>>
    BY <1>5 DEF loadVars
  <2>2. CategoryList' = CategoryList /\ RestrictedNow' = RestrictedNow
    BY <2>1 DEF CategoryList, Existing, RestrictedNow, Active, Restriction
  <2>3. Loaded' = Loaded /\ Shown({}, FALSE)' = Shown({}, FALSE)
    BY <2>1 DEF Loaded, Shown
  <2> QED
    BY <2>1, <2>2, <2>3 DEF RInv
<1> QED
  BY <1>1, <1>2, <1>3, <1>4, <1>5, WritesDuringALoad

THEOREM RestrictionsInvariant == LoadSpec => []RInv
<1>1. LoadInit => RInv
  BY LoadAssumption DEF LoadInit, RInv, LInv, TablesOK, GotIsCurrent, SnapshotIsAssembled, Loaded,
     Shapes, NothingRead, RestrictionsAreRead, RestrictedStaysHidden
<1>2. RInv /\ [LoadNext]_loadVars => RInv'
  BY TablesStep, GotStep, ShapesStep, RestrictionsStep DEF RInv, LInv
<1> QED
  BY <1>1, <1>2, PTL DEF LoadSpec

\* Every variable keeps its shape, and every committed catalogue is consistent.
THEOREM LoadTypeCorrect == LoadSpec => []LoadTypeOK
<1>1. RInv => LoadTypeOK
  BY DEF RInv, LInv, TablesOK, GotIsCurrent, Shapes, LoadTypeOK
<1> QED
  BY <1>1, RestrictionsInvariant, PTL

\* Service writes alone, however they overlap the load, show no public reader a
\* service that stayed active and restricted all along.
THEOREM RestrictedServicesStayHidden == LoadSpec => []RestrictedStaysHidden
<1>1. RInv => RestrictedStaysHidden
  BY DEF RInv, RestrictionsAreRead
<1> QED
  BY <1>1, RestrictionsInvariant, PTL
=============================================================================
