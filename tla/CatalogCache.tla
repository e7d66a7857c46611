---------------------------- MODULE CatalogCache ----------------------------
(***************************************************************************)
(* The in-process catalogue cache of the server (internal/catalog/         *)
(* cache.go), the three-statement loader behind it (catalog.Load), and the *)
(* writers: an admin handler of the same process commits a write and then  *)
(* calls Invalidate; the admin MCP is another process, whose writes        *)
(* invalidate nothing here.                                                *)
(*                                                                         *)
(* The catalogue's data is its version number.  A snapshot is the version  *)
(* each of the three tables had when Load read it: the statements are not  *)
(* in one transaction, so the versions may differ.  Time is the age of the *)
(* cached snapshot, counted in ticks up to the TTL: older is only stale.   *)
(***************************************************************************)
EXTENDS Naturals

CONSTANTS
    Callers,     \* goroutines serving requests
    NoCaller,    \* nobody leads a load
    NoSnap,      \* Go's nil *Snapshot, and the outcome of a failed load
    TTL,         \* lifetime of a snapshot, in ticks
    MaxVersion   \* bound: how many catalogue writes are explored

\* The statements of Load, in order: categories, active services, and the
\* pairs that file a service under a category.
Tables == 1..3

Snapshots == [Tables -> Nat]

ASSUME CacheAssumption ==
    /\ NoCaller \notin Callers
    /\ NoSnap \notin Snapshots
    /\ TTL \in Nat \ {0}
    /\ MaxVersion \in Nat

VARIABLES
    db,          \* version of the committed catalogue
    owed,        \* versions this process committed and has not invalidated yet
    snap,        \* Cache.snap
    age,         \* now - Cache.loadedAt, at most TTL; TTL when there is no snapshot
    call,        \* Cache.group: the leader of the registered call
    pc,          \* where each Get is
    load,        \* load[p]: what p's loader call has read so far
    res,         \* res[p]: what group.Do returns to p
    (* history *)
    seen,        \* seen[p]: the snapshot last returned to p
    newest,      \* the last snapshot ever stored
    dropped,     \* newest version whose Invalidate ran: any; while no load ran: quiet
    asked        \* asked[p]: dropped when p's Get began

vars == <<db, owed, snap, age, call, pc, load, res, seen, newest, dropped, asked>>

Nothing == [t \in Tables |-> 0]

Loads == [read : Snapshots, n : 0..3]

\* The three tables read so far by p's loader call.
ReadSoFar(p) == 1..load[p].n

Unread == [read |-> Nothing, n |-> 0]

Init ==
    /\ db = 0
    /\ owed = {}
    /\ snap = NoSnap
    /\ age = TTL
    /\ call = NoCaller
    /\ pc = [p \in Callers |-> "idle"]
    /\ load = [p \in Callers |-> Unread]
    /\ res = [p \in Callers |-> NoSnap]
    /\ seen = [p \in Callers |-> Nothing]
    /\ newest = Nothing
    /\ dropped = [any |-> 0, quiet |-> 0]
    /\ asked = [p \in Callers |-> dropped]

-----------------------------------------------------------------------------
(***************************************************************************)
(* Get.                                                                    *)
(***************************************************************************)

\* Mutant: the age of the snapshot is not looked at.
FreshForever == snap # NoSnap

\* The test Get makes under the read lock.
Fresh == snap # NoSnap /\ age < TTL

\* Mutant: every caller runs a loader call of its own.
NeverInFlight == FALSE

\* A call is registered under the group's only key.
InFlight == call # NoCaller

Begin(p) ==
    /\ pc[p] = "idle"
    /\ pc' = [pc EXCEPT ![p] = "get"]
    /\ asked' = [asked EXCEPT ![p] = dropped]
    /\ UNCHANGED <<db, owed, snap, age, call, load, res, seen, newest, dropped>>

Answer(p, s) ==
    /\ pc' = [pc EXCEPT ![p] = "idle"]
    /\ res' = [res EXCEPT ![p] = NoSnap]
    /\ seen' = [seen EXCEPT ![p] = s]
    /\ UNCHANGED <<db, owed, snap, age, call, load, newest, dropped, asked>>

Hit(p) ==
    /\ pc[p] = "get"
    /\ Fresh
    /\ Answer(p, snap)

Miss(p) ==
    /\ pc[p] = "get"
    /\ ~Fresh
    /\ pc' = [pc EXCEPT ![p] = "reload"]
    /\ UNCHANGED <<db, owed, snap, age, call, load, res, seen, newest, dropped, asked>>

\* group.Do, first caller: it registers the call and runs the loader.
Lead(p) ==
    /\ pc[p] = "reload"
    /\ ~InFlight
    /\ call' = p
    /\ pc' = [pc EXCEPT ![p] = "load"]
    /\ UNCHANGED <<db, owed, snap, age, load, res, seen, newest, dropped, asked>>

\* group.Do, later caller: it waits for the registered call's outcome.
Join(p) ==
    /\ pc[p] = "reload"
    /\ InFlight
    /\ pc' = [pc EXCEPT ![p] = "wait"]
    /\ UNCHANGED <<db, owed, snap, age, call, load, res, seen, newest, dropped, asked>>

(***************************************************************************)
(* The loader call, run by the leader.                                     *)
(***************************************************************************)

\* The next statement of Load sees the catalogue committed by then.
Read(p) ==
    /\ pc[p] = "load"
    /\ load[p].n < 3
    /\ load' = [load EXCEPT ![p] = [read |-> [@.read EXCEPT ![load[p].n + 1] = db],
                                    n |-> @.n + 1]]
    /\ UNCHANGED <<db, owed, snap, age, call, pc, res, seen, newest, dropped, asked>>

\* A statement fails, the leader's request is cancelled, a label is no JSON.
LoadFails(p) ==
    /\ pc[p] = "load"
    /\ load' = [load EXCEPT ![p] = Unread]
    /\ pc' = [pc EXCEPT ![p] = "settle"]
    /\ UNCHANGED <<db, owed, snap, age, call, res, seen, newest, dropped, asked>>

\* Under the write lock; nothing looks at what happened since the first read.
Store(p) ==
    /\ pc[p] = "load"
    /\ load[p].n = 3
    /\ snap' = load[p].read
    /\ age' = 0
    /\ newest' = load[p].read
    /\ res' = [res EXCEPT ![p] = load[p].read]
    /\ load' = [load EXCEPT ![p] = Unread]
    /\ pc' = [pc EXCEPT ![p] = "settle"]
    /\ UNCHANGED <<db, owed, call, seen, dropped, asked>>

\* Mutant: a failed call is unregistered without waking those who joined it.
SettleLeaderOnly(p) ==
    LET woken == {p} \cup {q \in Callers : pc[q] = "wait" /\ res[p] # NoSnap} IN
    /\ pc[p] = "settle"
    /\ call' = NoCaller
    /\ res' = [q \in Callers |-> IF q \in woken THEN res[p] ELSE res[q]]
    /\ pc' = [q \in Callers |-> IF q \in woken THEN "woken" ELSE pc[q]]
    /\ UNCHANGED <<db, owed, snap, age, load, seen, newest, dropped, asked>>

\* The group forgets the call and hands its outcome to everyone who joined.
Settle(p) ==
    LET woken == {p} \cup {q \in Callers : pc[q] = "wait"} IN
    /\ pc[p] = "settle"
    /\ call' = NoCaller
    /\ res' = [q \in Callers |-> IF q \in woken THEN res[p] ELSE res[q]]
    /\ pc' = [q \in Callers |-> IF q \in woken THEN "woken" ELSE pc[q]]
    /\ UNCHANGED <<db, owed, snap, age, load, seen, newest, dropped, asked>>

(***************************************************************************)
(* The tail of reload: the outcome, the last good snapshot, or the error.  *)
(***************************************************************************)

Return(p) ==
    /\ pc[p] = "woken"
    /\ res[p] # NoSnap
    /\ Answer(p, res[p])

ReturnStale(p) ==
    /\ pc[p] = "woken"
    /\ res[p] = NoSnap
    /\ snap # NoSnap
    /\ Answer(p, snap)

ReturnError(p) ==
    /\ pc[p] = "woken"
    /\ res[p] = NoSnap
    /\ snap = NoSnap
    /\ pc' = [pc EXCEPT ![p] = "idle"]
    /\ UNCHANGED <<db, owed, snap, age, call, load, res, seen, newest, dropped, asked>>

-----------------------------------------------------------------------------
(***************************************************************************)
(* Writers, time and restarts.                                             *)
(***************************************************************************)

\* A transaction of internal/service commits for an admin handler.
AdminWrite ==
    /\ db < MaxVersion
    /\ db' = db + 1
    /\ owed' = owed \cup {db + 1}
    /\ UNCHANGED <<snap, age, call, pc, load, res, seen, newest, dropped, asked>>

\* The admin MCP process commits one: no Invalidate follows in this process.
ExternalWrite ==
    /\ db < MaxVersion
    /\ db' = db + 1
    /\ UNCHANGED <<owed, snap, age, call, pc, load, res, seen, newest, dropped, asked>>

Later(v, w) == IF v < w THEN w ELSE v

\* Mutant: the snapshot is only marked expired, not dropped.
ExpireOnly(v) ==
    /\ v \in owed
    /\ owed' = owed \ {v}
    /\ age' = TTL
    /\ dropped' = [any |-> Later(dropped.any, v),
                   quiet |-> IF InFlight THEN dropped.quiet ELSE Later(dropped.quiet, v)]
    /\ UNCHANGED <<db, snap, call, pc, load, res, seen, newest, asked>>

\* The handler of write v calls Invalidate after its commit.
Invalidate(v) ==
    /\ v \in owed
    /\ owed' = owed \ {v}
    /\ snap' = NoSnap
    /\ age' = TTL
    /\ dropped' = [any |-> Later(dropped.any, v),
                   quiet |-> IF InFlight THEN dropped.quiet ELSE Later(dropped.quiet, v)]
    /\ UNCHANGED <<db, call, pc, load, res, seen, newest, asked>>

Tick ==
    /\ age < TTL
    /\ age' = age + 1
    /\ UNCHANGED <<db, owed, snap, call, pc, load, res, seen, newest, dropped, asked>>

\* The process restarts: the cache is empty and every request is gone.
Restart ==
    /\ snap' = NoSnap
    /\ age' = TTL
    /\ call' = NoCaller
    /\ owed' = {}
    /\ pc' = [p \in Callers |-> "idle"]
    /\ load' = [p \in Callers |-> Unread]
    /\ res' = [p \in Callers |-> NoSnap]
    /\ UNCHANGED <<db, seen, newest, dropped, asked>>

\* A step of p's Get once it has begun.
Step(p) ==
    \/ Hit(p) \/ Miss(p) \/ Lead(p) \/ Join(p)
    \/ Read(p) \/ LoadFails(p) \/ Store(p) \/ Settle(p)
    \/ Return(p) \/ ReturnStale(p) \/ ReturnError(p)

Next ==
    \/ \E p \in Callers : Begin(p) \/ Step(p)
    \/ AdminWrite
    \/ ExternalWrite
    \/ \E v \in owed : Invalidate(v)
    \/ Tick
    \/ Restart

Spec == Init /\ [][Next]_vars

\* The scheduler runs a request that can run, a statement returns or fails,
\* and the clock moves.  Nobody is obliged to ask, to write or to restart.
FairSpec == Spec /\ (\A p \in Callers : WF_vars(Step(p))) /\ WF_vars(Tick)

-----------------------------------------------------------------------------
(***************************************************************************)
(* Properties.                                                             *)
(***************************************************************************)

\* Every variable keeps its shape, and a loader call reads three tables.
TypeOK ==
    /\ db \in Nat
    /\ owed \subseteq 1..db
    /\ snap \in Snapshots \cup {NoSnap}
    /\ age \in 0..TTL
    /\ call \in Callers \cup {NoCaller}
    /\ pc \in [Callers -> {"idle", "get", "reload", "load", "wait", "settle", "woken"}]
    /\ load \in [Callers -> Loads]
    /\ res \in [Callers -> Snapshots \cup {NoSnap}]
    /\ seen \in [Callers -> Snapshots]
    /\ newest \in Snapshots
    /\ dropped \in [any : 0..db, quiet : 0..db]
    /\ asked \in [Callers -> [any : 0..db, quiet : 0..db]]

\* The cache implements CatalogReads: whatever the interleaving of loads,
\* writes, invalidations, failures and restarts, no reader is ever shown an
\* older catalogue than the one it was shown before.  This is what collapsing
\* the reloads in group.Do buys besides one database assembly per expiry: two
\* loads in parallel could store their results in the wrong order.
Reads == INSTANCE CatalogReads WITH Callers <- Callers, Tables <- Tables, db <- db, seen <- seen

ReadsNeverGoBack == Reads!Spec

\* p's Get returns a snapshot in this step.
Answers(p) == Hit(p) \/ Return(p) \/ ReturnStale(p)

\* A Get that begins after an admin write was invalidated, at a moment when no
\* load was running, is never answered with a catalogue from before that write:
\* not by the cache, not by a load it joins, not by the snapshot kept for a
\* failing loader (Invalidate drops that one too, cache.go's comment on reload).
InvalidatedIsGone ==
    [][\A p \in Callers : Answers(p) => \A t \in Tables : seen'[p][t] >= asked[p].quiet]_vars

\* The same, whether a load was running or not: what the comments of Invalidate
\* ("the next Get reloads") and reload ("we must not serve data a write has
\* superseded") say.  A load that read the tables before the write stores its
\* snapshot after the Invalidate, so this one does not hold.
NeverSuperseded ==
    [][\A p \in Callers : Answers(p) => \A t \in Tables : seen'[p][t] >= asked[p].any]_vars

\* Every Get returns: whoever joined a load is woken by its leader.
GetReturns == \A p \in Callers : (pc[p] = "get") ~> (pc[p] = "idle")

\* Once the writes stop, the cache stops calling an old snapshot fresh: the
\* write of another process, and the one an overlapping load hid, show up after
\* at most one TTL.
ConvergesToDatabase == <>[](Fresh => \A t \in Tables : snap[t] = db)

-----------------------------------------------------------------------------
(***************************************************************************)
(* The inductive invariant.                                                *)
(***************************************************************************)

AtMost(s, u) == \A t \in Tables : s[t] <= u[t]

NotBefore(v, s) == \A t \in Tables : v <= s[t]

\* The registered call is being run by its leader, and by nobody else; only
\* those it has been settled for hold an outcome.
OneLoad ==
    \A p \in Callers :
        /\ pc[p] \in {"load", "settle"} <=> call = p
        /\ pc[p] # "load" => load[p].n = 0
        /\ pc[p] = "wait" => InFlight
        /\ pc[p] \notin {"settle", "woken"} => res[p] = NoSnap

\* What a running load has read is no older than anything stored before it.
LoadAhead ==
    \A p \in Callers : pc[p] = "load" =>
        \A t \in ReadSoFar(p) :
            newest[t] <= load[p].read[t] /\ load[p].read[t] <= db /\ dropped.quiet <= load[p].read[t]

\* The cache holds the last snapshot stored, which no quiet Invalidate follows.
CacheIsNewest ==
    /\ \A t \in Tables : newest[t] <= db
    /\ snap # NoSnap => snap = newest /\ NotBefore(dropped.quiet, snap)

\* Nobody has been shown, or is about to be shown, anything newer than that.
ReadersBehind ==
    \A p \in Callers :
        /\ AtMost(seen[p], newest)
        /\ asked[p].quiet <= dropped.quiet
        /\ pc[p] = "settle" /\ res[p] # NoSnap =>
               res[p] = newest /\ NotBefore(dropped.quiet, res[p])
        /\ pc[p] = "woken" /\ res[p] # NoSnap =>
               /\ AtMost(seen[p], res[p])
               /\ AtMost(res[p], newest)
               /\ NotBefore(asked[p].quiet, res[p])

\* Loads run one after the other and reach the cache in that order, so what a
\* reader is given is bounded below by what it saw and above by the database.
\* TypeOK alone says nothing of the order; the parts need each other.
IInv == TypeOK /\ OneLoad /\ LoadAhead /\ CacheIsNewest /\ ReadersBehind
=============================================================================
