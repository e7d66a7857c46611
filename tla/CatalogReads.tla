---------------------------- MODULE CatalogReads ----------------------------
(***************************************************************************)
(* What the catalogue cache promises its readers, and nothing about how:   *)
(* the catalogue is a sequence of committed versions, a reader is shown,   *)
(* table by table, some version that was committed, and no table a reader  *)
(* has been shown ever goes back to an older version.  How far behind the  *)
(* database a reader may be is not part of this promise.                   *)
(***************************************************************************)
EXTENDS Naturals

CONSTANTS
    Callers,     \* the request goroutines that ask for the catalogue
    Tables       \* the tables a snapshot is assembled from

VARIABLES
    db,          \* the newest committed catalogue version
    seen         \* seen[p]: the version of each table last shown to p

vars == <<db, seen>>

Init ==
    /\ db = 0
    /\ seen = [p \in Callers |-> [t \in Tables |-> 0]]

\* A catalogue write commits.
Commit ==
    /\ db' = db + 1
    /\ UNCHANGED seen

\* p is shown a snapshot no table of which is older than the one it last saw.
Serve(p) ==
    \E s \in [Tables -> 0..db] :
        /\ \A t \in Tables : seen[p][t] <= s[t]
        /\ seen' = [seen EXCEPT ![p] = s]
        /\ UNCHANGED db

Next == Commit \/ \E p \in Callers : Serve(p)

Spec == Init /\ [][Next]_vars
=============================================================================
