----------------------------- MODULE MCSessions -----------------------------
(* Sessions for TLC: one user whose IdP sessions, logins and handlers are
   interchangeable. *)
EXTENDS Sessions, TLC

CONSTANT OneUser
MCUsers == {OneUser}
MCSidOwner == [s \in SIDs |-> OneUser]

Symmetry == Permutations(SIDs) \cup Permutations(Logins) \cup Permutations(Handlers)
=============================================================================
