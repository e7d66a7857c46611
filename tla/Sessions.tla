------------------------------ MODULE Sessions ------------------------------
(***************************************************************************)
(* Signing in and being signed out (internal/auth).  A login is one run of *)
(* Callback: exchange the code at the identity provider, write the user's  *)
(* row, insert a session row, each a call of its own.  The provider ends   *)
(* IdP sessions and posts logout tokens, which may arrive late, several    *)
(* times, or at the same time as a login; the handlers of two copies run   *)
(* side by side, the database may fail, the server may restart and forget  *)
(* the tokens it served.  A handler compares the token with the time at    *)
(* which it began; the check of the signature in between may wait, for the *)
(* mutex of the key set or for a fetch of the keys, as long as it takes.   *)
(*                                                                         *)
(* The fields of a token are drawn when it is issued; its signature, issuer*)
(* and audience are right.  A session row is its login in stage "signedin" *)
(* (one row per login); expiry of a row is left out.                       *)
(***************************************************************************)
EXTENDS Integers, FiniteSets

CONSTANTS
    Users, Groups,          \* OIDC subjects, and what claims may grant them
    SIDs, SidOwner,         \* IdP sessions, and whose they are
    NoSid, BadSid,          \* no sid claim; one that is not a non-empty string
    Logins,                 \* runs of Callback that reach the exchange
    Tokens,                 \* logout tokens, by their jti
    Handlers,               \* goroutines in BackchannelLogout
    NotSeen,                \* no entry in the replay cache
    MaxAge, Skew,           \* logoutTokenMaxAge, logoutClockSkew
    Drifts, Lifetimes,      \* iat minus our clock, exp minus iat
    MaxTime                 \* bound on the clock

\* Mutant: the time to live forgets that a token may be stamped ahead of us.
JtiTTLOneSkew == MaxAge + Skew
JtiTTL == MaxAge + 2 * Skew

ASSUME SessionsAssumption ==
    /\ SidOwner \in [SIDs -> Users]
    /\ NoSid \notin SIDs /\ BadSid \notin SIDs /\ NoSid # BadSid
    /\ NotSeen \notin Int
    /\ MaxAge \in Nat /\ Skew \in Nat /\ MaxTime \in Nat
    /\ Drifts \subseteq Int /\ Lifetimes \subseteq Int

VARIABLES
    now,            \* the clock
    idp,            \* the IdP's sessions: "new", "open" or "ended"
    grants,         \* what the IdP's claims grant each user
    login,          \* the logins, and the rows of the table sessions
    claims,         \* users.visibility_claims (and is_admin, primary_role)
    token,          \* the logout tokens
    handler,        \* what each BackchannelLogout is doing
    seen,           \* Service.seenJTIs: jti -> when the entry expires
    (* history *)
    served,         \* tokens some copy of which ended its sessions
    answered,       \* tokens this process answered 200
    raced           \* tokens that ended sessions while a login of theirs ran

authVars == <<login, claims>>
logoutVars == <<token, handler, seen, served, answered, raced>>
vars == <<now, idp, grants, login, claims, token, handler, seen, served, answered, raced>>

Stages == {"none", "exchanged", "persisted", "signedin", "out", "revoked"}
Unstarted == [stage |-> "none", user |-> NoSid, sid |-> NoSid, got |-> {}, by |-> NotSeen,
              newer |-> {}]
Unissued == [issued |-> FALSE, sid |-> NoSid, user |-> NoSid, iat |-> 0, exp |-> 0, ends |-> {}]
Idle == [stage |-> "idle", token |-> NotSeen, at |-> 0]

LoginRows == [stage : Stages, user : Users \cup {NoSid}, sid : SIDs \cup {NoSid},
              got : SUBSET Groups, by : Tokens \cup {NotSeen},
              newer : SUBSET Tokens]    \* history: the tokens issued before its exchange
TokenRows == [issued : BOOLEAN, sid : SIDs \cup {NoSid, BadSid}, user : Users \cup {NoSid},
              iat : Int, exp : Int, ends : SUBSET SIDs]
HandlerRows == [stage : {"idle", "verifying", "verified", "revoked"},
                token : Tokens \cup {NotSeen}, at : Nat]

InFlight == {l \in Logins : login[l].stage \in {"exchanged", "persisted"}}
SignedIn == {l \in Logins : login[l].stage = "signedin"}

Init ==
    /\ now = 0
    /\ idp = [s \in SIDs |-> "new"]
    /\ grants = [u \in Users |-> Groups]
    /\ login = [l \in Logins |-> Unstarted]
    /\ claims = [u \in Users |-> {}]
    /\ token = [t \in Tokens |-> Unissued]
    /\ handler = [h \in Handlers |-> Idle]
    /\ seen = [t \in Tokens |-> NotSeen]
    /\ served = {}
    /\ answered = {}
    /\ raced = {}

-----------------------------------------------------------------------------
(* The identity provider *)

\* A group membership ends.
RevokeGroup(u, g) ==
    /\ g \in grants[u]
    /\ grants' = [grants EXCEPT ![u] = @ \ {g}]
    /\ UNCHANGED <<now, idp, login, claims, token, handler, seen, served, answered, raced>>

\* IdP sessions of u end, and a logout token says so: one session by its sid,
\* or all of them by the subject alone.
Issue(t, u, sid, iat, exp) ==
    LET mine == {s \in SIDs : SidOwner[s] = u /\ idp[s] = "open"}
        ends == IF sid \in SIDs THEN {sid} ELSE mine
    IN  /\ ~token[t].issued
        /\ sid \in SIDs => sid \in mine
        /\ token' = [token EXCEPT ![t] = [issued |-> TRUE, sid |-> sid, user |-> u,
                                          iat |-> iat, exp |-> exp, ends |-> ends]]
        /\ idp' = [s \in SIDs |-> IF s \in ends THEN "ended" ELSE idp[s]]
        /\ UNCHANGED <<now, grants, authVars, handler, seen, served, answered, raced>>

-----------------------------------------------------------------------------
(* Callback *)

\* The exchange returns verified claims: the groups and the sid of that moment.
Exchange(l, u, sid) ==
    /\ login[l].stage = "none"
    /\ sid \in SIDs => SidOwner[sid] = u /\ idp[sid] # "ended"
    /\ idp' = [s \in SIDs |-> IF s = sid THEN "open" ELSE idp[s]]
    /\ login' = [login EXCEPT ![l] = [Unstarted EXCEPT !.stage = "exchanged", !.user = u,
                                                       !.sid = sid, !.got = grants[u],
                                                       !.newer = {t \in Tokens : token[t].issued}]]
    /\ UNCHANGED <<now, grants, claims, logoutVars>>

\* persist: UpsertUser overwrites what the last login derived.
Persist(l) ==
    /\ login[l].stage = "exchanged"
    /\ claims' = [claims EXCEPT ![login[l].user] = login[l].got]
    /\ login' = [login EXCEPT ![l].stage = "persisted"]
    /\ UNCHANGED <<now, idp, grants, logoutVars>>

\* SessionStore.New binds the session to the sid of the claims.
CreateSession(l) ==
    /\ login[l].stage = "persisted"
    /\ login' = [login EXCEPT ![l].stage = "signedin"]
    /\ UNCHANGED <<now, idp, grants, claims, logoutVars>>

\* One of the calls fails (Service.fail): no session, whatever was written stays.
FailLogin(l) ==
    /\ l \in InFlight
    /\ login' = [login EXCEPT ![l].stage = "out"]
    /\ UNCHANGED <<now, idp, grants, claims, logoutVars>>

\* Logout deletes the caller's own session row; a failure is only logged.
Logout(l) ==
    /\ l \in SignedIn
    /\ login' = [login EXCEPT ![l].stage = "out"]
    /\ UNCHANGED <<now, idp, grants, claims, logoutVars>>

-----------------------------------------------------------------------------
(* BackchannelLogout *)

\* The request is there; its time is taken before the token is verified.
Begin(h, t) ==
    /\ handler[h].stage = "idle"
    /\ token[t].issued
    /\ handler' = [handler EXCEPT ![h] = [stage |-> "verifying", token |-> t, at |-> now]]
    /\ UNCHANGED <<now, idp, grants, authVars, token, seen, served, answered, raced>>

\* verifyLogoutToken up to the replay check: at is the time the request began.
Acceptable(t, at) ==
    /\ at - token[t].iat <= MaxAge + Skew
    /\ token[t].iat <= at + Skew
    /\ at <= token[t].exp + Skew
    /\ token[t].sid # BadSid

\* jtiCache.contains prunes before it looks, both by the time the request began.
Pruned(at) == [t \in Tokens |-> IF seen[t] # NotSeen /\ at > seen[t] THEN NotSeen ELSE seen[t]]

\* Mutant: checking and remembering are one step, so a failed logout uses up its token.
AcceptAndRemember(h) ==
    LET t == handler[h].token  at == handler[h].at IN
    /\ handler[h].stage = "verifying"
    /\ Acceptable(t, at)
    /\ Pruned(at)[t] = NotSeen
    /\ seen' = [Pruned(at) EXCEPT ![t] = now + JtiTTL]
    /\ handler' = [handler EXCEPT ![h] = [stage |-> "verified", token |-> t, at |-> 0]]
    /\ UNCHANGED <<now, idp, grants, authVars, token, served, answered, raced>>

Accept(h) ==
    LET t == handler[h].token  at == handler[h].at IN
    /\ handler[h].stage = "verifying"
    /\ Acceptable(t, at)
    /\ seen' = Pruned(at)
    /\ seen'[t] = NotSeen
    /\ handler' = [handler EXCEPT ![h] = [stage |-> "verified", token |-> t, at |-> 0]]
    /\ UNCHANGED <<now, idp, grants, authVars, token, served, answered, raced>>

\* 400: the token was served already.
RefuseReplay(h) ==
    LET t == handler[h].token  at == handler[h].at IN
    /\ handler[h].stage = "verifying"
    /\ Acceptable(t, at)
    /\ seen' = Pruned(at)
    /\ seen'[t] # NotSeen
    /\ handler' = [handler EXCEPT ![h] = Idle]
    /\ UNCHANGED <<now, idp, grants, authVars, token, served, answered, raced>>

\* 400: the token is not acceptable, or there are no keys to verify it with.
Refuse(h) ==
    /\ handler[h].stage = "verifying"
    /\ handler' = [handler EXCEPT ![h] = Idle]
    /\ UNCHANGED <<now, idp, grants, authVars, token, seen, served, answered, raced>>

\* The token of a user outside Users is looked up: all that shows of it is the pruning.
LookupOther(at) ==
    /\ seen' = Pruned(at)
    /\ UNCHANGED <<now, idp, grants, authVars, token, handler, served, answered, raced>>

\* Mutant: a token with a sid ends every session of its user.
EndedByUser(t) == {l \in SignedIn : login[l].user = token[t].user}

\* DeleteBySID, or without a sid DeleteByOIDCSub.
Ended(t) ==
    IF token[t].sid # NoSid THEN {l \in SignedIn : login[l].sid = token[t].sid}
    ELSE {l \in SignedIn : login[l].user = token[t].user}

Revoke(h) ==
    LET t == handler[h].token IN
    /\ handler[h].stage = "verified"
    /\ login' = [l \in Logins |-> IF l \in Ended(t)
                                  THEN [login[l] EXCEPT !.stage = "revoked", !.by = t]
                                  ELSE login[l]]
    /\ handler' = [handler EXCEPT ![h].stage = "revoked"]
    /\ served' = served \cup {t}
    /\ raced' = IF \E l \in InFlight : login[l].sid \in token[t].ends
                THEN raced \cup {t} ELSE raced
    /\ UNCHANGED <<now, idp, grants, claims, token, seen, answered>>

\* Mutant: the error of the delete is dropped and the logout answered.
IgnoreFailure(h) ==
    /\ handler[h].stage = "verified"
    /\ handler' = [handler EXCEPT ![h].stage = "revoked"]
    /\ served' = served \cup {handler[h].token}
    /\ UNCHANGED <<now, idp, grants, authVars, token, seen, answered, raced>>

\* 504: the jti is not remembered, a retry passes again.
FailRevoke(h) ==
    /\ handler[h].stage = "verified"
    /\ handler' = [handler EXCEPT ![h] = Idle]
    /\ UNCHANGED <<now, idp, grants, authVars, token, seen, served, answered, raced>>

\* 200, once the jti is remembered.
Remember(h) ==
    LET t == handler[h].token IN
    /\ handler[h].stage = "revoked"
    /\ seen' = [seen EXCEPT ![t] = now + JtiTTL]
    /\ answered' = answered \cup {t}
    /\ handler' = [handler EXCEPT ![h] = Idle]
    /\ UNCHANGED <<now, idp, grants, authVars, token, served, raced>>

-----------------------------------------------------------------------------
(* The process and the clock *)

\* The replay cache is in this process only; handlers and logins under way end.
Restart ==
    /\ seen' = [t \in Tokens |-> NotSeen]
    /\ handler' = [h \in Handlers |-> Idle]
    /\ login' = [l \in Logins |-> IF l \in InFlight THEN [login[l] EXCEPT !.stage = "out"]
                                  ELSE login[l]]
    /\ answered' = {}
    /\ UNCHANGED <<now, idp, grants, claims, token, served, raced>>

Tick ==
    /\ now < MaxTime
    /\ now' = now + 1
    /\ UNCHANGED <<idp, grants, authVars, logoutVars>>

Next ==
    \/ \E u \in Users, g \in Groups : RevokeGroup(u, g)
    \/ \E t \in Tokens, u \in Users, sid \in SIDs \cup {NoSid, BadSid}, d \in Drifts, e \in Lifetimes :
          Issue(t, u, sid, now + d, now + d + e)
    \/ \E l \in Logins, u \in Users, sid \in SIDs \cup {NoSid} : Exchange(l, u, sid)
    \/ \E l \in Logins : Persist(l) \/ CreateSession(l) \/ FailLogin(l) \/ Logout(l)
    \/ \E h \in Handlers, t \in Tokens : Begin(h, t)
    \/ \E h \in Handlers : Accept(h) \/ RefuseReplay(h) \/ Refuse(h)
    \/ \E at \in 0 .. now : LookupOther(at)
    \/ \E h \in Handlers : Revoke(h) \/ FailRevoke(h) \/ Remember(h)
    \/ Restart
    \/ Tick

Spec == Init /\ [][Next]_vars

-----------------------------------------------------------------------------
(* Properties *)

\* Every variable keeps its shape, and a handler at work holds a token
\* (the states of auth.Service and the tables users and sessions).
TypeOK ==
    /\ now \in Nat
    /\ idp \in [SIDs -> {"new", "open", "ended"}]
    /\ grants \in [Users -> SUBSET Groups]
    /\ login \in [Logins -> LoginRows]
    /\ \A l \in Logins : login[l].stage # "none" => login[l].user \in Users
    /\ claims \in [Users -> SUBSET Groups]
    /\ token \in [Tokens -> TokenRows]
    /\ handler \in [Handlers -> HandlerRows]
    /\ \A h \in Handlers : handler[h].stage # "idle" => handler[h].token \in Tokens
    /\ seen \in [Tokens -> Int \cup {NotSeen}]
    /\ served \subseteq Tokens /\ answered \subseteq Tokens /\ raced \subseteq Tokens

\* h lets t through to the delete.
Accepts(h, t) ==
    handler[h].stage = "verifying" /\ handler'[h].stage = "verified" /\ handler'[h].token = t

\* While a token is fresh by verifyLogoutToken's own measure, a copy of one this
\* process answered with 200 is not accepted, however the clocks differ: jtiCache
\* forgets it only once it is stale.  (A request that began while the token was
\* fresh and was kept waiting by the keys until it was stale is let through:
\* AnsweredNeverAccepted.)
ReplayRefused ==
    [][\A h \in Handlers, t \in Tokens :
          Accepts(h, t) /\ t \in answered => now > token[t].iat + MaxAge + Skew]_vars

\* What the comment on jtiCacheTTL has in mind, "after which a replayed token is
\* stale anyway": an answered token is never accepted again.  It does not hold, the
\* entry is compared with the time the request began.
AnsweredNeverAccepted ==
    [][\A h \in Handlers, t \in Tokens : Accepts(h, t) => t \notin answered]_vars

\* A logout that failed can be retried: only a token whose sessions were ended
\* is ever taken for a replay.
OnlyServedAreReplays == \A t \in Tokens : seen[t] # NotSeen => t \in served

\* A session ended by a token is its user's, the one the token names if it names
\* one, and belongs to an IdP session that really ended: unless the token names
\* only the user and the login is newer than the token.  A token with a malformed
\* sid ends nothing.
RevokedWereEnded ==
    \A l \in Logins : login[l].stage = "revoked" =>
        LET t == token[login[l].by] IN
        /\ t.user = login[l].user
        /\ t.sid # BadSid
        /\ t.sid \in SIDs => login[l].sid = t.sid
        /\ login[l].sid \in SIDs =>
              idp[login[l].sid] = "ended" \/ (t.sid = NoSid /\ login[l].by \in login[l].newer)

\* What the comment on jtiCache.remember says, "two concurrent copies of one token at
\* worst both delete the same rows": a second copy ends no login that is newer
\* than the token.  It does not hold for a token that names only the user.
CopiesAreIdempotent ==
    [][\A h \in Handlers, l \in Logins :
          (/\ handler[h].stage = "verified" /\ handler'[h].stage = "revoked"
           /\ handler[h].token \in served
           /\ login[l].stage # "revoked" /\ login'[l].stage = "revoked")
              => handler[h].token \notin login[l].newer]_vars

\* Once a logout token was served, nobody is signed in by an IdP session it
\* reported as ended, except by a login that was past its exchange and before
\* its session row when the rows were deleted.
LoggedOutIsOut ==
    \A t \in served \ raced, l \in SignedIn : login[l].sid \notin token[t].ends

\* A group the IdP took away is gone from the user's row once a login that saw
\* it gone has written the row.
RevokedAtNextLogin ==
    \A l \in Logins : login[l].stage \in {"persisted", "signedin"} =>
        \A g \in Groups \ grants[login[l].user] :
            g \notin login[l].got => g \notin claims[login[l].user]

-----------------------------------------------------------------------------
(* Why they hold: the inductive invariant *)

\* A token past its check, or served, is one verifyLogoutToken let through; it was
\* not from further in the future than the clocks may differ.
WorkIsVerified ==
    /\ \A h \in Handlers : handler[h].stage # "idle" =>
          LET t == token[handler[h].token] IN
          t.issued /\ handler[h].at <= now
    /\ \A h \in Handlers : handler[h].stage \in {"verified", "revoked"} =>
          LET t == token[handler[h].token] IN t.sid # BadSid /\ t.iat <= now + Skew
    /\ \A h \in Handlers : handler[h].stage = "revoked" => handler[h].token \in served
    /\ \A t \in served : token[t].issued /\ token[t].sid # BadSid
    /\ answered \subseteq served

\* An answered token is remembered until it is stale.
RememberedOrStale ==
    \A t \in answered :
        \/ seen[t] # NotSeen /\ seen[t] >= token[t].iat + MaxAge + Skew
        \/ now > token[t].iat + MaxAge + Skew

\* What a token reports ended is ended and its user's, and so is a login's sid its user's.
EndsAreTrue ==
    /\ \A t \in Tokens : \A s \in token[t].ends : idp[s] = "ended" /\ SidOwner[s] = token[t].user
    /\ \A t \in Tokens : token[t].sid \in SIDs =>
          token[t].ends = {token[t].sid} /\ SidOwner[token[t].sid] = token[t].user
    /\ \A l \in Logins : login[l].sid \in SIDs => SidOwner[login[l].sid] = login[l].user

\* LoggedOutIsOut, and no login that could still undo it.
NoneLeft ==
    \A t \in served \ raced, l \in SignedIn \cup InFlight : login[l].sid \notin token[t].ends

\* What a login was revoked by is a token that was issued.
RevokedByIssued ==
    \A l \in Logins : login[l].stage = "revoked" =>
        login[l].by \in Tokens /\ token[login[l].by].issued

\* A token that names only the user reports the end of every IdP session its logins
\* had, but for the logins that are newer; a login's IdP session was begun.
OlderHadEnded ==
    /\ \A l \in Logins : login[l].sid \in SIDs => idp[login[l].sid] # "new"
    /\ \A l \in Logins : \A t \in Tokens \ login[l].newer :
          token[t].issued /\ token[t].sid = NoSid /\ token[t].user = login[l].user
              /\ login[l].sid \in SIDs => idp[login[l].sid] = "ended"

IInv ==
    /\ TypeOK /\ WorkIsVerified /\ RememberedOrStale /\ OnlyServedAreReplays
    /\ EndsAreTrue /\ NoneLeft /\ RevokedByIssued /\ OlderHadEnded /\ RevokedWereEnded
=============================================================================
