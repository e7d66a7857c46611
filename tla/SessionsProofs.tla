--------------------------- MODULE SessionsProofs ---------------------------
(***************************************************************************)
(* IInv is an invariant of Sessions, for any number of users, IdP sessions,*)
(* logins, tokens and handlers and any MaxAge and Skew; and what follows   *)
(* from it about logout tokens.                                            *)
(***************************************************************************)
EXTENDS Sessions, TLAPS

\* The actions by the variables they can change.
CallbackStep ==
    \E l \in Logins :
        \/ \E u \in Users, sid \in SIDs \cup {NoSid} : Exchange(l, u, sid)
        \/ Persist(l) \/ CreateSession(l) \/ FailLogin(l) \/ Logout(l)
IssueStep ==
    \E t \in Tokens, u \in Users, sid \in SIDs \cup {NoSid, BadSid}, d \in Drifts, e \in Lifetimes :
        Issue(t, u, sid, now + d, now + d + e)
LookupStep ==
    \/ \E h \in Handlers, t \in Tokens : Begin(h, t)
    \/ \E h \in Handlers : Accept(h) \/ RefuseReplay(h) \/ Refuse(h) \/ FailRevoke(h)
    \/ \E at \in 0 .. now : LookupOther(at)

LEMMA NextIsOneOf ==
    ASSUME [Next]_vars
    PROVE  \/ \E u \in Users, g \in Groups : RevokeGroup(u, g)
           \/ IssueStep
           \/ CallbackStep
           \/ LookupStep
           \/ \E h \in Handlers : Revoke(h)
           \/ \E h \in Handlers : Remember(h)
           \/ Restart
           \/ Tick
           \/ UNCHANGED vars
BY DEF Next, CallbackStep, IssueStep, LookupStep

LEMMA InitInvariant ==
    ASSUME SessionsAssumption, Init
    PROVE  IInv
<1> USE SessionsAssumption DEF Init, SessionsAssumption
<1>1. /\ Unstarted \in LoginRows /\ Unstarted.stage = "none" /\ Unstarted.sid = NoSid
      /\ Unissued \in TokenRows /\ Unissued.ends = {} /\ Unissued.sid = NoSid
      /\ Idle \in HandlerRows /\ Idle.stage = "idle"
  BY DEF Unstarted, Unissued, Idle, LoginRows, TokenRows, HandlerRows, Stages
<1> HIDE DEF Unstarted, Unissued, Idle
<1>2. TypeOK
  BY <1>1 DEF TypeOK
<1>3. WorkIsVerified /\ RememberedOrStale /\ OnlyServedAreReplays
  BY <1>1 DEF WorkIsVerified, RememberedOrStale, OnlyServedAreReplays
<1>4. EndsAreTrue /\ NoneLeft /\ RevokedByIssued /\ RevokedWereEnded
  BY <1>1 DEF EndsAreTrue, NoneLeft, RevokedByIssued, RevokedWereEnded, SignedIn, InFlight
<1>5. OlderHadEnded
  BY <1>1 DEF OlderHadEnded
<1> QED
  BY <1>2, <1>3, <1>4, <1>5 DEF IInv

-----------------------------------------------------------------------------
(* What an action does to the records it updates *)

\* l is the one login that changes: it moves on, or it is the exchange, which the
\* IdP lets happen only for a session that has not ended.
OneLoginMoves(l) ==
    /\ login' \in [Logins -> LoginRows]
    /\ \A k \in Logins \ {l} : login'[k] = login[k]
    /\ login'[l].stage \in Stages \ {"none", "revoked"}
    /\ login'[l].user \in Users
    /\ \/ /\ login[l].stage \in {"exchanged", "persisted", "signedin"}
          /\ login'[l].user = login[l].user /\ login'[l].sid = login[l].sid
          /\ login'[l].newer = login[l].newer
          /\ login'[l].stage \in {"exchanged", "persisted", "signedin", "out"}
          /\ idp' = idp
       \/ /\ login[l].stage = "none" /\ login'[l].stage = "exchanged"
          /\ login'[l].newer = {t \in Tokens : token[t].issued}
          /\ login'[l].sid \in SIDs =>
                SidOwner[login'[l].sid] = login'[l].user /\ idp[login'[l].sid] # "ended"
          /\ idp' = [s \in SIDs |-> IF s = login'[l].sid THEN "open" ELSE idp[s]]
    /\ claims' \in [Users -> SUBSET Groups]
    /\ UNCHANGED <<now, grants, token, handler, seen, served, answered, raced>>

LEMMA StageEffect ==
    ASSUME TypeOK, NEW l \in Logins, NEW stage \in {"persisted", "signedin", "out"},
           login[l].stage \in {"exchanged", "persisted", "signedin"},
           login' = [login EXCEPT ![l].stage = stage],
           claims' \in [Users -> SUBSET Groups],
           UNCHANGED <<now, idp, grants, token, handler, seen, served, answered, raced>>
    PROVE  OneLoginMoves(l)
<1> DEFINE row == [login[l] EXCEPT !.stage = stage]
<1>1. login[l] \in LoginRows /\ login[l].user \in Users /\ login \in [Logins -> LoginRows]
  BY DEF TypeOK
<1>2. /\ row \in LoginRows /\ row.stage = stage
      /\ row.user = login[l].user /\ row.sid = login[l].sid /\ row.newer = login[l].newer
  BY <1>1 DEF LoginRows, Stages
<1>3. login' = [login EXCEPT ![l] = row]
  OBVIOUS
<1> HIDE DEF row
<1>4. login'[l] = row /\ login' \in [Logins -> LoginRows] /\ \A k \in Logins \ {l} : login'[k] = login[k]
  BY <1>1, <1>2, <1>3
<1> QED
  BY <1>1, <1>2, <1>4 DEF OneLoginMoves, Stages

LEMMA CallbackEffect ==
    ASSUME SessionsAssumption, TypeOK, CallbackStep
    PROVE  \E l \in Logins : OneLoginMoves(l)
<1>1. PICK l \in Logins :
        \/ \E u \in Users, sid \in SIDs \cup {NoSid} : Exchange(l, u, sid)
        \/ Persist(l) \/ CreateSession(l) \/ FailLogin(l) \/ Logout(l)
  BY DEF CallbackStep
<1>2. login[l] \in LoginRows /\ (login[l].stage # "none" => login[l].user \in Users)
  BY DEF TypeOK
<1>3. CASE \E u \in Users, sid \in SIDs \cup {NoSid} : Exchange(l, u, sid)
  <2>1. PICK u \in Users, sid \in SIDs \cup {NoSid} : Exchange(l, u, sid)
    BY <1>3
  <2> DEFINE row == [Unstarted EXCEPT !.stage = "exchanged", !.user = u, !.sid = sid, !.got = grants[u],
                                     !.newer = {t \in Tokens : token[t].issued}]
  <2>2. /\ row \in LoginRows /\ row.stage = "exchanged" /\ row.user = u /\ row.sid = sid
        /\ row.newer = {t \in Tokens : token[t].issued}
    BY DEF TypeOK, Unstarted, LoginRows, Stages
  <2>3. /\ login[l].stage = "none" /\ login' = [login EXCEPT ![l] = row]
        /\ sid \in SIDs => SidOwner[sid] = u /\ idp[sid] # "ended"
        /\ idp' = [s \in SIDs |-> IF s = sid THEN "open" ELSE idp[s]]
        /\ claims' = claims
        /\ UNCHANGED <<now, grants, token, handler, seen, served, answered, raced>>
    BY <2>1 DEF Exchange, logoutVars
  <2> HIDE DEF row
  <2>4. login'[l] = row /\ login' \in [Logins -> LoginRows] /\ \A k \in Logins \ {l} : login'[k] = login[k]
    BY <2>2, <2>3 DEF TypeOK
  <2> QED
    BY <2>2, <2>3, <2>4 DEF TypeOK, Stages, OneLoginMoves
<1>4. CASE Persist(l)
  <2>1. claims' = [claims EXCEPT ![login[l].user] = login[l].got]
    BY <1>4 DEF Persist
  <2>2. claims' \in [Users -> SUBSET Groups]
    BY <1>2, <2>1 DEF TypeOK, LoginRows
  <2> QED
    BY <1>4, <2>2, StageEffect DEF Persist, logoutVars
<1>5. CASE CreateSession(l)
  BY <1>5, StageEffect DEF CreateSession, logoutVars, TypeOK
<1>6. CASE FailLogin(l)
  BY <1>6, StageEffect DEF FailLogin, logoutVars, TypeOK, InFlight
<1>7. CASE Logout(l)
  BY <1>7, StageEffect DEF Logout, logoutVars, TypeOK, SignedIn
<1> QED
  BY <1>1, <1>3, <1>4, <1>5, <1>6, <1>7

\* A token is written once, with the IdP sessions it ends, all of them its user's.
Issues(t) ==
    /\ token[t].issued = FALSE
    /\ token' \in [Tokens -> TokenRows]
    /\ \A r \in Tokens \ {t} : token'[r] = token[r]
    /\ token'[t].issued = TRUE
    /\ \A s \in token'[t].ends : SidOwner[s] = token'[t].user
    /\ token'[t].sid \in SIDs =>
          token'[t].ends = {token'[t].sid} /\ SidOwner[token'[t].sid] = token'[t].user
    /\ token'[t].sid \notin SIDs =>
          \A s \in SIDs : SidOwner[s] = token'[t].user /\ idp[s] = "open" => s \in token'[t].ends
    /\ idp' = [s \in SIDs |-> IF s \in token'[t].ends THEN "ended" ELSE idp[s]]
    /\ UNCHANGED <<now, grants, login, claims, handler, seen, served, answered, raced>>

LEMMA IssueEffect ==
    ASSUME SessionsAssumption, TypeOK, IssueStep
    PROVE  \E t \in Tokens : Issues(t)
<1>1. PICK t \in Tokens, u \in Users, sid \in SIDs \cup {NoSid, BadSid}, d \in Drifts, e \in Lifetimes :
        Issue(t, u, sid, now + d, now + d + e)
  BY DEF IssueStep
<1> DEFINE mine == {s \in SIDs : SidOwner[s] = u /\ idp[s] = "open"}
           ends == IF sid \in SIDs THEN {sid} ELSE mine
           row == [issued |-> TRUE, sid |-> sid, user |-> u,
                   iat |-> now + d, exp |-> now + d + e, ends |-> ends]
<1>2. /\ token[t].issued = FALSE /\ token' = [token EXCEPT ![t] = row]
      /\ sid \in SIDs => sid \in mine
      /\ idp' = [s \in SIDs |-> IF s \in ends THEN "ended" ELSE idp[s]]
      /\ UNCHANGED <<now, grants, login, claims, handler, seen, served, answered, raced>>
  BY <1>1 DEF Issue, authVars, TypeOK, TokenRows
<1>3. now + d \in Int /\ now + d + e \in Int /\ ends \subseteq SIDs
  BY DEF TypeOK, SessionsAssumption
<1>4. \A s \in ends : SidOwner[s] = u
  BY <1>2
<1>5. sid \in SIDs => ends = {sid} /\ SidOwner[sid] = u
  BY <1>2
<1>8. sid \notin SIDs => \A s \in SIDs : SidOwner[s] = u /\ idp[s] = "open" => s \in ends
  BY <1>2
<1> HIDE DEF ends, mine
<1>6. row \in TokenRows /\ row.issued = TRUE /\ row.sid = sid /\ row.user = u /\ row.ends = ends
  BY <1>3 DEF TokenRows
<1> HIDE DEF row
<1>7. token'[t] = row /\ token' \in [Tokens -> TokenRows] /\ \A r \in Tokens \ {t} : token'[r] = token[r]
  BY <1>2, <1>6 DEF TypeOK
<1> QED
  BY <1>2, <1>4, <1>5, <1>6, <1>7, <1>8 DEF Issues

\* Only the sessions the token is for end, and only they change.
Revokes(h, t) ==
    /\ t \in Tokens /\ handler[h].stage = "verified" /\ handler[h].token = t
    /\ login' \in [Logins -> LoginRows]
    /\ \A l \in Logins \ Ended(t) : login'[l] = login[l]
    /\ \A l \in Ended(t) : /\ login'[l].stage = "revoked" /\ login'[l].by = t
                           /\ login'[l].user = login[l].user /\ login'[l].sid = login[l].sid
                           /\ login'[l].newer = login[l].newer
    /\ handler' \in [Handlers -> HandlerRows]
    /\ \A i \in Handlers \ {h} : handler'[i] = handler[i]
    /\ handler'[h].stage = "revoked" /\ handler'[h].token = t /\ handler'[h].at = handler[h].at
    /\ served' = served \cup {t}
    /\ raced' = IF \E l \in InFlight : login[l].sid \in token[t].ends
                THEN raced \cup {t} ELSE raced
    /\ UNCHANGED <<now, idp, grants, claims, token, seen, answered>>

LEMMA RevokeEffect ==
    ASSUME SessionsAssumption, TypeOK, NEW h \in Handlers, Revoke(h)
    PROVE  \E t \in Tokens : Revokes(h, t)
<1> DEFINE t == handler[h].token
<1>1. /\ handler[h].stage = "verified" /\ t \in Tokens /\ handler[h] \in HandlerRows
  BY DEF Revoke, TypeOK
<1>2. /\ login' = [l \in Logins |-> IF l \in Ended(t)
                                    THEN [login[l] EXCEPT !.stage = "revoked", !.by = t]
                                    ELSE login[l]]
      /\ handler' = [handler EXCEPT ![h].stage = "revoked"]
      /\ served' = served \cup {t}
      /\ raced' = IF \E l \in InFlight : login[l].sid \in token[t].ends
                  THEN raced \cup {t} ELSE raced
      /\ UNCHANGED <<now, idp, grants, claims, token, seen, answered>>
  BY DEF Revoke
<1> HIDE DEF t
<1>3. ASSUME NEW l \in Logins
      PROVE  LET row == [login[l] EXCEPT !.stage = "revoked", !.by = t]
             IN  row \in LoginRows /\ row.stage = "revoked" /\ row.by = t
                 /\ row.user = login[l].user /\ row.sid = login[l].sid
                 /\ row.newer = login[l].newer
  <2>1. login[l] \in LoginRows
    BY DEF TypeOK
  <2> QED
    BY <1>1, <2>1 DEF LoginRows, Stages
<1>4. Ended(t) \subseteq Logins
  BY DEF Ended, SignedIn
<1>5. /\ login' \in [Logins -> LoginRows]
      /\ \A l \in Logins \ Ended(t) : login'[l] = login[l]
      /\ \A l \in Ended(t) : /\ login'[l].stage = "revoked" /\ login'[l].by = t
                             /\ login'[l].user = login[l].user /\ login'[l].sid = login[l].sid
                             /\ login'[l].newer = login[l].newer
  BY <1>2, <1>3, <1>4 DEF TypeOK
<1>6. /\ handler' \in [Handlers -> HandlerRows]
      /\ \A i \in Handlers \ {h} : handler'[i] = handler[i]
      /\ handler'[h].stage = "revoked" /\ handler'[h].token = t /\ handler'[h].at = handler[h].at
  BY <1>1, <1>2 DEF TypeOK, HandlerRows, t
<1> QED
  BY <1>1, <1>2, <1>5, <1>6 DEF Revokes, t

\* Handlers begin, look their tokens up and are refused; what is pruned from the
\* replay cache is what was stale at some time up to now.
LooksUp ==
    /\ handler' \in [Handlers -> HandlerRows]
    /\ \A h \in Handlers :
          \/ handler'[h] = handler[h]
          \/ handler'[h].stage = "idle"
          \/ /\ handler'[h].stage = "verifying" /\ handler'[h].at = now
             /\ handler'[h].token \in Tokens /\ token[handler'[h].token].issued
          \/ /\ handler[h].stage = "verifying" /\ handler'[h].stage = "verified"
             /\ handler'[h].token = handler[h].token /\ handler'[h].at = 0
             /\ Acceptable(handler[h].token, handler[h].at)
             /\ seen' = Pruned(handler[h].at) /\ seen'[handler[h].token] = NotSeen
    /\ seen' = seen \/ \E at \in 0 .. now : seen' = Pruned(at)
    /\ UNCHANGED <<now, idp, grants, login, claims, token, served, answered, raced>>

LEMMA LookupEffect ==
    ASSUME SessionsAssumption, TypeOK, WorkIsVerified, LookupStep
    PROVE  LooksUp
<1>1. Idle \in HandlerRows /\ Idle.stage = "idle"
  BY DEF Idle, HandlerRows
<1>2. ASSUME NEW h \in Handlers, handler' = [handler EXCEPT ![h] = Idle],
             seen' = seen \/ \E at \in 0 .. now : seen' = Pruned(at),
             UNCHANGED <<now, idp, grants, login, claims, token, served, answered, raced>>
      PROVE  LooksUp
  BY <1>1, <1>2 DEF LooksUp, TypeOK
<1>3. ASSUME NEW h \in Handlers, handler[h].stage = "verifying"
      PROVE  handler[h].at \in 0 .. now /\ handler[h].token \in Tokens
  BY <1>3 DEF TypeOK, WorkIsVerified, HandlerRows
<1>4. ASSUME NEW h \in Handlers, NEW t \in Tokens, Begin(h, t) PROVE LooksUp
  <2> DEFINE row == [stage |-> "verifying", token |-> t, at |-> now]
  <2>1. row \in HandlerRows /\ row.stage = "verifying" /\ row.token = t /\ row.at = now
    BY DEF HandlerRows, TypeOK
  <2>2. handler' = [handler EXCEPT ![h] = row] /\ token[t].issued
    BY <1>4 DEF Begin
  <2> HIDE DEF row
  <2>3. handler'[h] = row /\ handler' \in [Handlers -> HandlerRows]
        /\ \A i \in Handlers \ {h} : handler'[i] = handler[i]
    BY <2>1, <2>2 DEF TypeOK
  <2> QED
    BY <1>4, <2>1, <2>2, <2>3 DEF Begin, LooksUp, authVars
<1>5. ASSUME NEW h \in Handlers, Accept(h) PROVE LooksUp
  <2> DEFINE t == handler[h].token  at == handler[h].at
             row == [stage |-> "verified", token |-> t, at |-> 0]
  <2>1. /\ handler[h].stage = "verifying" /\ Acceptable(t, at)
        /\ seen' = Pruned(at) /\ seen'[t] = NotSeen
        /\ handler' = [handler EXCEPT ![h] = row]
        /\ UNCHANGED <<now, idp, grants, login, claims, token, served, answered, raced>>
    BY <1>5 DEF Accept, authVars
  <2>2. at \in 0 .. now /\ t \in Tokens
    BY <1>3, <2>1
  <2>3. row \in HandlerRows /\ row.stage = "verified" /\ row.token = t /\ row.at = 0
    BY <2>2 DEF HandlerRows
  <2> HIDE DEF row
  <2>4. handler'[h] = row /\ handler' \in [Handlers -> HandlerRows]
        /\ \A i \in Handlers \ {h} : handler'[i] = handler[i]
    BY <2>1, <2>3 DEF TypeOK
  <2> QED
    BY <2>1, <2>2, <2>3, <2>4 DEF LooksUp
<1>6. ASSUME NEW h \in Handlers, RefuseReplay(h) PROVE LooksUp
  BY <1>2, <1>3, <1>6 DEF RefuseReplay, authVars
<1>7. ASSUME NEW h \in Handlers, Refuse(h) \/ FailRevoke(h) PROVE LooksUp
  BY <1>2, <1>7 DEF Refuse, FailRevoke, authVars
<1>8. ASSUME NEW at \in 0 .. now, LookupOther(at) PROVE LooksUp
  BY <1>8 DEF LookupOther, LooksUp, TypeOK, authVars
<1> QED
  BY <1>4, <1>5, <1>6, <1>7, <1>8 DEF LookupStep

LEMMA StepCases ==
    ASSUME SessionsAssumption, TypeOK, WorkIsVerified, [Next]_vars
    PROVE  \/ \E t \in Tokens : Issues(t)
           \/ \E l \in Logins : OneLoginMoves(l)
           \/ LooksUp
           \/ \E h \in Handlers, t \in Tokens : Revokes(h, t)
           \/ \E h \in Handlers : Remember(h)
           \/ Restart
           \/ /\ now' \in {now, now + 1} /\ grants' \in [Users -> SUBSET Groups]
              /\ UNCHANGED <<idp, login, claims, token, handler, seen, served, answered, raced>>
<1>1. ASSUME NEW u \in Users, NEW g \in Groups, RevokeGroup(u, g)
      PROVE  /\ now' = now /\ grants' \in [Users -> SUBSET Groups]
             /\ UNCHANGED <<idp, login, claims, token, handler, seen, served, answered, raced>>
  BY <1>1 DEF RevokeGroup, TypeOK
<1>2. ASSUME Tick
      PROVE  /\ now' = now + 1 /\ grants' \in [Users -> SUBSET Groups]
             /\ UNCHANGED <<idp, login, claims, token, handler, seen, served, answered, raced>>
  BY <1>2 DEF Tick, TypeOK, authVars, logoutVars
<1>3. ASSUME UNCHANGED vars
      PROVE  /\ now' = now /\ grants' \in [Users -> SUBSET Groups]
             /\ UNCHANGED <<idp, login, claims, token, handler, seen, served, answered, raced>>
  BY <1>3 DEF vars, TypeOK
<1> QED
  BY <1>1, <1>2, <1>3, NextIsOneOf, IssueEffect, CallbackEffect, RevokeEffect, LookupEffect

\* Restart makes one login at most leave its stage for "out".
LEMMA RestartEffect ==
    ASSUME TypeOK, Restart
    PROVE  /\ login' \in [Logins -> LoginRows]
           /\ \A l \in Logins :
                 /\ login'[l].user = login[l].user /\ login'[l].sid = login[l].sid
                 /\ login'[l].by = login[l].by /\ login'[l].newer = login[l].newer
                 /\ IF l \in InFlight THEN login'[l].stage = "out"
                    ELSE login'[l].stage = login[l].stage
           /\ handler' \in [Handlers -> HandlerRows]
           /\ \A h \in Handlers : handler'[h].stage = "idle"
           /\ seen' = [t \in Tokens |-> NotSeen] /\ answered' = {}
           /\ UNCHANGED <<now, idp, grants, claims, token, served, raced>>
<1>1. ASSUME NEW l \in Logins
      PROVE  LET row == [login[l] EXCEPT !.stage = "out"]
             IN  row \in LoginRows /\ row.stage = "out" /\ row.user = login[l].user
                 /\ row.sid = login[l].sid /\ row.by = login[l].by
                 /\ row.newer = login[l].newer
  BY DEF TypeOK, LoginRows, Stages
<1>2. login' = [l \in Logins |-> IF l \in InFlight THEN [login[l] EXCEPT !.stage = "out"] ELSE login[l]]
  BY DEF Restart
<1>3. Idle \in HandlerRows /\ Idle.stage = "idle"
  BY DEF Idle, HandlerRows
<1> QED
  BY <1>1, <1>2, <1>3 DEF Restart, TypeOK

LEMMA AnswerEffect ==
    ASSUME TypeOK, NEW h \in Handlers, Remember(h)
    PROVE  /\ handler' \in [Handlers -> HandlerRows]
           /\ handler'[h].stage = "idle"
           /\ \A i \in Handlers \ {h} : handler'[i] = handler[i]
BY DEF Remember, TypeOK, HandlerRows, Idle

LEMMA TypeStep ==
    ASSUME SessionsAssumption, TypeOK, WorkIsVerified, [Next]_vars
    PROVE  TypeOK'
<1> USE SessionsAssumption DEF TypeOK, SessionsAssumption
<1>1. CASE \E t \in Tokens : Issues(t)
  <2>1. idp' \in [SIDs -> {"new", "open", "ended"}]
    BY <1>1 DEF Issues
  <2> QED
    BY <1>1, <2>1 DEF Issues
<1>2. CASE \E l \in Logins : OneLoginMoves(l)
  BY <1>2 DEF OneLoginMoves
<1>3. CASE LooksUp
  <2>1. seen' \in [Tokens -> Int \cup {NotSeen}]
    BY <1>3 DEF LooksUp, Pruned
  <2>2. \A h \in Handlers : handler'[h].stage # "idle" => handler'[h].token \in Tokens
    BY <1>3 DEF LooksUp
  <2> QED
    BY <1>3, <2>1, <2>2 DEF LooksUp
<1>5. CASE \E h \in Handlers, t \in Tokens : Revokes(h, t)
  BY <1>5 DEF Revokes, Ended, SignedIn
<1>7. ASSUME NEW h \in Handlers, Remember(h) PROVE TypeOK'
  <2>1. handler[h].token \in Tokens /\ now + JtiTTL \in Int
    BY <1>7 DEF Remember, JtiTTL
  <2>2. seen' \in [Tokens -> Int \cup {NotSeen}] /\ answered' \subseteq Tokens
    BY <1>7, <2>1 DEF Remember
  <2> QED
    BY <1>7, <2>2, AnswerEffect DEF Remember, authVars
<1>8. CASE Restart
  BY <1>8, RestartEffect DEF InFlight
<1>9. CASE /\ now' \in {now, now + 1} /\ grants' \in [Users -> SUBSET Groups]
           /\ UNCHANGED <<idp, login, claims, token, handler, seen, served, answered, raced>>
  BY <1>9
<1> QED
  BY <1>1, <1>2, <1>3, <1>5, <1>7, <1>8, <1>9, StepCases

-----------------------------------------------------------------------------
(* Each part of IInv is kept *)

LEMMA WorkStep ==
    ASSUME SessionsAssumption, TypeOK, TypeOK', WorkIsVerified, [Next]_vars
    PROVE  WorkIsVerified'
<1> USE DEF WorkIsVerified
<1>1. ASSUME NEW t \in Tokens, Issues(t) PROVE WorkIsVerified'
  <2>1. \A r \in Tokens : token[r].issued => token'[r] = token[r]
    BY <1>1 DEF Issues
  <2> QED
    BY <1>1, <2>1 DEF Issues, TypeOK
<1>2. CASE \E l \in Logins : OneLoginMoves(l)
  BY <1>2 DEF OneLoginMoves
<1>3. CASE LooksUp
  <2>1. ASSUME NEW h \in Handlers, handler'[h].stage # "idle"
        PROVE  /\ token[handler'[h].token].issued /\ handler'[h].at <= now
               /\ handler'[h].stage \in {"verified", "revoked"} =>
                     LET t == token[handler'[h].token] IN t.sid # BadSid /\ t.iat <= now + Skew
    <3>1. CASE handler'[h] = handler[h]
      BY <2>1, <3>1
    <3>2. CASE handler'[h].stage = "verifying" /\ handler'[h].at = now /\ token[handler'[h].token].issued
      BY <3>2 DEF TypeOK
    <3>3. CASE /\ handler[h].stage = "verifying" /\ handler'[h].token = handler[h].token
               /\ handler'[h].at = 0 /\ Acceptable(handler[h].token, handler[h].at)
      <4>1. handler[h].token \in Tokens /\ handler[h].at \in Int /\ handler[h].at <= now
        BY <3>3 DEF TypeOK, HandlerRows
      <4>2. token[handler[h].token].iat \in Int
        BY <4>1 DEF TypeOK, TokenRows
      <4> QED
        BY <3>3, <4>1, <4>2 DEF Acceptable, TypeOK, SessionsAssumption
    <3> QED
      BY <1>3, <2>1, <3>1, <3>2, <3>3 DEF LooksUp
  <2>2. \A h \in Handlers : handler'[h].stage = "revoked" => handler'[h].token \in served
    BY <1>3 DEF LooksUp
  <2> QED
    BY <1>3, <2>1, <2>2 DEF LooksUp
<1>5. ASSUME NEW h \in Handlers, NEW t \in Tokens, Revokes(h, t) PROVE WorkIsVerified'
  BY <1>5 DEF Revokes
<1>6. ASSUME NEW h \in Handlers, Remember(h) PROVE WorkIsVerified'
  BY <1>6, AnswerEffect DEF Remember
<1>7. CASE Restart
  BY <1>7, RestartEffect
<1>8. CASE /\ now' \in {now, now + 1} /\ grants' \in [Users -> SUBSET Groups]
           /\ UNCHANGED <<idp, login, claims, token, handler, seen, served, answered, raced>>
  <2>1. \A t \in Tokens : token[t].iat \in Int
    BY DEF TypeOK, TokenRows
  <2>2. \A h \in Handlers : handler[h].at \in Int
    BY DEF TypeOK, HandlerRows
  <2> QED
    BY <1>8, <2>1, <2>2 DEF TypeOK, SessionsAssumption
<1> QED
  BY <1>1, <1>2, <1>3, <1>5, <1>6, <1>7, <1>8, StepCases

LEMMA Stamps ==
    ASSUME SessionsAssumption, TypeOK
    PROVE  /\ \A t \in Tokens : token[t].iat \in Int /\ (seen[t] # NotSeen => seen[t] \in Int)
           /\ now \in Int /\ MaxAge \in Int /\ Skew \in Int
BY DEF TypeOK, TokenRows, SessionsAssumption

\* What contains prunes is stale already.
LEMMA PruneKeeps ==
    ASSUME SessionsAssumption, TypeOK, RememberedOrStale,
           NEW at \in 0 .. now, seen' = Pruned(at),
           UNCHANGED <<now, token, answered>>
    PROVE  RememberedOrStale'
<1>1. SUFFICES ASSUME NEW t \in answered
      PROVE  \/ seen'[t] # NotSeen /\ seen'[t] >= token[t].iat + MaxAge + Skew
             \/ now > token[t].iat + MaxAge + Skew
  BY DEF RememberedOrStale
<1>2. t \in Tokens
  BY DEF TypeOK
<1>3. CASE now > token[t].iat + MaxAge + Skew
  BY <1>3
<1>4. CASE seen[t] # NotSeen /\ seen[t] >= token[t].iat + MaxAge + Skew
  <2>1. CASE at > seen[t]
    BY <1>2, <1>4, <2>1, Stamps
  <2>2. CASE ~(at > seen[t])
    BY <1>2, <1>4, <2>2 DEF Pruned
  <2> QED
    BY <2>1, <2>2
<1> QED
  BY <1>3, <1>4 DEF RememberedOrStale

LEMMA RememberStep ==
    ASSUME SessionsAssumption, TypeOK, TypeOK', WorkIsVerified, RememberedOrStale,
           [Next]_vars
    PROVE  RememberedOrStale'
<1>1. ASSUME NEW t \in Tokens, Issues(t) PROVE RememberedOrStale'
  <2>1. \A r \in answered : token'[r] = token[r]
    BY <1>1 DEF Issues, WorkIsVerified, TypeOK
  <2> QED
    BY <1>1, <2>1 DEF Issues, RememberedOrStale
<1>2. CASE \E l \in Logins : OneLoginMoves(l)
  BY <1>2 DEF OneLoginMoves, RememberedOrStale
<1>3. CASE LooksUp
  <2>1. CASE seen' = seen
    BY <1>3, <2>1 DEF LooksUp, RememberedOrStale
  <2>2. CASE \E at \in 0 .. now : seen' = Pruned(at)
    BY <1>3, <2>2, PruneKeeps DEF LooksUp
  <2> QED
    BY <1>3, <2>1, <2>2 DEF LooksUp
<1>5. CASE \E h \in Handlers, t \in Tokens : Revokes(h, t)
  BY <1>5 DEF Revokes, RememberedOrStale
<1>7. ASSUME NEW h \in Handlers, Remember(h) PROVE RememberedOrStale'
  <2> DEFINE r == handler[h].token
  <2>1. r \in Tokens /\ token[r].iat <= now + Skew /\ handler[h].stage = "revoked"
    BY <1>7 DEF Remember, WorkIsVerified, TypeOK
  <2>2. /\ seen' = [seen EXCEPT ![r] = now + JtiTTL] /\ answered' = answered \cup {r}
        /\ now' = now /\ token' = token
    BY <1>7 DEF Remember
  <2> HIDE DEF r
  <2>3. now + JtiTTL >= token[r].iat + MaxAge + Skew /\ now + JtiTTL # NotSeen
    BY <2>1, Stamps DEF JtiTTL, SessionsAssumption
  <2>4. seen'[r] = now + JtiTTL /\ \A t \in Tokens \ {r} : seen'[t] = seen[t]
    BY <2>1, <2>2 DEF TypeOK
  <2> QED
    BY <2>2, <2>3, <2>4 DEF RememberedOrStale, TypeOK
<1>8. CASE Restart
  BY <1>8, RestartEffect DEF RememberedOrStale
<1>9. CASE /\ now' \in {now, now + 1} /\ grants' \in [Users -> SUBSET Groups]
           /\ UNCHANGED <<idp, login, claims, token, handler, seen, served, answered, raced>>
  <2>1. \A t \in answered : t \in Tokens
    BY DEF TypeOK
  <2> QED
    BY <1>9, <2>1, Stamps DEF RememberedOrStale
<1> QED
  BY <1>1, <1>2, <1>3, <1>5, <1>7, <1>8, <1>9, StepCases

LEMMA ReplaysStep ==
    ASSUME SessionsAssumption, TypeOK, WorkIsVerified, OnlyServedAreReplays,
           [Next]_vars
    PROVE  OnlyServedAreReplays'
<1> USE DEF OnlyServedAreReplays
<1>1. CASE \E t \in Tokens : Issues(t)
  BY <1>1 DEF Issues
<1>2. CASE \E l \in Logins : OneLoginMoves(l)
  BY <1>2 DEF OneLoginMoves
<1>3. CASE LooksUp
  BY <1>3 DEF LooksUp, Pruned
<1>5. CASE \E h \in Handlers, t \in Tokens : Revokes(h, t)
  BY <1>5 DEF Revokes
<1>7. ASSUME NEW h \in Handlers, Remember(h)
      PROVE  OnlyServedAreReplays'
  <2>1. handler[h].token \in served
    BY <1>7 DEF Remember, WorkIsVerified
  <2> QED
    BY <1>7, <2>1 DEF Remember, TypeOK
<1>8. CASE Restart
  BY <1>8, RestartEffect
<1>9. CASE /\ now' \in {now, now + 1} /\ grants' \in [Users -> SUBSET Groups]
           /\ UNCHANGED <<idp, login, claims, token, handler, seen, served, answered, raced>>
  BY <1>9
<1> QED
  BY <1>1, <1>2, <1>3, <1>5, <1>7, <1>8, <1>9, StepCases

\* No action but the exchange, the issue of a token, a revocation and a restart
\* touches the logins, the tokens, or who is served.
Elsewhere == UNCHANGED <<idp, login, token, served, raced>>

LEMMA ElsewhereCases ==
    ASSUME SessionsAssumption, TypeOK, WorkIsVerified, [Next]_vars
    PROVE  \/ \E t \in Tokens : Issues(t)
           \/ \E l \in Logins : OneLoginMoves(l)
           \/ \E h \in Handlers, t \in Tokens : Revokes(h, t)
           \/ Restart
           \/ Elsewhere
BY StepCases DEF Elsewhere, LooksUp, Remember, authVars

LEMMA EndsStep ==
    ASSUME SessionsAssumption, TypeOK, WorkIsVerified, EndsAreTrue, [Next]_vars
    PROVE  EndsAreTrue'
<1> USE DEF EndsAreTrue
<1>1. ASSUME NEW t \in Tokens, Issues(t) PROVE EndsAreTrue'
  <2>1. \A r \in Tokens \ {t} : token'[r] = token[r]
    BY <1>1 DEF Issues
  <2>2. \A s \in SIDs : s \in token'[t].ends \/ idp[s] = "ended" => idp'[s] = "ended"
    BY <1>1 DEF Issues
  <2>3. \A r \in Tokens : token'[r].ends \subseteq SIDs
    BY <1>1 DEF Issues, TokenRows
  <2> QED
    BY <1>1, <2>1, <2>2, <2>3 DEF Issues
<1>2. ASSUME NEW l \in Logins, OneLoginMoves(l) PROVE EndsAreTrue'
  <2>1. \A s \in SIDs : idp[s] = "ended" => idp'[s] = "ended"
    BY <1>2 DEF OneLoginMoves
  <2>2. \A r \in Tokens : token[r].ends \subseteq SIDs
    BY DEF TypeOK, TokenRows
  <2>3. \A k \in Logins : login'[k].sid \in SIDs => SidOwner[login'[k].sid] = login'[k].user
    BY <1>2 DEF OneLoginMoves
  <2> QED
    BY <1>2, <2>1, <2>2, <2>3 DEF OneLoginMoves
<1>3. ASSUME NEW h \in Handlers, NEW t \in Tokens, Revokes(h, t) PROVE EndsAreTrue'
  <2>1. \A l \in Logins : login'[l].sid = login[l].sid /\ login'[l].user = login[l].user
    BY <1>3 DEF Revokes
  <2> QED
    BY <1>3, <2>1 DEF Revokes
<1>4. CASE Restart
  BY <1>4, RestartEffect
<1>5. CASE Elsewhere
  BY <1>5 DEF Elsewhere
<1> QED
  BY <1>1, <1>2, <1>3, <1>4, <1>5, ElsewhereCases

LEMMA NoneLeftStep ==
    ASSUME SessionsAssumption, TypeOK, WorkIsVerified, EndsAreTrue, NoneLeft, [Next]_vars
    PROVE  NoneLeft'
<1> USE DEF NoneLeft, SignedIn, InFlight
<1>1. CASE \E t \in Tokens : Issues(t)
  <2>1. \A r \in served : token'[r] = token[r]
    BY <1>1 DEF Issues, WorkIsVerified, TypeOK
  <2> QED
    BY <1>1, <2>1 DEF Issues
<1>2. ASSUME NEW l \in Logins, OneLoginMoves(l) PROVE NoneLeft'
  <2>1. SUFFICES ASSUME NEW t \in served \ raced, NEW k \in SignedIn' \cup InFlight'
        PROVE  login'[k].sid \notin token[t].ends
    BY <1>2 DEF OneLoginMoves
  <2>2. t \in Tokens /\ token[t].ends \subseteq SIDs
    BY DEF TypeOK, TokenRows
  <2>3. CASE k # l
    BY <1>2, <2>1, <2>3 DEF OneLoginMoves
  <2>4. CASE k = l /\ login[l].stage \in {"exchanged", "persisted", "signedin"}
    BY <1>2, <2>1, <2>4 DEF OneLoginMoves
  <2>5. CASE k = l /\ login[l].stage = "none"
    <3>1. login'[l].sid \in SIDs => idp[login'[l].sid] # "ended"
      BY <1>2, <2>5 DEF OneLoginMoves
    <3> QED
      BY <2>2, <2>5, <3>1 DEF EndsAreTrue
  <2> QED
    BY <1>2, <2>3, <2>4, <2>5 DEF OneLoginMoves
<1>3. ASSUME NEW h \in Handlers, NEW t \in Tokens, Revokes(h, t) PROVE NoneLeft'
  <2>1. SUFFICES ASSUME NEW r \in served' \ raced', NEW k \in SignedIn' \cup InFlight'
        PROVE  login'[k].sid \notin token[r].ends
    BY <1>3 DEF Revokes
  <2>2. k \in Logins \ Ended(t) /\ login'[k] = login[k] /\ k \in SignedIn \cup InFlight
    BY <1>3 DEF Revokes
  <2>3. CASE r \in served
    BY <1>3, <2>1, <2>2, <2>3 DEF Revokes
  <2>4. CASE r = t
    <3>1. \A l \in InFlight : login[l].sid \notin token[t].ends
      BY <1>3, <2>1, <2>4 DEF Revokes
    <3>2. token[t] \in TokenRows /\ token[t].sid # BadSid
      BY <1>3 DEF Revokes, WorkIsVerified, TypeOK
    <3>3. ASSUME k \in SignedIn, login[k].sid \in token[t].ends PROVE FALSE
      <4>1. login[k].sid \in SIDs /\ SidOwner[login[k].sid] = token[t].user
            /\ login[k].user = token[t].user
        BY <2>2, <3>2, <3>3 DEF EndsAreTrue, TokenRows
      <4>2. CASE token[t].sid = NoSid
        BY <2>2, <3>3, <4>1, <4>2 DEF Ended
      <4>3. CASE token[t].sid \in SIDs
        <5>1. token[t].sid = login[k].sid /\ token[t].sid # NoSid
          BY <3>3, <4>3 DEF EndsAreTrue, SessionsAssumption
        <5> QED
          BY <2>2, <3>3, <5>1 DEF Ended
      <4> QED
        BY <3>2, <4>2, <4>3 DEF TokenRows
    <3> QED
      BY <2>2, <2>4, <3>1, <3>3
  <2> QED
    BY <1>3, <2>3, <2>4 DEF Revokes
<1>4. CASE Restart
  BY <1>4, RestartEffect
<1>5. CASE Elsewhere
  BY <1>5 DEF Elsewhere
<1> QED
  BY <1>1, <1>2, <1>3, <1>4, <1>5, ElsewhereCases

LEMMA OlderStep ==
    ASSUME SessionsAssumption, TypeOK, WorkIsVerified, EndsAreTrue, OlderHadEnded, [Next]_vars
    PROVE  OlderHadEnded'
<1> USE DEF OlderHadEnded
<1>1. ASSUME NEW t \in Tokens, Issues(t) PROVE OlderHadEnded'
  <2>1. \A s \in SIDs : \/ idp'[s] = idp[s] /\ s \notin token'[t].ends
                        \/ idp'[s] = "ended"
    BY <1>1 DEF Issues
  <2>2. ASSUME NEW l \in Logins, NEW r \in Tokens \ login[l].newer,
               token'[r].issued, token'[r].sid = NoSid, token'[r].user = login[l].user,
               login[l].sid \in SIDs
        PROVE  idp'[login[l].sid] = "ended"
    <3>1. CASE r # t
      BY <1>1, <2>1, <2>2, <3>1 DEF Issues
    <3>2. CASE r = t
      <4>1. SidOwner[login[l].sid] = token'[t].user /\ token'[t].sid \notin SIDs
        BY <2>2, <3>2 DEF EndsAreTrue, SessionsAssumption
      <4>2. idp[login[l].sid] \in {"open", "ended"}
        BY <2>2 DEF TypeOK
      <4>3. CASE idp[login[l].sid] = "open"
        BY <1>1, <2>1, <2>2, <4>1, <4>3 DEF Issues
      <4>4. CASE idp[login[l].sid] = "ended"
        BY <2>1, <2>2, <4>4
      <4> QED
        BY <4>2, <4>3, <4>4
    <3> QED
      BY <3>1, <3>2
  <2>3. \A l \in Logins : login[l].sid \in SIDs => idp'[login[l].sid] # "new"
    BY <2>1
  <2> QED
    BY <1>1, <2>2, <2>3 DEF Issues
<1>2. ASSUME NEW l \in Logins, OneLoginMoves(l) PROVE OlderHadEnded'
  <2>1. \A s \in SIDs : /\ idp[s] = "ended" => idp'[s] = "ended"
                        /\ idp[s] # "new" => idp'[s] # "new"
    BY <1>2 DEF OneLoginMoves
  <2>2. login'[l].sid \in SIDs => idp'[login'[l].sid] # "new"
    BY <1>2, <2>1 DEF OneLoginMoves
  <2>3. ASSUME NEW t \in Tokens \ login'[l].newer, token[t].issued, token[t].sid = NoSid,
               token[t].user = login'[l].user, login'[l].sid \in SIDs
        PROVE  idp'[login'[l].sid] = "ended"
    BY <1>2, <2>1, <2>3 DEF OneLoginMoves
  <2> QED
    BY <1>2, <2>1, <2>2, <2>3 DEF OneLoginMoves
<1>3. ASSUME NEW h \in Handlers, NEW t \in Tokens, Revokes(h, t) PROVE OlderHadEnded'
  <2>1. \A l \in Logins : /\ login'[l].sid = login[l].sid /\ login'[l].user = login[l].user
                          /\ login'[l].newer = login[l].newer
    BY <1>3 DEF Revokes
  <2> QED
    BY <1>3, <2>1 DEF Revokes
<1>4. CASE Restart
  BY <1>4, RestartEffect
<1>5. CASE Elsewhere
  BY <1>5 DEF Elsewhere
<1> QED
  BY <1>1, <1>2, <1>3, <1>4, <1>5, ElsewhereCases

LEMMA RevokedStep ==
    ASSUME SessionsAssumption, TypeOK, WorkIsVerified, EndsAreTrue,
           RevokedByIssued, OlderHadEnded, RevokedWereEnded, [Next]_vars
    PROVE  RevokedByIssued' /\ RevokedWereEnded'
<1> USE DEF RevokedByIssued, RevokedWereEnded
<1>1. CASE \E t \in Tokens : Issues(t)
  <2>1. \A r \in Tokens : token[r].issued => token'[r] = token[r]
    BY <1>1 DEF Issues
  <2>2. \A s \in SIDs : idp[s] = "ended" => idp'[s] = "ended"
    BY <1>1 DEF Issues
  <2>3. \A t \in Tokens : token[t].ends \subseteq SIDs
    BY DEF TypeOK, TokenRows
  <2> QED
    BY <1>1, <2>1, <2>2, <2>3 DEF Issues
<1>2. ASSUME NEW l \in Logins, OneLoginMoves(l) PROVE RevokedByIssued' /\ RevokedWereEnded'
  <2>1. \A k \in Logins : login'[k].stage = "revoked" => login'[k] = login[k]
    BY <1>2 DEF OneLoginMoves
  <2>2. \A s \in SIDs : idp[s] = "ended" => idp'[s] = "ended"
    BY <1>2 DEF OneLoginMoves
  <2>3. \A t \in Tokens : token[t].ends \subseteq SIDs
    BY DEF TypeOK, TokenRows
  <2> QED
    BY <1>2, <2>1, <2>2, <2>3 DEF OneLoginMoves
<1>3. ASSUME NEW h \in Handlers, NEW t \in Tokens, Revokes(h, t)
      PROVE  RevokedByIssued' /\ RevokedWereEnded'
  <2>1. token[t] \in TokenRows /\ token[t].issued /\ token[t].sid # BadSid
    BY <1>3 DEF Revokes, WorkIsVerified, TypeOK
  <2>2. ASSUME NEW l \in Ended(t)
        PROVE  /\ token[t].user = login[l].user
               /\ token[t].sid \in SIDs => login[l].sid = token[t].sid
               /\ login[l].sid \in SIDs =>
                     idp[login[l].sid] = "ended" \/ (token[t].sid = NoSid /\ t \in login[l].newer)
    <3>1. l \in Logins
      BY DEF Ended, SignedIn
    <3>2. CASE token[t].sid = NoSid
      <4>1. token[t].user = login[l].user /\ token[t].sid \notin SIDs
        BY <3>2 DEF Ended, SessionsAssumption
      <4> QED
        BY <1>3, <2>1, <3>1, <3>2, <4>1 DEF OlderHadEnded, Revokes
    <3>3. CASE token[t].sid \in SIDs
      <4>1. login[l].sid = token[t].sid
        BY <3>3 DEF Ended, SessionsAssumption
      <4> QED
        BY <3>1, <3>3, <4>1 DEF EndsAreTrue
    <3> QED
      BY <2>1, <3>2, <3>3 DEF TokenRows
  <2> QED
    BY <1>3, <2>1, <2>2 DEF Revokes
<1>4. CASE Restart
  BY <1>4, RestartEffect DEF InFlight
<1>5. CASE Elsewhere
  BY <1>5 DEF Elsewhere
<1> QED
  BY <1>1, <1>2, <1>3, <1>4, <1>5, ElsewhereCases

-----------------------------------------------------------------------------
(* Theorems *)

\* IInv holds in every reachable state.
THEOREM SessionsInvariant == SessionsAssumption => (Spec => []IInv)
<1> SUFFICES ASSUME SessionsAssumption PROVE Spec => []IInv
  OBVIOUS
<1>1. Init => IInv
  BY InitInvariant
<1>2. IInv /\ [Next]_vars => IInv'
  <2> SUFFICES ASSUME IInv, [Next]_vars PROVE IInv'
    OBVIOUS
  <2>1. TypeOK'
    BY TypeStep DEF IInv
  <2>2. WorkIsVerified' /\ RememberedOrStale' /\ OnlyServedAreReplays'
    BY <2>1, WorkStep, RememberStep, ReplaysStep DEF IInv
  <2>3. EndsAreTrue' /\ NoneLeft' /\ OlderHadEnded'
    BY EndsStep, NoneLeftStep, OlderStep DEF IInv
  <2>4. RevokedByIssued' /\ RevokedWereEnded'
    BY RevokedStep DEF IInv
  <2> QED
    BY <2>1, <2>2, <2>3, <2>4 DEF IInv
<1> QED
  BY <1>1, <1>2, PTL DEF Spec

\* A token whose logout failed is never taken for a replay; what a token revokes
\* belonged to an IdP session that ended, or to a login newer than a token that names
\* only the user; and after it is served nobody is signed in by an IdP session it
\* ended, but for a login that was under way.
THEOREM LogoutsAreRight ==
    SessionsAssumption => (Spec => [](OnlyServedAreReplays /\ RevokedWereEnded /\ LoggedOutIsOut))
<1> SUFFICES ASSUME SessionsAssumption
    PROVE  Spec => [](OnlyServedAreReplays /\ RevokedWereEnded /\ LoggedOutIsOut)
  OBVIOUS
<1>1. IInv => OnlyServedAreReplays /\ RevokedWereEnded /\ LoggedOutIsOut
  BY DEF IInv, NoneLeft, LoggedOutIsOut
<1> QED
  BY <1>1, SessionsInvariant, PTL

\* A token is in the replay cache only when some copy of it ended its sessions: a
\* retry after a 504 is not turned away.
THEOREM ReplaysWereServed == SessionsAssumption => (Spec => []OnlyServedAreReplays)
<1>1. IInv => OnlyServedAreReplays
  BY DEF IInv
<1> QED
  BY <1>1, SessionsInvariant, PTL

\* A session that a logout token ended is the one it names, and ended at the IdP; a
\* token that names only the user ended sessions that had ended at the IdP, and those
\* of logins newer than itself, and none other.
THEOREM RevocationsWereDue == SessionsAssumption => (Spec => []RevokedWereEnded)
<1>1. IInv => RevokedWereEnded
  BY DEF IInv
<1> QED
  BY <1>1, SessionsInvariant, PTL

\* A copy of a token this process answered with 200 is accepted only by a request
\* that waited until the token was stale, for every maximum age, skew and difference
\* between the clocks: the TTL of the replay cache, maximum age plus twice the skew,
\* covers all of the acceptance window, by whatever times the entries are pruned.
THEOREM AnsweredStaysRefused == SessionsAssumption => (Spec => ReplayRefused)
<1> SUFFICES ASSUME SessionsAssumption PROVE Spec => ReplayRefused
  OBVIOUS
<1> DEFINE Refused == \A h \in Handlers, t \in Tokens :
        Accepts(h, t) /\ t \in answered => now > token[t].iat + MaxAge + Skew
<1>1. ASSUME IInv, [Next]_vars PROVE [Refused]_vars
  <2> SUFFICES ASSUME NEW h \in Handlers, NEW t \in Tokens, t \in answered, Accepts(h, t)
               PROVE  now > token[t].iat + MaxAge + Skew
    OBVIOUS
  <2>1. TypeOK /\ WorkIsVerified /\ RememberedOrStale
    BY <1>1 DEF IInv
  <2>2. LooksUp
    <3>1. ASSUME NEW g \in Handlers, Remember(g) PROVE FALSE
      BY <2>1, <3>1, AnswerEffect DEF Accepts
    <3>2. ~Restart
      BY <2>1, RestartEffect DEF Accepts
    <3> QED
      BY <1>1, <2>1, <3>1, <3>2, StepCases DEF Accepts, Issues, OneLoginMoves, Revokes
  <2>3. seen' = Pruned(handler[h].at) /\ seen'[t] = NotSeen
    BY <2>2 DEF LooksUp, Accepts
  <2>4. handler[h].at \in Int /\ handler[h].at <= now
    BY <2>1 DEF TypeOK, HandlerRows, WorkIsVerified, Accepts
  <2>5. CASE seen[t] # NotSeen /\ seen[t] >= token[t].iat + MaxAge + Skew
    BY <2>1, <2>3, <2>4, <2>5, Stamps DEF Pruned
  <2> QED
    BY <2>1, <2>5 DEF RememberedOrStale
<1> QED
  BY <1>1, SessionsInvariant, PTL DEF Spec, ReplayRefused
=============================================================================
