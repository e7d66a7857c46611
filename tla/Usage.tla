-------------------------------- MODULE Usage --------------------------------
(***************************************************************************)
(* Launch clicks and their roll-up (internal/usage/usage.go, the loop in   *)
(* cmd/server/main.go, store/queries/usage.sql) for one service, role and  *)
(* target: every pass of the loop counts the raw clicks still present into *)
(* usage_daily, then deletes the raw clicks older than the retention.      *)
(*                                                                         *)
(* Time is counted in intervals of the loop.  A moment has at most one     *)
(* click, which is enough to tell a whole day from a part of one.          *)
(***************************************************************************)
EXTENDS Naturals, FiniteSets

CONSTANTS
    DayLength,          \* intervals of the loop in a day: 24
    Retention,          \* intervals a raw click is kept: 35 days of them
    MaxNow              \* bound: the last interval looked at

Moments == 0..MaxNow
Days == {t \div DayLength : t \in Moments}

VARIABLES
    now,
    pass,               \* the statement the loop of the process runs next
    click_events,       \* the moments of the raw clicks
    usage_daily,        \* the clicks of each day that has any
    clicked,            \* history: every click there was
    counted             \* history: when the last roll-up that succeeded ran

vars == <<now, pass, click_events, usage_daily, clicked, counted>>

OnDay(clicks, d) == {t \in clicks : t \div DayLength = d}

Init ==
    /\ now = 0
    /\ pass = "rollup"
    /\ click_events = {} /\ clicked = {}
    /\ usage_daily = [d \in {} |-> 0]
    /\ counted = 0

\* POST of a click.
RecordClick ==
    /\ now \notin clicked
    /\ click_events' = click_events \cup {now}
    /\ clicked' = clicked \cup {now}
    /\ UNCHANGED <<now, pass, usage_daily, counted>>

\* Days with no raw click left keep their row.
RollupClicks ==
    LET present == {t \div DayLength : t \in click_events}
    IN usage_daily' = [d \in present \cup DOMAIN usage_daily |->
           IF d \in present THEN Cardinality(OnDay(click_events, d)) ELSE usage_daily[d]]

Rollup ==
    /\ pass = "rollup"
    /\ RollupClicks
    /\ pass' = "purge"
    /\ counted' = now
    /\ UNCHANGED <<now, click_events, clicked>>

PurgeOldClicks ==
    /\ pass = "purge"
    /\ click_events' = {t \in click_events : t + Retention >= now}
    /\ pass' = "wait"
    /\ UNCHANGED <<now, usage_daily, clicked, counted>>

\* A statement that fails ends the pass; the loop logs it and waits.
Fail ==
    /\ pass \in {"rollup", "purge"}
    /\ pass' = "wait"
    /\ UNCHANGED <<now, click_events, usage_daily, clicked, counted>>

\* The loop begins with a pass, whenever the process starts.
Restart ==
    /\ pass' = "rollup"
    /\ UNCHANGED <<now, click_events, usage_daily, clicked, counted>>

\* The ticker; a pass takes less than an interval.
Tick ==
    /\ now < MaxNow
    /\ pass = "wait"
    /\ now' = now + 1
    /\ pass' = "rollup"
    /\ UNCHANGED <<click_events, usage_daily, clicked, counted>>

Next == RecordClick \/ Rollup \/ PurgeOldClicks \/ Fail \/ Restart \/ Tick

Spec == Init /\ [][Next]_vars

-----------------------------------------------------------------------------
(* Properties *)

\* The variables have their types, and the raw clicks are among the clicks there were.
TypeOK ==
    /\ now \in Moments /\ counted \in 0..now
    /\ pass \in {"rollup", "purge", "wait"}
    /\ clicked \subseteq 0..now /\ click_events \subseteq clicked
    /\ DOMAIN usage_daily \subseteq Days
    /\ \A d \in DOMAIN usage_daily : usage_daily[d] \in 1..DayLength

\* A day that was over when the last roll-up ran is counted whole, and the
\* count stays when its raw clicks are purged: "purged days stay frozen at
\* their last value" (usage.go, Rollup).
DaysStayCounted ==
    \A d \in Days :
        /\ (d + 1) * DayLength <= counted
        /\ OnDay(clicked, d) # {}
        => d \in DOMAIN usage_daily /\ usage_daily[d] = Cardinality(OnDay(clicked, d))
=============================================================================
