-------------------------- MODULE InstanceMessages --------------------------
(* The one Slack message an instance has (updateInstanceMessage of          *)
(* internal/alerter/alerter.go).  Two goroutines keep it up to date: the    *)
(* poll loop at the end of a cycle that changed the instance's alerts, and  *)
(* the heartbeat, which also posts escalation notices.  Neither holds am.mu *)
(* while it reads the alerts or talks to Slack.                             *)
(*                                                                         *)
(* Every map involved is keyed by instance, so the module is about one      *)
(* instance.  Its alerts are the non-info ones; module AlertManager says    *)
(* when rows open and close.                                                *)
EXTENDS Naturals

CONSTANTS
    Alerts,       \* non-info dedup keys of the instance
    Messages,     \* Slack message timestamps, none of them NoTS
    Environment,  \* which outside events a model admits, a subset of Events
    MaxRestarts   \* bound: restarts of the process

(* "slack"    a Slack request fails       "read"  the alerts query fails    *)
(* "resolve"  a row is not resolved       "ui"    a user resolves alerts    *)
Events == {"slack", "read", "resolve", "ui"}

NoTS == ""
Goroutines == {"reconcile", "heartbeat"}
Ages == {"none", "recent", "old"}

VARIABLES
    open,         \* alerts with an open row
    shows,        \* [Messages -> SUBSET Alerts]: what a message shows, {} is the all-clear
    instanceTS,   \* am.instanceTS, NoTS where the map has no entry
    limited,      \* am.lastInstanceUpdate is less than a minute old
    firstFired,   \* am.instanceFirstFired: "old" once NoticeAfter has passed
    escalated,    \* am.lastEscalated: "old" once RepeatEvery has passed
    pc,           \* where each goroutine is in its update
    local,        \* its ts and instanceAlerts
    restarts      \* restarts so far

timerVars == <<firstFired, escalated>>
vars == <<open, shows, instanceTS, limited, firstFired, escalated, pc, local, restarts>>

MaybeTS == Messages \cup {NoTS}

TypeOK ==
    /\ open \subseteq Alerts
    /\ shows \in [Messages -> SUBSET Alerts]
    /\ instanceTS \in MaybeTS
    /\ limited \in BOOLEAN
    /\ firstFired \in Ages /\ escalated \in Ages
    /\ pc \in [Goroutines -> {"idle", "enter", "read", "post", "finish",
                              "updated", "escalate"}]
    /\ local \in [Goroutines -> [ts : MaybeTS, alerts : SUBSET Alerts]]
    /\ restarts \in 0 .. MaxRestarts

NoLocal == [ts |-> NoTS, alerts |-> {}]

Init ==
    /\ open = {}
    /\ shows = [m \in Messages |-> {}]
    /\ instanceTS = NoTS
    /\ limited = FALSE
    /\ firstFired = "none" /\ escalated = "none"
    /\ pc = [g \in Goroutines |-> "idle"]
    /\ local = [g \in Goroutines |-> NoLocal]
    /\ restarts = 0

Goto(g, where) == pc' = [pc EXCEPT ![g] = where]

(* The heartbeat goes on to the escalation, whatever became of the update.  *)
Leave(g) ==
    /\ Goto(g, IF g = "heartbeat" THEN "updated" ELSE "idle")
    /\ local' = [local EXCEPT ![g] = NoLocal]

-----------------------------------------------------------------------------
(* updateInstanceMessage                                                    *)

(* The limiter and the timestamp, read under the lock.                      *)
Enter(g) ==
    /\ pc[g] = "enter"
    /\ IF limited
       THEN Leave(g)
       ELSE Goto(g, "read") /\ local' = [local EXCEPT ![g].ts = instanceTS]
    /\ UNCHANGED <<open, shows, instanceTS, limited, timerVars, restarts>>

(* A failed query returns no alerts, like a clear instance.                 *)
ReadAlerts(g) ==
    /\ pc[g] = "read"
    /\ \/ local' = [local EXCEPT ![g].alerts = open]
       \/ "read" \in Environment /\ local' = [local EXCEPT ![g].alerts = {}]
    /\ Goto(g, "post")
    /\ UNCHANGED <<open, shows, instanceTS, limited, timerVars, restarts>>

(* Slack gives every message a timestamp of its own; in the model, one that *)
(* nothing refers to, so that a small set of them is enough.                *)
InUse == {instanceTS} \cup {local[g].ts : g \in Goroutines}
FreshTS == CHOOSE m \in Messages : m \notin InUse

(* updateOrPost: update the message in place; without a timestamp, or if    *)
(* the update fails, post a new one.                                        *)
UpdateInPlace(g) ==
    /\ pc[g] = "post"
    /\ local[g].ts # NoTS
    /\ shows' = [shows EXCEPT ![local[g].ts] = local[g].alerts]
    /\ Goto(g, "finish")
    /\ UNCHANGED <<open, instanceTS, limited, timerVars, local, restarts>>

PostNew(g) ==
    /\ pc[g] = "post"
    /\ local[g].ts = NoTS \/ "slack" \in Environment
    /\ Messages \ InUse # {}
    /\ shows' = [shows EXCEPT ![FreshTS] = local[g].alerts]
    /\ local' = [local EXCEPT ![g].ts = FreshTS]
    /\ Goto(g, "finish")
    /\ UNCHANGED <<open, instanceTS, limited, timerVars, restarts>>

PostFails(g) ==
    /\ "slack" \in Environment
    /\ pc[g] = "post"
    /\ Leave(g)
    /\ UNCHANGED <<open, shows, instanceTS, limited, timerVars, restarts>>

FinishForgetsTS(g) ==                                               \* mutant
    /\ pc[g] = "finish"
    /\ limited' = TRUE
    /\ IF local[g].alerts = {}
       THEN firstFired' = "none" /\ escalated' = "none"
       ELSE /\ firstFired' = IF firstFired = "none" THEN "recent" ELSE firstFired
            /\ UNCHANGED escalated
    /\ Leave(g)
    /\ UNCHANGED <<open, shows, instanceTS, restarts>>

(* The bookkeeping, under the lock again.                                   *)
Finish(g) ==
    /\ pc[g] = "finish"
    /\ instanceTS' = local[g].ts
    /\ limited' = TRUE
    /\ IF local[g].alerts = {}
       THEN firstFired' = "none" /\ escalated' = "none"
       ELSE /\ firstFired' = IF firstFired = "none" THEN "recent" ELSE firstFired
            /\ UNCHANGED escalated
    /\ Leave(g)
    /\ UNCHANGED <<open, shows, restarts>>

Update(g) == \/ Enter(g)
             \/ ReadAlerts(g)
             \/ UpdateInPlace(g)
             \/ PostNew(g)
             \/ PostFails(g)
             \/ Finish(g)

-----------------------------------------------------------------------------
(* The poll loop: a cycle leaves the alerts in now open.  New alerts in     *)
(* quiet are snoozed or inhibited: they alone do not make the instance      *)
(* dirty.  A resolve that fails does.                                       *)
Cycle(now, quiet) ==
    /\ pc["reconcile"] = "idle"
    /\ now # open
    /\ quiet \subseteq now \ open
    /\ open' = now
    /\ Goto("reconcile", IF now = open \cup quiet THEN "idle" ELSE "enter")
    /\ UNCHANGED <<shows, instanceTS, limited, timerVars, local, restarts>>

CycleResolveFails ==
    /\ "resolve" \in Environment
    /\ pc["reconcile"] = "idle"
    /\ open # {}
    /\ Goto("reconcile", "enter")
    /\ UNCHANGED <<open, shows, instanceTS, limited, timerVars, local, restarts>>

-----------------------------------------------------------------------------
(* The heartbeat: only an instance with an open alert, and its limiter is   *)
(* lifted.                                                                  *)
Tick ==
    /\ pc["heartbeat"] = "idle"
    /\ open # {}
    /\ limited' = FALSE
    /\ Goto("heartbeat", "enter")
    /\ UNCHANGED <<open, shows, instanceTS, timerVars, local, restarts>>

EscalationDue == firstFired = "old" /\ escalated # "recent"

CheckEscalation ==
    /\ pc["heartbeat"] = "updated"
    /\ Goto("heartbeat", IF EscalationDue THEN "escalate" ELSE "idle")
    /\ UNCHANGED <<open, shows, instanceTS, limited, timerVars, local, restarts>>

(* PostEscalationNotice; its error is dropped.                              *)
Escalate ==
    /\ pc["heartbeat"] = "escalate"
    /\ escalated' = "recent"
    /\ Goto("heartbeat", "idle")
    /\ UNCHANGED <<open, shows, instanceTS, limited, firstFired, local, restarts>>

-----------------------------------------------------------------------------
(* The rest of the process and the world                                    *)

ResolveFromDashboard(now) ==
    /\ "ui" \in Environment
    /\ now \subseteq open /\ now # open
    /\ open' = now
    /\ UNCHANGED <<shows, instanceTS, limited, timerVars, pc, local, restarts>>

(* A new process starts from the timestamp SlackApp saved last, if it did:  *)
(* the current one, that of an earlier message, or none.                    *)
Restart ==
    /\ restarts < MaxRestarts
    /\ restarts' = restarts + 1
    /\ instanceTS' \in MaybeTS
    /\ limited' = FALSE
    /\ firstFired' = "none" /\ escalated' = "none"
    /\ pc' = [g \in Goroutines |-> "idle"]
    /\ local' = [g \in Goroutines |-> NoLocal]
    /\ UNCHANGED <<open, shows>>

MinutePasses ==
    /\ limited
    /\ limited' = FALSE
    /\ UNCHANGED <<open, shows, instanceTS, timerVars, pc, local, restarts>>

(* NoticeAfter or RepeatEvery has passed.                                   *)
TimerRunsOut ==
    /\ \/ firstFired = "recent" /\ firstFired' = "old" /\ UNCHANGED escalated
       \/ escalated = "recent" /\ escalated' = "old" /\ UNCHANGED firstFired
    /\ UNCHANGED <<open, shows, instanceTS, limited, pc, local, restarts>>

-----------------------------------------------------------------------------
Next ==
    \/ \E g \in Goroutines : Update(g)
    \/ \E now \in SUBSET Alerts, quiet \in SUBSET Alerts : Cycle(now, quiet)
    \/ CycleResolveFails
    \/ Tick
    \/ CheckEscalation
    \/ Escalate
    \/ \E now \in SUBSET Alerts : ResolveFromDashboard(now)
    \/ Restart
    \/ MinutePasses
    \/ TimerRunsOut

Spec == Init /\ [][Next]_vars

PostSucceeds(g) == UpdateInPlace(g) \/ (local[g].ts = NoTS /\ PostNew(g))

(* The goroutines run on, the ticker keeps ticking, time passes.  Slack     *)
(* does not refuse every current update for ever, nor ClickHouse every      *)
(* query, and a tick now and then gets through before the next cycle ends.  *)
Fairness ==
    /\ \A g \in Goroutines :
          /\ WF_vars(Update(g))
          /\ SF_vars(ReadAlerts(g) /\ local'[g].alerts = open)
          /\ SF_vars(local[g].alerts = open /\ PostSucceeds(g))
    /\ WF_vars(Tick)
    /\ SF_vars(pc["heartbeat"] = "enter" /\ ~limited /\ Enter("heartbeat"))
    /\ WF_vars(CheckEscalation)
    /\ WF_vars(Escalate)
    /\ WF_vars(MinutePasses)
    /\ WF_vars(TimerRunsOut)

FairSpec == Spec /\ Fairness

-----------------------------------------------------------------------------
(* Properties                                                               *)

(* While alerts stay open, the message never goes on showing something      *)
(* else, in spite of failed queries and requests, the limiter, restarts and *)
(* an update of one goroutine overwriting a later one of the other.         *)
WrongMessageHeals ==
    \A alerts \in SUBSET Alerts \ {{}} :
        <>[](open = alerts) => []<>(instanceTS # NoTS /\ shows[instanceTS] = alerts)

(* When all alerts of an instance are resolved for good, its message turns  *)
(* to the all-clear.                                                        *)
AllClearIsPosted ==
    <>[](open = {}) => <>[](instanceTS # NoTS => shows[instanceTS] = {})
=============================================================================
