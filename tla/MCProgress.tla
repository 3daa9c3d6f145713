----------------------------- MODULE MCProgress -----------------------------
(***************************************************************************)
(* What must happen in the end, on small instances of three concurrent     *)
(* parts of the monitor: the poll loop, the reconcile loop and the updates *)
(* of an instance's Slack message.  They run on clocks of their own and    *)
(* share nothing modelled: `part` says which one runs, the others stay in  *)
(* an initial state, where their properties hold.                          *)
(***************************************************************************)
EXTENDS MCPollLoop

VARIABLES
    part,
    (* AlertManager *)
    cond, rows, refreshed, stale, cleanChecks, maintenance, snoozed, acked, incidents, paged,
    clearing, step, cycle, cleanStreak, wasClear, told,
    (* InstanceMessages *)
    open, shows, instanceTS, limited, firstFired, escalated, at, local, restarts

alertVars == <<cond, rows, refreshed, stale, cleanChecks, maintenance, snoozed, acked, incidents,
               paged, clearing, step, cycle, cleanStreak, wasClear, told>>
slackVars == <<open, shows, instanceTS, limited, firstFired, escalated, at, local, restarts>>

(* One critical alert, under faults that do not last.                       *)
AM == INSTANCE AlertManager WITH
    Instances <- {"i1"}, Keys <- {"memory"}, InstanceOf <- [k \in {"memory"} |-> "i1"],
    CategoryOf <- [k \in {"memory"} |-> k], SeveritiesOf <- [k \in {"memory"} |-> {"critical"}],
    InhibitionRules <- {}, ResolveCleanChecks <- 2,
    Environment <- {"unreachable", "read", "insert", "refresh", "resolve", "suppress"},
    pc <- step

(* One alert, failing queries, requests and resolves, users and a restart.  *)
(* Two messages: the last one, and one that replaces it.                    *)
IM == INSTANCE InstanceMessages WITH
    Alerts <- {"a"}, Messages <- {"t1", "t2"},
    Environment <- {"slack", "read", "resolve", "ui"}, MaxRestarts <- 1, pc <- at

Parts == {"polls", "alerts", "slack"}

(* Only the poll loop has collectors, which any subset may report.          *)
ProgressInit ==
    /\ part \in Parts
    /\ Init /\ AM!Init /\ IM!Init
    /\ part # "polls" => reporting = {}

PollsOnly == part = "polls" /\ UNCHANGED <<part, alertVars, slackVars>>
AlertsOnly == part = "alerts" /\ UNCHANGED <<part, vars, slackVars>>
SlackOnly == part = "slack" /\ UNCHANGED <<part, vars, alertVars>>

ProgressNext ==
    \/ PollsOnly /\ Next
    \/ AlertsOnly /\ AM!Next
    \/ SlackOnly /\ IM!Next

progressVars == <<part, vars, alertVars, slackVars>>

(* The fairness of the part that runs.  A condition on several parts is one *)
(* on each of them, for the steps of the others are never enabled.          *)
ProgressFairness ==
    /\ WF_progressVars(\/ PollsOnly /\ Poll
                       \/ AlertsOnly /\ AM!Reconcile
                       \/ SlackOnly /\ IM!Update("reconcile"))
    /\ WF_progressVars(\/ PollsOnly /\ TickerFires
                       \/ SlackOnly /\ IM!Update("heartbeat"))
    /\ WF_progressVars(SlackOnly /\ IM!Tick)
    /\ WF_progressVars(SlackOnly /\ IM!CheckEscalation)
    /\ WF_progressVars(SlackOnly /\ IM!Escalate)
    /\ WF_progressVars(SlackOnly /\ IM!MinutePasses)
    /\ WF_progressVars(SlackOnly /\ IM!TimerRunsOut)
    /\ \A i \in Instances : WF_progressVars(PollsOnly /\ BackoffEnds(i))
    /\ SF_progressVars(\/ PollsOnly /\ StartPoll("forcePoll")
                       \/ AlertsOnly /\ AM!Observe({}, {})
                       \/ SlackOnly /\ at["heartbeat"] = "enter" /\ ~limited
                                    /\ IM!Enter("heartbeat"))
    /\ SF_progressVars(\/ AlertsOnly /\ cycle.trusted = {"i1"} /\ AM!Snapshot({})
                       \/ SlackOnly /\ IM!ReadAlerts("reconcile")
                                    /\ local'["reconcile"].alerts = open)
    /\ SF_progressVars(\/ AlertsOnly /\ AM!Insert("memory")
                                     /\ rows'["memory"] = cycle.current["memory"]
                       \/ SlackOnly /\ IM!ReadAlerts("heartbeat")
                                    /\ local'["heartbeat"].alerts = open)
    /\ SF_progressVars(\/ AlertsOnly /\ AM!ResolveRow("memory")
                       \/ SlackOnly /\ local["reconcile"].alerts = open
                                    /\ IM!PostSucceeds("reconcile"))
    /\ SF_progressVars(SlackOnly /\ local["heartbeat"].alerts = open
                                 /\ IM!PostSucceeds("heartbeat"))

ProgressSpec == ProgressInit /\ [][ProgressNext]_progressVars /\ ProgressFairness

(* The properties of AlertManager and InstanceMessages under their own      *)
(* names; the poll loop's keep theirs.                                      *)
ClearedIsResolved == AM!ClearedIsResolved
FiringIsRecorded == AM!FiringIsRecorded
AnnouncedAfterMaintenance == AM!AnnouncedAfterMaintenance
WrongMessageHeals == IM!WrongMessageHeals
=============================================================================
