---------------------------- MODULE AlertManager ----------------------------
(***************************************************************************)
(* The reconcile loop of internal/alerter/alerter.go: the poll loop hands  *)
(* it what the collectors saw, it compares that with the open rows of the  *)
(* alerts table and inserts, refreshes and resolves rows, then notifies.   *)
(* The loop runs interleaved with the dashboard's resolve and trigger      *)
(* handlers, the heartbeat's stale sweep, operators who snooze, acknowledge *)
(* and open maintenance windows, and process restarts.                     *)
(*                                                                         *)
(* Slack is not configured here (am.slack = nil): module InstanceMessages  *)
(* models that path.  The alerts table is the set of open firings; module  *)
(* AlertTable models its versioned rows.                                   *)
(***************************************************************************)
EXTENDS Naturals, FiniteSets

CONSTANTS
    Instances,           \* monitored ClickHouse instances
    Keys,                \* dedup keys
    InstanceOf,          \* [Keys -> Instances]
    CategoryOf,          \* [Keys -> STRING]
    SeveritiesOf,        \* [Keys -> SUBSET Severities]: what its condition reports
    InhibitionRules,     \* set of [sourceCategory, sourceSeverity, targetCategory, targetSeverity]
    ResolveCleanChecks,  \* am.resolveCleanChecks
    Environment          \* which outside events a model admits, see Events

Severities == {"info", "warn", "critical"}
None == "none"
SeverityOrNone == Severities \cup {None}
Any == ""                \* the empty field of a rule: a wildcard

(* "unreachable" every query on an instance fails, also the one whose error *)
(*               RestartCollector reports                                   *)
(* "query"       single queries of collectors fail; but for RestartCollector *)
(*               they log it and return what they have, without an error    *)
(* "read"        the active-alerts query of an instance fails               *)
(* "insert", "refresh", "resolve"  the write of that name fails             *)
(* "pagerduty"   a PagerDuty request fails                                  *)
(* "ui"          a user resolves an alert in the dashboard                  *)
(* "sweep"       rows outlive the stale threshold and are swept             *)
(* "suppress"    users open and close maintenance windows and snoozes       *)
(* "ack"         users acknowledge alerts                                   *)
(* "trigger"     a user writes an alert by hand, from the result of a check *)
(* "crash"       the process stops (shutdown or crash) and starts again     *)
Events == {"unreachable", "query", "read", "insert", "refresh", "resolve", "pagerduty",
           "ui", "sweep", "suppress", "ack", "trigger", "crash"}

ASSUME ThresholdAssumption == ResolveCleanChecks \in Nat \ {0}
ASSUME KeysAssumption == /\ InstanceOf \in [Keys -> Instances]
                         /\ SeveritiesOf \in [Keys -> SUBSET Severities]
ASSUME EnvironmentAssumption == Environment \subseteq Events

VARIABLES
    cond,         \* [Keys -> SeverityOrNone]: the condition as it is on the instance
    rows,         \* [Keys -> SeverityOrNone]: the latest firing row, None if it is resolved
    refreshed,    \* keys the last cycle observed and whose updated_at is kept fresh
    stale,        \* keys whose updated_at is older than the stale threshold
    cleanChecks,  \* am.cleanChecks, 0 where the map has no entry
    maintenance,  \* instances in an active window
    snoozed,      \* dedup keys with an unexpired snooze
    acked,        \* entries of the ack store; whileOpen is a history, see Acknowledge
    incidents,    \* PagerDuty incidents left open
    paged,        \* keys PagerDuty's rate limiter still blocks
    clearing,     \* dashboard resolves that have not yet called ClearCleanChecks
    pc,           \* where Reconcile is
    cycle,        \* Reconcile's local variables
    cleanStreak,  \* history: trusted cycles without the key since it was last observed
    wasClear,     \* history: keys that were clear in some cycle since last observed
    told          \* history: severity announced for the row's firing, "quiet" if none was
                  \* to be, "manual" if it was written by hand, None if nothing is told yet

storeVars == <<rows, refreshed, stale>>
userVars == <<maintenance, snoozed, acked>>
pagerVars == <<incidents, paged>>
streakVars == <<cleanStreak, wasClear>>
vars == <<cond, rows, refreshed, stale, cleanChecks, maintenance, snoozed, acked,
          incidents, paged, clearing, pc, cycle, cleanStreak, wasClear, told>>

-----------------------------------------------------------------------------
(* Reconcile's locals.  persist, notify and resolve are worked off one by   *)
(* one; closing holds the key whose row is resolved but whose ack and       *)
(* incident are not yet cleared.                                            *)
NoCycle == [current |-> [k \in Keys |-> None], trusted |-> {},
            db |-> [k \in Keys |-> None],
            persist |-> {}, notify |-> {}, resolve |-> {}, closing |-> {}]

CycleType == [current : [Keys -> SeverityOrNone], trusted : SUBSET Instances,
              db : [Keys -> SeverityOrNone],
              persist : SUBSET Keys, notify : SUBSET Keys,
              resolve : SUBSET Keys, closing : SUBSET Keys]

TypeOK ==
    /\ cond \in [Keys -> SeverityOrNone]
    /\ rows \in [Keys -> SeverityOrNone]
    /\ refreshed \subseteq Keys
    /\ stale \subseteq Keys
    /\ cleanChecks \in [Keys -> 0 .. ResolveCleanChecks]
    /\ maintenance \subseteq Instances
    /\ snoozed \subseteq Keys
    /\ acked \subseteq [key : Keys, whileOpen : BOOLEAN]
    /\ incidents \subseteq Keys
    /\ paged \subseteq Keys
    /\ clearing \subseteq Keys
    /\ pc \in {"idle", "snapshot", "account", "insert", "resolve", "notify"}
    /\ cycle \in CycleType
    /\ cleanStreak \in [Keys -> 0 .. ResolveCleanChecks]
    /\ wasClear \subseteq Keys
    /\ told \in [Keys -> SeverityOrNone \cup {"quiet", "manual"}]

Init ==
    /\ cond = [k \in Keys |-> None]
    /\ rows = [k \in Keys |-> None]
    /\ refreshed = {}
    /\ stale = {}
    /\ cleanChecks = [k \in Keys |-> 0]
    /\ maintenance = {}
    /\ snoozed = {}
    /\ acked = {}
    /\ incidents = {}
    /\ paged = {}
    /\ clearing = {}
    /\ pc = "idle"
    /\ cycle = NoCycle
    /\ cleanStreak = [k \in Keys |-> 0]
    /\ wasClear = {}
    /\ told = [k \in Keys |-> None]

Open(k) == rows[k] # None

-----------------------------------------------------------------------------
(* Inhibition (InhibitionMatcher.IsInhibited): active maps each key to the  *)
(* severity it is active with.                                              *)
Rule(sourceCategory, sourceSeverity, targetCategory, targetSeverity) ==
    [sourceCategory |-> sourceCategory, sourceSeverity |-> sourceSeverity,
     targetCategory |-> targetCategory, targetSeverity |-> targetSeverity]

(* The built-in rules; a rule with no severity or category matches any.     *)
DefaultInhibitionRules ==
    {Rule("memory", "critical", "queries", "warn"),
     Rule("memory", "critical", "queries", "info"),
     Rule("memory", "critical", "cpu", "warn"),
     Rule("replication", "critical", "tables", "warn"),
     Rule("storage", "critical", "inserts", "warn")}

Matches(value, field) == field = Any \/ value = field

IsInhibited(k, severity, active) ==
    \E rule \in InhibitionRules :
        /\ Matches(CategoryOf[k], rule.targetCategory)
        /\ Matches(severity, rule.targetSeverity)
        /\ \E source \in Keys :
              /\ active[source] # None
              /\ InstanceOf[source] = InstanceOf[k]
              /\ Matches(CategoryOf[source], rule.sourceCategory)
              /\ Matches(active[source], rule.sourceSeverity)

-----------------------------------------------------------------------------
(* The poll cycle                                                           *)

Streak(k, current, trusted) ==
    IF current[k] # None THEN 0
    ELSE IF InstanceOf[k] \in trusted /\ cleanStreak[k] < ResolveCleanChecks
         THEN cleanStreak[k] + 1
         ELSE cleanStreak[k]

(* The alerts an instance reports go missing where queries fail.  It is     *)
(* trusted unless a collector returns an error, and of the collectors that  *)
(* buildCollectors lists only RestartCollector ever does.                   *)
MayGoMissing(untrusted, lost) ==
    /\ \A k \in lost : cond[k] # None
    /\ \/ "query" \in Environment
       \/ /\ untrusted # {} => "unreachable" \in Environment
          /\ lost = {k \in Keys : InstanceOf[k] \in untrusted /\ cond[k] # None}

(* runReconcile: every instance is collected.                               *)
Observe(untrusted, lost) ==
    /\ pc = "idle"
    /\ MayGoMissing(untrusted, lost)
    /\ LET current == [k \in Keys |-> IF k \in lost THEN None ELSE cond[k]]
           trusted == Instances \ untrusted
       IN /\ cycle' = [NoCycle EXCEPT !.current = current, !.trusted = trusted]
          /\ cleanStreak' = [k \in Keys |-> Streak(k, current, trusted)]
    /\ wasClear' = {k \in Keys : cond[k] = None} \cup (lost \cap wasClear)
    /\ pc' = "snapshot"
    /\ UNCHANGED <<cond, storeVars, cleanChecks, userVars, pagerVars, clearing, told>>

(* GetAllActiveAlerts: an instance whose query fails contributes no row.    *)
Snapshot(unread) ==
    /\ pc = "snapshot"
    /\ unread # {} => "read" \in Environment
    /\ cycle' = [cycle EXCEPT !.db =
                    [k \in Keys |-> IF InstanceOf[k] \in unread THEN None ELSE rows[k]]]
    /\ pc' = "account"
    /\ UNCHANGED <<cond, storeVars, cleanChecks, userVars, pagerVars, clearing,
                   streakVars, told>>

Observed(k) == cycle.current[k] # None
InSnapshot(k) == cycle.db[k] # None

ToTouch == {k \in Keys : Observed(k) /\ InSnapshot(k)}
Missing == {k \in Keys : InSnapshot(k) /\ ~Observed(k)}

AdmittedUnsnoozed == {k \in Keys : /\ Observed(k)                   \* mutant
                                   /\ ~InSnapshot(k)
                                   /\ InstanceOf[k] \notin maintenance
                                   /\ k \notin snoozed}
AdmittedAgain == {k \in Keys : /\ Observed(k)                       \* mutant
                               /\ InstanceOf[k] \notin maintenance}

(* Maintenance drops a new firing; info severity, inhibition and a snooze   *)
(* persist it without a notification.                                       *)
Admitted == {k \in Keys : /\ Observed(k)
                          /\ ~InSnapshot(k)
                          /\ InstanceOf[k] \notin maintenance}

ActiveForInhibition ==
    [k \in Keys |-> IF InSnapshot(k) THEN cycle.db[k] ELSE cycle.current[k]]

Silent(k) == \/ cycle.current[k] = "info"
             \/ IsInhibited(k, cycle.current[k], ActiveForInhibition)
             \/ k \in snoozed

(* Missing alerts whose absence counts, and those whose count is reached.   *)
CountedUntrusted == Missing                                         \* mutant

Counted == {k \in Missing : InstanceOf[k] \in cycle.trusted}
CleanEnoughOneEarly ==                                              \* mutant
    {k \in Counted : cleanChecks[k] + 2 >= ResolveCleanChecks}
CleanEnough == {k \in Counted : cleanChecks[k] + 1 >= ResolveCleanChecks}

CountCleanChecksKept ==                                             \* mutant
    cleanChecks' = [k \in Keys |->
        IF Observed(k) THEN 0
        ELSE IF k \in Counted THEN cleanChecks[k] + 1
        ELSE cleanChecks[k]]
CountCleanChecksFlapping ==                                         \* mutant
    cleanChecks' = [k \in Keys |->
        IF k \in CleanEnough THEN 0
        ELSE IF k \in Counted THEN cleanChecks[k] + 1
        ELSE cleanChecks[k]]
CountCleanChecksFromScratch ==                                      \* mutant
    cleanChecks' = [k \in Keys |->
        IF k \in Counted \ CleanEnough THEN cleanChecks[k] + 1 ELSE 0]

CountCleanChecks ==
    cleanChecks' = [k \in Keys |->
        IF Observed(k) \/ k \in CleanEnough THEN 0
        ELSE IF k \in Counted THEN cleanChecks[k] + 1
        ELSE cleanChecks[k]]

AccountDuringMaintenance ==                                         \* mutant
    /\ pc = "account"
    /\ cycle' = [cycle EXCEPT !.persist = {k \in Keys : Observed(k) /\ ~InSnapshot(k)},
                              !.notify = {k \in Admitted : ~Silent(k)},
                              !.resolve = CleanEnough]
    /\ CountCleanChecks
    /\ pc' = "insert"
    /\ UNCHANGED <<cond, storeVars, userVars, pagerVars, clearing, streakVars, told>>

Account ==
    /\ pc = "account"
    /\ cycle' = [cycle EXCEPT !.persist = Admitted,
                              !.notify = {k \in Admitted : ~Silent(k)},
                              !.resolve = CleanEnough]
    /\ CountCleanChecks
    /\ pc' = "insert"
    /\ UNCHANGED <<cond, storeVars, userVars, pagerVars, clearing, streakVars, told>>

(* store.InsertAlert: a failure is logged, the alert is notified all the    *)
(* same.                                                                    *)
Insert(k) ==
    /\ pc = "insert"
    /\ k \in cycle.persist
    /\ cycle' = [cycle EXCEPT !.persist = @ \ {k}]
    /\ \/ /\ rows' = [rows EXCEPT ![k] = cycle.current[k]]
          /\ refreshed' = refreshed \cup {k}
          /\ stale' = stale \ {k}
          /\ told' = [told EXCEPT ![k] = IF k \in cycle.notify THEN None ELSE "quiet"]
       \/ /\ "insert" \in Environment
          /\ UNCHANGED <<storeVars, told>>
    /\ UNCHANGED <<cond, cleanChecks, userVars, pagerVars, clearing, pc, streakVars>>

(* store.RefreshAlerts, at most every five minutes: the clock is a choice.  *)
(* The refresh rewrites the version it finds unresolved, so a row resolved  *)
(* since the snapshot may open again.  A row whose alert is not observed is *)
(* not kept fresh.                                                          *)
Refresh ==
    /\ pc = "insert"
    /\ cycle.persist = {}
    /\ pc' = "resolve"
    /\ LET kept == {k \in refreshed : Observed(k)} IN
       \/ /\ refreshed' = kept
          /\ UNCHANGED <<rows, stale>>
       \/ /\ ToTouch # {}
          /\ \E reopened \in SUBSET {k \in ToTouch : ~Open(k)} :
                rows' = [k \in Keys |-> IF k \in ToTouch /\ (Open(k) \/ k \in reopened)
                                        THEN cycle.current[k] ELSE rows[k]]
          /\ refreshed' = kept \cup ToTouch
          /\ stale' = stale \ ToTouch
       \/ /\ ToTouch # {}
          /\ "refresh" \in Environment
          /\ refreshed' = kept \ ToTouch
          /\ UNCHANGED <<rows, stale>>
    /\ UNCHANGED <<cond, cleanChecks, userVars, pagerVars, clearing, cycle,
                   streakVars, told>>

(* store.ResolveAlert: after a failure the loop goes on with the next one.  *)
ResolveRow(k) ==
    /\ pc = "resolve"
    /\ cycle.closing = {}
    /\ k \in cycle.resolve
    /\ cycle' = [cycle EXCEPT !.resolve = @ \ {k}, !.closing = {k}]
    /\ rows' = [rows EXCEPT ![k] = None]
    /\ stale' = stale \ {k}
    /\ UNCHANGED <<cond, refreshed, cleanChecks, userVars, pagerVars, clearing, pc,
                   streakVars, told>>

ResolveFailsAborts(k) ==                                            \* mutant
    /\ "resolve" \in Environment
    /\ pc = "resolve"
    /\ cycle.closing = {}
    /\ k \in cycle.resolve
    /\ cycle' = NoCycle
    /\ pc' = "idle"
    /\ UNCHANGED <<cond, storeVars, cleanChecks, userVars, pagerVars, clearing,
                   streakVars, told>>

ResolveFails(k) ==
    /\ "resolve" \in Environment
    /\ pc = "resolve"
    /\ cycle.closing = {}
    /\ k \in cycle.resolve
    /\ cycle' = [cycle EXCEPT !.resolve = @ \ {k}]
    /\ UNCHANGED <<cond, storeVars, cleanChecks, userVars, pagerVars, clearing, pc,
                   streakVars, told>>

AnnounceResolveKeepsAck(k) ==                                       \* mutant
    /\ pc = "resolve"
    /\ k \in cycle.closing
    /\ cycle' = [cycle EXCEPT !.closing = {}]
    /\ incidents' = incidents \ {k}
    /\ UNCHANGED <<cond, storeVars, cleanChecks, userVars, paged, clearing, pc,
                   streakVars, told>>
AnnounceResolveKeepsIncident(k) ==                                  \* mutant
    /\ pc = "resolve"
    /\ k \in cycle.closing
    /\ cycle' = [cycle EXCEPT !.closing = {}]
    /\ acked' = {a \in acked : a.key # k}
    /\ UNCHANGED <<cond, storeVars, cleanChecks, maintenance, snoozed, pagerVars,
                   clearing, pc, streakVars, told>>

(* After the row: the acknowledgments go and PagerDuty is told; a request   *)
(* that fails is not repeated.                                              *)
AnnounceResolve(k) ==
    /\ pc = "resolve"
    /\ k \in cycle.closing
    /\ cycle' = [cycle EXCEPT !.closing = {}]
    /\ acked' = {a \in acked : a.key # k}
    /\ \/ incidents' = incidents \ {k}
       \/ "pagerduty" \in Environment /\ UNCHANGED incidents
    /\ UNCHANGED <<cond, storeVars, cleanChecks, maintenance, snoozed, paged, clearing,
                   pc, streakVars, told>>

ResolvesDone ==
    /\ pc = "resolve"
    /\ cycle.resolve = {} /\ cycle.closing = {}
    /\ pc' = "notify"
    /\ UNCHANGED <<cond, storeVars, cleanChecks, userVars, pagerVars, clearing, cycle,
                   streakVars, told>>

(* pagerduty.TriggerAlert, for critical alerts only.  The limiter notes the *)
(* attempt before the request is sent.                                      *)
Notify(k) ==
    /\ pc = "notify"
    /\ k \in cycle.notify
    /\ cycle' = [cycle EXCEPT !.notify = @ \ {k}]
    /\ told' = [told EXCEPT ![k] = cycle.current[k]]
    /\ IF cycle.current[k] = "critical" /\ k \notin paged
       THEN /\ paged' = paged \cup {k}
            /\ \/ incidents' = incidents \cup {k}
               \/ "pagerduty" \in Environment /\ UNCHANGED incidents
       ELSE UNCHANGED pagerVars
    /\ UNCHANGED <<cond, storeVars, cleanChecks, userVars, clearing, pc, streakVars>>

EndCycleEarly ==                                                    \* mutant
    /\ pc = "notify"
    /\ pc' = "idle"
    /\ cycle' = NoCycle
    /\ UNCHANGED <<cond, storeVars, cleanChecks, userVars, pagerVars, clearing,
                   streakVars, told>>

EndCycle ==
    /\ pc = "notify"
    /\ cycle.notify = {}
    /\ pc' = "idle"
    /\ cycle' = NoCycle
    /\ UNCHANGED <<cond, storeVars, cleanChecks, userVars, pagerVars, clearing,
                   streakVars, told>>

-----------------------------------------------------------------------------
(* The other writers                                                        *)

(* handleResolveAlert: the row first, the clean-check counter after it.     *)
ResolveFromDashboard(k) ==
    /\ "ui" \in Environment
    /\ Open(k)
    /\ rows' = [rows EXCEPT ![k] = None]
    /\ stale' = stale \ {k}
    /\ clearing' = clearing \cup {k}
    /\ UNCHANGED <<cond, refreshed, cleanChecks, userVars, pagerVars, pc, cycle,
                   streakVars, told>>

ClearCleanChecks(k) ==
    /\ k \in clearing
    /\ clearing' = clearing \ {k}
    /\ cleanChecks' = [cleanChecks EXCEPT ![k] = 0]
    /\ UNCHANGED <<cond, storeVars, userVars, pagerVars, pc, cycle, streakVars, told>>

(* Hours pass: a row that is not kept fresh reaches the stale threshold.    *)
GrowStale(k) ==
    /\ "sweep" \in Environment
    /\ Open(k)
    /\ k \notin refreshed \cup stale
    /\ stale' = stale \cup {k}
    /\ UNCHANGED <<cond, rows, refreshed, cleanChecks, userVars, pagerVars, clearing,
                   pc, cycle, streakVars, told>>

(* AutoResolveStale: every stale row of every instance the query reaches.   *)
SweepStale(reached) ==
    /\ "sweep" \in Environment
    /\ LET swept == {k \in stale : InstanceOf[k] \in reached}
       IN /\ swept # {}
          /\ rows' = [k \in Keys |-> IF k \in swept THEN None ELSE rows[k]]
          /\ stale' = stale \ swept
    /\ UNCHANGED <<cond, refreshed, cleanChecks, userVars, pagerVars, clearing, pc,
                   cycle, streakVars, told>>

SetMaintenance(i) ==
    /\ "suppress" \in Environment
    /\ \/ maintenance' = maintenance \cup {i}
       \/ maintenance' = maintenance \ {i}
    /\ UNCHANGED <<cond, storeVars, cleanChecks, snoozed, acked, pagerVars, clearing,
                   pc, cycle, streakVars, told>>

SetSnooze(k) ==
    /\ "suppress" \in Environment
    /\ \/ snoozed' = snoozed \cup {k}
       \/ snoozed' = snoozed \ {k}
    /\ UNCHANGED <<cond, storeVars, cleanChecks, maintenance, acked, pagerVars, clearing,
                   pc, cycle, streakVars, told>>

(* handleTriggerAlert: a new firing of whatever severity the check found,   *)
(* beside one that may be open; nobody is notified.                         *)
Trigger(k) ==
    /\ "trigger" \in Environment
    /\ \E severity \in SeveritiesOf[k] : rows' = [rows EXCEPT ![k] = severity]
    /\ stale' = stale \ {k}
    /\ told' = [told EXCEPT ![k] = "manual"]
    /\ UNCHANGED <<cond, refreshed, cleanChecks, userVars, pagerVars, clearing, pc, cycle,
                   streakVars>>

(* AckStore.Add takes any key: the list or the message with the button may  *)
(* be older than the resolve.  No notification asks for the entries.        *)
Acknowledge(k) ==
    /\ "ack" \in Environment
    /\ acked' = acked \cup {[key |-> k, whileOpen |-> Open(k)]}
    /\ UNCHANGED <<cond, storeVars, cleanChecks, maintenance, snoozed, pagerVars,
                   clearing, pc, cycle, streakVars, told>>

-----------------------------------------------------------------------------
(* The world                                                                *)

ConditionChanges(k) ==
    /\ \E severity \in SeveritiesOf[k] \cup {None} :
          cond' = [cond EXCEPT ![k] = severity]
    /\ UNCHANGED <<storeVars, cleanChecks, userVars, pagerVars, clearing, pc, cycle,
                   streakVars, told>>

(* The limiter's gap of five minutes has passed since the key was paged.    *)
PageGapElapses(k) ==
    /\ k \in paged
    /\ paged' = paged \ {k}
    /\ UNCHANGED <<cond, storeVars, cleanChecks, userVars, incidents, clearing, pc,
                   cycle, streakVars, told>>

(* A restart forgets the counters, the limiter and the work in progress;    *)
(* rows, incidents, acks, snoozes and windows outlive it.                   *)
Restart ==
    /\ "crash" \in Environment
    /\ cleanChecks' = [k \in Keys |-> 0]
    /\ paged' = {}
    /\ clearing' = {}
    /\ pc' = "idle"
    /\ cycle' = NoCycle
    /\ UNCHANGED <<cond, storeVars, userVars, incidents, streakVars, told>>

-----------------------------------------------------------------------------
Reconcile ==
    \/ \E untrusted \in SUBSET Instances, lost \in SUBSET Keys : Observe(untrusted, lost)
    \/ \E unread \in SUBSET Instances : Snapshot(unread)
    \/ Account
    \/ \E k \in Keys : Insert(k)
    \/ Refresh
    \/ \E k \in Keys : ResolveRow(k)
    \/ \E k \in Keys : ResolveFails(k)
    \/ \E k \in Keys : AnnounceResolve(k)
    \/ ResolvesDone
    \/ \E k \in Keys : Notify(k)
    \/ EndCycle

Others ==
    \/ \E k \in Keys : ResolveFromDashboard(k)
    \/ \E k \in Keys : ClearCleanChecks(k)
    \/ \E k \in Keys : GrowStale(k)
    \/ \E reached \in SUBSET Instances : SweepStale(reached)
    \/ \E i \in Instances : SetMaintenance(i)
    \/ \E k \in Keys : SetSnooze(k)
    \/ \E k \in Keys : Trigger(k)
    \/ \E k \in Keys : Acknowledge(k)
    \/ \E k \in Keys : ConditionChanges(k)
    \/ \E k \in Keys : PageGapElapses(k)
    \/ Restart

Next == Reconcile \/ Others

Spec == Init /\ [][Next]_vars

(* The poll loop keeps running.  Faults are not permanent: again and again  *)
(* a cycle observes every instance and reads every active alert, and an     *)
(* insert or a resolve that is tried again and again succeeds.              *)
Fairness ==
    /\ WF_vars(Reconcile)
    /\ SF_vars(Observe({}, {}))
    /\ SF_vars(cycle.trusted = Instances /\ Snapshot({}))
    /\ \A k \in Keys : SF_vars(Insert(k) /\ rows'[k] = cycle.current[k])
    /\ \A k \in Keys : SF_vars(ResolveRow(k))

FairSpec == Spec /\ Fairness

-----------------------------------------------------------------------------
(* Properties                                                               *)

(* A counter never claims more clean cycles than really passed: it is at    *)
(* most the number of trusted cycles that did not observe the key since a   *)
(* cycle last observed it, whatever resolves, sweeps, failed reads and      *)
(* restarts come between.  A cycle that observed the key has yet to reset   *)
(* the counter until it does its accounting.                                *)
CountersTrackCleanCycles ==
    \A k \in Keys : \/ cleanChecks[k] <= cleanStreak[k]
                    \/ pc \in {"snapshot", "account"} /\ Observed(k)

(* The loop is about to resolve only alerts of an instance it trusts in     *)
(* this cycle, unobserved for ResolveCleanChecks trusted cycles with no     *)
(* sighting in between, not even one by a partly failed collection.         *)
ResolveNeedsCleanStreak ==
    \A k \in cycle.resolve \cup cycle.closing :
        /\ cleanStreak[k] >= ResolveCleanChecks
        /\ InstanceOf[k] \in cycle.trusted
        /\ ~Observed(k)

(* No vacuous resolve: the condition really was clear in some cycle since   *)
(* it was last observed; failed queries alone resolve nothing.              *)
ResolvedOnEvidence == cycle.resolve \cup cycle.closing \subseteq wasClear

(* A row closes for one of three reasons: a full streak of clean cycles, a  *)
(* user, or the stale sweep.  No insert, refresh or restart loses it.       *)
RowsCloseForAReason ==
    [][\A k \in Keys : Open(k) /\ ~Open(k)' =>
          \/ k \in cycle.resolve /\ cleanStreak[k] >= ResolveCleanChecks
          \/ k \in clearing'
          \/ k \in stale]_vars

(* Between cycles every open row has been announced, was meant to be silent *)
(* when it was persisted, or was written by hand: nothing the loop persists *)
(* is forgotten because the next cycle only touches it.                     *)
EveryFiringAnnounced ==
    pc = "idle" => \A k \in Keys : Open(k) => told[k] # None

(* One open row per key and firing: the loop inserts a row only for a key   *)
(* that has none open, or one that was written by hand since the snapshot.  *)
OneFiringPerKey ==
    pc = "insert" => \A k \in cycle.persist : Open(k) => told[k] = "manual"

(* Between cycles no PagerDuty incident outlives the alert that raised it.  *)
NoOrphanIncident == pc = "idle" => \A k \in incidents : Open(k)

(* An acknowledgment ends with the firing it was given for: no firing that  *)
(* the loop records starts out with one given while an earlier was open.    *)
AckedFirings == {a.key : a \in {b \in acked : b.whileOpen}}

AckEndsWithFiring ==
    [][\A k \in Keys : ~Open(k) /\ Open(k)' /\ told'[k] # "manual" =>
          k \notin AckedFirings]_vars

(* "Called when an alert resolves so the next firing starts fresh": a firing *)
(* after the first starts without any acknowledgment.                       *)
NextFiringStartsFresh ==
    [][\A k \in Keys : ~Open(k) /\ Open(k)' /\ told[k] # None =>
          \A a \in acked : a.key # k]_vars

(* Where an alert is in its life, read off its row, what was announced of   *)
(* it and the row that is being closed.                                     *)
Stage(k) ==
    IF k \in cycle.closing THEN "closing"
    ELSE IF ~Open(k) THEN "clear"
    ELSE IF told[k] = None THEN "pending"
    ELSE IF told[k] = "quiet" THEN "silent"
    ELSE IF told[k] = "manual" THEN "manual"
    ELSE "announced"

(* While the loop is the only one to close rows, its reads, inserts and     *)
(* requests succeed and it is not stopped halfway, every alert lives the    *)
(* life that AlertLifecycle describes: recorded once, announced once,       *)
(* closed after that, its acknowledgments and its incident taken back,      *)
(* whatever conditions, failed collections, refreshes and resolves,         *)
(* windows, snoozes, acknowledgments and alerts written by hand do.         *)
L == INSTANCE AlertLifecycle WITH
        life <- [k \in Keys |-> Stage(k)], acked <- {a.key : a \in acked}
ImplementsLifecycle == L!Spec

(* A condition that is gone for good is resolved in the end, even if the    *)
(* collectors, the reads and the resolves fail now and then.                *)
ClearedIsResolved ==
    \A k \in Keys : <>[](cond[k] = None) => <>[]~Open(k)

(* A condition that persists outside maintenance ends up as an open row     *)
(* that stays open.                                                         *)
FiringIsRecorded ==
    \A k \in Keys :
        <>[](cond[k] # None /\ InstanceOf[k] \notin maintenance) => <>[]Open(k)

(* An alert dropped by a maintenance window is announced after the window   *)
(* if it still fires and neither a snooze nor a rule silences it.           *)
AnnouncedAfterMaintenance ==
    \A k \in Keys :
        /\ <>[](cond[k] = "critical" /\ InstanceOf[k] \notin maintenance)
        /\ [](k \notin snoozed)
        /\ \A rule \in InhibitionRules : ~Matches(CategoryOf[k], rule.targetCategory)
        => <>(told[k] = "critical")
=============================================================================
