------------------------------ MODULE PollLoop ------------------------------
(***************************************************************************)
(* The main loop of cmd/ch-analyzer/main.go and the circuit breaker of     *)
(* runReconcile: a poll is started by the ticker or by the dashboard, one  *)
(* goroutine per instance runs the collectors or, in backoff, skips them,  *)
(* and their results are handed to the reconcile loop (module              *)
(* AlertManager, whose Observe takes what this module hands over).         *)
(***************************************************************************)
EXTENDS Naturals, FiniteSets

CONSTANTS
    Instances,     \* monitored ClickHouse instances
    Collectors,    \* what buildCollectors lists
    Reportings,    \* sets of collectors whose Collect may return the error of a failed query
    FailureLimit   \* failed polls in a row that open the breaker, 5 in the code

(* Of the collectors that buildCollectors lists, RestartCollector alone     *)
(* returns it.                                                              *)
ASSUME CollectorsAssumption == Collectors # {} /\ Reportings \subseteq SUBSET Collectors
ASSUME LimitAssumption == FailureLimit \in Nat \ {0}

VARIABLES
    reporting, \* the collectors of this build that return the error of a failed query
    down,      \* instances that answer no query
    failures,  \* instanceFailures, counted up to FailureLimit: no more is compared
    backoff,   \* instanceBackoff: no entry, a time to come, a time gone by
    ready,     \* the channels that hold a value: ticker.C, forcePollCh
    pc,        \* "idle": in the select, "poll": in runReconcile
    todo,      \* instances whose goroutine has not added its snapshot yet
    snaps,     \* the snapshots of this poll
    handed,    \* what the last finished poll handed to the reconcile loop
    silent     \* history: attempts in a row without one answered query, up to FailureLimit

breakerVars == <<failures, backoff, silent>>
vars == <<reporting, down, breakerVars, ready, pc, todo, snaps, handed>>

(* alarms: instances with a connectivity alert; trusted: fullyObserved;     *)
(* collected: hadCollection.                                                *)
NoSnaps == [alarms |-> {}, trusted |-> {}, collected |-> {}]
SnapsType == [alarms : SUBSET Instances, trusted : SUBSET Instances,
              collected : SUBSET Instances]

(* The two maps of the breaker agree: an entry for the backoff stays until  *)
(* a collection succeeds, and so does the full count.                       *)
MapsAgree == \A i \in Instances : backoff[i] # "none" <=> failures[i] = FailureLimit

TypeOK ==
    /\ reporting \in Reportings
    /\ down \subseteq Instances
    /\ failures \in [Instances -> 0 .. FailureLimit]
    /\ backoff \in [Instances -> {"none", "running", "over"}]
    /\ ready \subseteq {"ticker", "forcePoll"}
    /\ pc \in {"idle", "poll"}
    /\ todo \subseteq Instances
    /\ snaps \in SnapsType
    /\ handed \in SnapsType
    /\ silent \in [Instances -> 0 .. FailureLimit]
    /\ MapsAgree

(* The process starts with a poll.                                          *)
Init ==
    /\ reporting \in Reportings
    /\ down = {}
    /\ failures = [i \in Instances |-> 0]
    /\ backoff = [i \in Instances |-> "none"]
    /\ ready = {}
    /\ pc = "poll"
    /\ todo = Instances
    /\ snaps = NoSnaps
    /\ handed = NoSnaps
    /\ silent = [i \in Instances |-> 0]

CountUpTo(limit, n) == IF n < limit THEN n + 1 ELSE limit

-----------------------------------------------------------------------------
(* The poll                                                                 *)

ReceiveTicksFirst(channel) ==                                       \* mutant
    /\ channel \in ready
    /\ "ticker" \in ready => channel = "ticker"
    /\ ready' = ready \ {channel}

(* The select picks any channel that is ready.                              *)
Receive(channel) ==
    /\ channel \in ready
    /\ ready' = ready \ {channel}

StartPoll(channel) ==
    /\ pc = "idle"
    /\ Receive(channel)
    /\ pc' = "poll"
    /\ todo' = Instances
    /\ snaps' = NoSnaps
    /\ UNCHANGED <<reporting, down, breakerVars, handed>>

InBackoffForGood(i) == backoff[i] # "none"                          \* mutant

InBackoff(i) == backoff[i] = "running"

(* In backoff nothing is collected and the alert is repeated.               *)
Skip(i) ==
    /\ i \in todo
    /\ InBackoff(i)
    /\ todo' = todo \ {i}
    /\ snaps' = [snaps EXCEPT !.alarms = @ \cup {i}]
    /\ UNCHANGED <<reporting, down, breakerVars, ready, pc, handed>>

(* instanceFailures[i] >= FailureLimit, after it was incremented.           *)
Tripped(i) == failures[i] + 1 >= FailureLimit

BackOffAnew(i) ==                                                   \* mutant
    /\ failures' = [failures EXCEPT ![i] = IF Tripped(i) THEN 0 ELSE @ + 1]
    /\ backoff' = IF Tripped(i) THEN [backoff EXCEPT ![i] = "running"] ELSE backoff

CountFailure(i) ==
    /\ failures' = [failures EXCEPT ![i] = CountUpTo(FailureLimit, @)]
    /\ backoff' = IF Tripped(i) THEN [backoff EXCEPT ![i] = "running"] ELSE backoff

ResetCountOnly(i) ==                                                \* mutant
    /\ failures' = [failures EXCEPT ![i] = 0]
    /\ UNCHANGED backoff
KeepCount(i) ==                                                     \* mutant
    /\ backoff' = [backoff EXCEPT ![i] = "none"]
    /\ UNCHANGED failures

ResetBreaker(i) ==
    /\ failures' = [failures EXCEPT ![i] = 0]
    /\ backoff' = [backoff EXCEPT ![i] = "none"]

AnyFailed(errors) == errors # {}                                    \* mutant

(* collectionFailed: errorCount == len(collectors).                         *)
CollectionFailed(errors) == errors = Collectors

(* Queries of the collectors in failing fail; errorCount counts those that  *)
(* return the error.                                                        *)
Collect(i, failing) ==
    /\ i \in todo
    /\ ~InBackoff(i)
    /\ i \in down <=> failing = Collectors
    /\ LET errors == failing \cap reporting IN
       IF CollectionFailed(errors)
       THEN /\ CountFailure(i)
            /\ snaps' = IF Tripped(i) THEN [snaps EXCEPT !.alarms = @ \cup {i}] ELSE snaps
       ELSE /\ ResetBreaker(i)
            /\ snaps' = [snaps EXCEPT
                            !.collected = @ \cup {i},
                            !.trusted = IF errors = {} THEN @ \cup {i} ELSE @]
    /\ silent' = [silent EXCEPT ![i] =
                    IF failing = Collectors THEN CountUpTo(FailureLimit, @) ELSE 0]
    /\ todo' = todo \ {i}
    /\ UNCHANGED <<reporting, down, ready, pc, handed>>

(* All goroutines are done: their results go to ReconcileWithObservation.   *)
HandOver ==
    /\ pc = "poll"
    /\ todo = {}
    /\ pc' = "idle"
    /\ handed' = snaps
    /\ UNCHANGED <<reporting, down, breakerVars, ready, todo, snaps>>

-----------------------------------------------------------------------------
(* Time, users and the world                                                *)

(* Both channels hold one value: a tick that finds the last one still       *)
(* waiting is dropped, a request joins the one that waits (handleForcePoll). *)
Send(channel) ==
    /\ ready' = ready \cup {channel}
    /\ UNCHANGED <<reporting, down, breakerVars, pc, todo, snaps, handed>>

TickerFires == Send("ticker")
RequestPoll == Send("forcePoll")

BackoffEnds(i) ==
    /\ backoff[i] = "running"
    /\ backoff' = [backoff EXCEPT ![i] = "over"]
    /\ UNCHANGED <<reporting, down, failures, silent, ready, pc, todo, snaps, handed>>

GoesDown(i) ==
    /\ down' = down \cup {i}
    /\ UNCHANGED <<reporting, breakerVars, ready, pc, todo, snaps, handed>>

ComesBack(i) ==
    /\ down' = down \ {i}
    /\ UNCHANGED <<reporting, breakerVars, ready, pc, todo, snaps, handed>>

(* Both maps are in memory only.                                            *)
Restart ==
    /\ failures' = [i \in Instances |-> 0]
    /\ backoff' = [i \in Instances |-> "none"]
    /\ silent' = [i \in Instances |-> 0]
    /\ ready' = {}
    /\ pc' = "poll"
    /\ todo' = Instances
    /\ snaps' = NoSnaps
    /\ handed' = NoSnaps
    /\ UNCHANGED <<reporting, down>>

-----------------------------------------------------------------------------
Poll ==
    \/ \E channel \in {"ticker", "forcePoll"} : StartPoll(channel)
    \/ \E i \in Instances : Skip(i)
    \/ \E i \in Instances, failing \in SUBSET Collectors : Collect(i, failing)
    \/ HandOver

World ==
    \/ TickerFires
    \/ RequestPoll
    \/ \E i \in Instances : BackoffEnds(i) \/ GoesDown(i) \/ ComesBack(i)
    \/ Restart

Next == Poll \/ World

Spec == Init /\ [][Next]_vars

(* The loop runs on, time passes, and the select, which picks at random     *)
(* among ready channels, does not overlook one of them for ever.            *)
Fairness ==
    /\ WF_vars(Poll)
    /\ WF_vars(TickerFires)
    /\ SF_vars(StartPoll("forcePoll"))
    /\ \A i \in Instances : WF_vars(BackoffEnds(i))

FairSpec == Spec /\ Fairness

-----------------------------------------------------------------------------
(* Properties                                                               *)

(* The connectivity alert has no gap: once it is handed to the reconcile    *)
(* loop it is handed over by every poll, through backoff and failed         *)
(* retries, until a collection succeeds.                                    *)
AlarmHeld ==
    [][pc' = "idle" => handed.alarms \ handed'.alarms \subseteq handed'.collected]_vars

(* An instance is reported unreachable only after FailureLimit attempts in  *)
(* a row without one answered query.                                        *)
NoFalseAlarm ==
    \A i \in snaps.alarms \cup handed.alarms :
        silent[i] = FailureLimit \/ i \in snaps.collected

(* "After 5 consecutive cycles where every collector failed": between polls *)
(* an instance that did not answer one query in the last FailureLimit       *)
(* attempts has its connectivity alert.                                     *)
UnreachableIsReported ==
    pc = "idle" =>
        \A i \in Instances : silent[i] = FailureLimit => i \in handed.alarms

(* An instance that is back for good loses the alert for good: the breaker  *)
(* cannot stay open.                                                        *)
RecoveryIsSeen ==
    \A i \in Instances : <>[](i \notin down) => <>[](i \notin handed.alarms)

(* The breaker opens only if every collector returns its errors: a single   *)
(* one that answers a failed query with nothing keeps every count at zero.  *)
BreakerNeedsAll ==
    reporting # Collectors =>
        /\ snaps.alarms \cup handed.alarms = {}
        /\ \A i \in Instances : failures[i] = 0 /\ backoff[i] = "none"

(* A requested poll starts, however busy the ticker keeps the loop.         *)
RequestIsServed == "forcePoll" \in ready ~> "forcePoll" \notin ready
=============================================================================
