------------------------------- MODULE RunCheck -------------------------------
(***************************************************************************)
(* Running collectors by hand (web/frontend/src/views/RunCheck.tsx and      *)
(* internal/web/runcheck.go): the tab that runs checks, the tab of the      *)
(* alert dry run, from which an alert can be written to the alerts table.   *)
(* The server runs every collector on every instance in parallel and        *)
(* answers when the last one is done.  (The button that asks for a poll is  *)
(* PollLoop's RequestPoll.)                                                 *)
(***************************************************************************)
EXTENDS Naturals, FiniteSets

CONSTANTS
    Collectors, Instances,
    Reporting,   \* collectors that return the error of a failed query, see PollLoop
    MaxRuns,     \* bound: runs
    MaxTriggers  \* bound: alerts written by hand

ConstantsOK == Reporting \subseteq Collectors /\ MaxRuns \in Nat /\ MaxTriggers \in Nat

VARIABLES
    collectorMetas, instanceList, initError, \* what the mount has loaded
    tabs,        \* the two tabs
    requests,    \* runs that are not answered
    runs,        \* so far
    condition,   \* pairs that a collector would raise an alert for
    triggeringKey, triggeredKeys,
    triggers,    \* trigger requests that are not answered
    pressed,     \* so far
    rows,        \* history: rows a trigger has written for the dry run shown
    written,     \* history: pairs a trigger has ever written
    crossed      \* history: a trigger began beside another one, or its answer got lost

mounted == <<collectorMetas, instanceList, initError>>
triggering == <<triggeringKey, triggeredKeys, triggers, pressed, rows, written, crossed>>
vars == <<mounted, tabs, requests, runs, condition, triggering>>

Pairs == Instances \X Collectors
NoKey == <<>>

(* `met`: whether the condition held when the pair was run.                 *)
Result == [pair : Pairs, outcome : {"clean", "alert", "error"}, met : BOOLEAN]

Tab ==
    [ results : SUBSET Result, running : BOOLEAN, error : BOOLEAN,
      ran : SUBSET Pairs ] \* history: what the last run was for

Request == [nr : 1 .. MaxRuns, tab : {"run", "dry"}, todo : SUBSET Pairs, results : SUBSET Result]
Trigger == [nr : 1 .. MaxTriggers, key : Pairs, inserted : BOOLEAN]

TypeOK ==
    /\ collectorMetas \in {{}, Collectors} /\ instanceList \in {{}, Instances} /\ initError \in BOOLEAN
    /\ tabs \in [{"run", "dry"} -> Tab]
    /\ requests \subseteq Request /\ runs \in 0 .. MaxRuns
    /\ condition \subseteq Pairs
    /\ triggeringKey \in Pairs \cup {NoKey} /\ triggeredKeys \subseteq Pairs
    /\ triggers \subseteq Trigger /\ pressed \in 0 .. MaxTriggers
    /\ rows \in [Pairs -> Nat] /\ written \subseteq Pairs /\ crossed \in BOOLEAN

-----------------------------------------------------------------------------
(* The mount: each of its two requests is caught on its own.                *)
Init ==
    /\ collectorMetas \in {{}, Collectors} /\ instanceList \in {{}, Instances}
    /\ initError = (collectorMetas = {} \/ instanceList = {})
    /\ tabs = [t \in {"run", "dry"} |->
           [results |-> {}, running |-> FALSE, error |-> FALSE, ran |-> {}]]
    /\ requests = {} /\ runs = 0
    /\ condition \in SUBSET Pairs
    /\ triggeringKey = NoKey /\ triggeredKeys = {} /\ triggers = {} /\ pressed = 0
    /\ rows = [p \in Pairs |-> 0] /\ written = {} /\ crossed = FALSE

(* handleRun, handleDrRun: the results of the run before go, and with them  *)
(* what was triggered.  What is selected, of what the mount has loaded,     *)
(* counts only now.                                                         *)
Run(t, cs, is) ==
    LET pairs == is \X cs IN
    /\ cs \subseteq collectorMetas /\ is \subseteq instanceList
    /\ ~tabs[t].running /\ pairs # {}
    /\ runs < MaxRuns /\ runs' = runs + 1
    /\ tabs' = [tabs EXCEPT ![t] = [@ EXCEPT !.running = TRUE, !.error = FALSE, !.results = {},
                                             !.ran = pairs]]
    /\ requests' = requests \cup {[nr |-> runs', tab |-> t, todo |-> pairs, results |-> {}]}
    /\ IF t = "dry"
       THEN triggeredKeys' = {} /\ rows' = [p \in Pairs |-> 0]
       ELSE UNCHANGED <<triggeredKeys, rows>>
    /\ UNCHANGED <<mounted, condition, triggeringKey, triggers, pressed, written, crossed>>

-----------------------------------------------------------------------------
(* handleRunCheck: one goroutine for each pair.  A collector whose query    *)
(* fails has nothing to say, and returns an error or, most of them, none.   *)
Outcome(pair, answered) ==
    IF answered THEN IF pair \in condition THEN "alert" ELSE "clean"
    ELSE IF pair[2] \in Reporting THEN "error" ELSE "clean"

RunPair(r, pair, answered) ==
    /\ pair \in r.todo
    /\ requests' = (requests \ {r}) \cup
          {[r EXCEPT !.todo = @ \ {pair},
                     !.results = @ \cup {[ pair |-> pair, outcome |-> Outcome(pair, answered),
                                           met |-> pair \in condition ]}]}
    /\ UNCHANGED <<mounted, tabs, runs, condition, triggering>>

Answered(r) ==
    /\ r.todo = {}
    /\ requests' = requests \ {r}
    /\ tabs' = [tabs EXCEPT ![r.tab].results = r.results, ![r.tab].running = FALSE]
    /\ UNCHANGED <<mounted, runs, condition, triggering>>

(* api.ts waits 30 seconds, as long as the server waits for a pair.         *)
RunFails(r) ==
    /\ requests' = requests \ {r}
    /\ tabs' = [tabs EXCEPT ![r.tab].error = TRUE, ![r.tab].running = FALSE]
    /\ UNCHANGED <<mounted, runs, condition, triggering>>

ConditionChanges(pair) ==
    /\ condition' = IF pair \in condition THEN condition \ {pair} ELSE condition \cup {pair}
    /\ UNCHANGED <<mounted, tabs, requests, runs, triggering>>

-----------------------------------------------------------------------------
Of(t, outcome) == {r.pair : r \in {s \in tabs[t].results : s.outcome = outcome}}

drAlertRows == Of("dry", "alert")
drErrorResults == Of("dry", "error")

NoAlertsShownDespiteErrors == tabs["dry"].results # {} /\ drAlertRows = {} \* mutant

(* "All collectors passed — no alerts would fire right now."                *)
NoAlertsShown == tabs["dry"].results # {} /\ drAlertRows = {} /\ drErrorResults = {}

(* handleTriggerAlert; the button of an alert is disabled when it has been  *)
(* triggered or is the one that is being triggered.                         *)
TriggerAlert(key) ==
    /\ key \in drAlertRows /\ key \notin triggeredKeys /\ key # triggeringKey
    /\ pressed < MaxTriggers /\ pressed' = pressed + 1
    /\ triggeringKey' = key
    /\ triggers' = triggers \cup {[nr |-> pressed', key |-> key, inserted |-> FALSE]}
    /\ crossed' = (crossed \/ triggers # {})
    /\ UNCHANGED <<mounted, tabs, requests, runs, condition, triggeredKeys, rows, written>>

(* handleTriggerAlert of the server: a row is inserted, whether there is an *)
(* open one for the key or not.                                             *)
InsertAlert(t) ==
    /\ ~t.inserted
    /\ triggers' = (triggers \ {t}) \cup {[t EXCEPT !.inserted = TRUE]}
    /\ rows' = [rows EXCEPT ![t.key] = @ + 1]
    /\ written' = written \cup {t.key}
    /\ UNCHANGED <<mounted, tabs, requests, runs, condition, triggeringKey, triggeredKeys, pressed,
                   crossed>>

TriggerEnds(t) ==
    /\ triggers' = triggers \ {t}
    /\ triggeringKey' = NoKey
    /\ UNCHANGED <<mounted, tabs, requests, runs, condition, pressed, rows, written>>

Triggered(t) ==
    /\ t.inserted
    /\ TriggerEnds(t)
    /\ triggeredKeys' = triggeredKeys \cup {t.key}
    /\ UNCHANGED crossed

TriggerFails(t) ==
    /\ TriggerEnds(t)
    /\ crossed' = (crossed \/ t.inserted)
    /\ UNCHANGED triggeredKeys

Next ==
    \/ \E t \in {"run", "dry"} :
          \E cs \in SUBSET Collectors, is \in SUBSET Instances : Run(t, cs, is)
    \/ \E r \in requests :
          \/ \E pair \in Pairs, answered \in BOOLEAN : RunPair(r, pair, answered)
          \/ Answered(r) \/ RunFails(r)
    \/ \E pair \in Pairs : ConditionChanges(pair) \/ TriggerAlert(pair)
    \/ \E t \in triggers : InsertAlert(t) \/ Triggered(t) \/ TriggerFails(t)

Spec == Init /\ [][Next]_vars

-----------------------------------------------------------------------------
(* "All collectors passed" is said only of a run whose every collector came *)
(* back from every instance and met no condition, whatever was selected     *)
(* since; as far as collectors report that they could not look.             *)
AllClearIsTrue ==
    NoAlertsShown =>
        \A pair \in tabs["dry"].ran :
            \E r \in tabs["dry"].results :
                r.pair = pair /\ (pair[2] \in Reporting => r.outcome = "clean" /\ ~r.met)

(* The results on a tab are those of its last run, complete.                *)
ResultsAreOfLastRun ==
    \A t \in {"run", "dry"} :
        tabs[t].results # {} => {r.pair : r \in tabs[t].results} = tabs[t].ran

(* An alert marked as triggered has been written, and it is written once    *)
(* for a dry run; unless two triggers were under way at once (one button is *)
(* remembered: to press another, or the end of either, enables it again) or *)
(* an answer was lost.                                                      *)
TriggersWriteOnce ==
    /\ triggeredKeys \subseteq written
    /\ ~crossed => \A pair \in Pairs : rows[pair] <= 1

(* The buttons that are disabled have a request under way.                  *)
ButtonsReturn ==
    /\ \A t \in {"run", "dry"} : tabs[t].running <=> \E r \in requests : r.tab = t
    /\ triggeringKey # NoKey => \E t \in triggers : t.key = triggeringKey
=============================================================================
