------------------------------ MODULE Schedules ------------------------------
(***************************************************************************)
(* Collectors that run on a schedule: the list of schedules in the view     *)
(* (web/frontend/src/views/RunCheck.tsx), the server's store of them        *)
(* (internal/web/schedule.go) and the runner (cmd/ch-analyzer/main.go), a   *)
(* loop that looks every 30 seconds which schedules are due and starts a    *)
(* goroutine for each one that is not running.  Of time, only whether a     *)
(* schedule's interval has passed since its last run matters.  Files and    *)
(* restarts are PersistentStore's part.                                     *)
(***************************************************************************)
EXTENDS Naturals

CONSTANTS
    Ids,         \* schedules there may ever be
    MaxRequests  \* bound: requests of the view

ConstantsOK == MaxRequests \in Nat

VARIABLES
    entries,   \* the store
    elapsed,   \* an interval has passed since the schedule's last run
    due,       \* what is left of the list the runner has got
    run,       \* what the goroutine of a schedule does
    schedules, \* the view's list
    requests, asked, schedLoading,
    stale,     \* history: a schedule in `due` was run, switched off or deleted since it was read
    outdated   \* history: the list may not be what the store holds

runner == <<due, run>>
view == <<schedules, requests, asked, schedLoading>>
vars == <<entries, elapsed, runner, view, stale, outdated>>

States == {"absent", "off", "on"}
NotRead == <<>>

Request ==
    [ nr : 1 .. MaxRequests, kind : {"list", "set", "delete", "create", "relist"},
      id : Ids, to : States, handled : BOOLEAN, answer : {NotRead} \cup {<<e>> : e \in [Ids -> States]} ]

TypeOK ==
    /\ entries \in [Ids -> States] /\ elapsed \subseteq Ids
    /\ due \subseteq Ids /\ run \in [Ids -> {"idle", "collecting", "recorded"}]
    /\ schedules \in [Ids -> States]
    /\ requests \subseteq Request /\ asked \in 0 .. MaxRequests /\ schedLoading \in BOOLEAN
    /\ stale \subseteq Ids /\ outdated \in BOOLEAN

Ask(k, i, to) ==
    [nr |-> asked + 1, kind |-> k, id |-> i, to |-> to, handled |-> FALSE, answer |-> NotRead]

Send(open, k, i, to) ==
    /\ asked < MaxRequests /\ asked' = asked + 1
    /\ requests' = open \cup {Ask(k, i, to)}

(* The view asks for the list at its mount.                                 *)
Init ==
    /\ entries \in [Ids -> States] /\ elapsed = {}
    /\ due = {} /\ run = [i \in Ids |-> "idle"]
    /\ schedules = [i \in Ids |-> "absent"]
    /\ requests = {} /\ asked = 0 /\ schedLoading = FALSE
    /\ stale = {} /\ outdated = TRUE

-----------------------------------------------------------------------------
(* The runner                                                               *)

TimePasses(i) ==
    /\ entries[i] # "absent" /\ i \notin elapsed
    /\ elapsed' = elapsed \cup {i}
    /\ UNCHANGED <<entries, runner, view, stale, outdated>>

Due == {i \in Ids : entries[i] = "on" /\ i \in elapsed}

Tick ==
    /\ due = {} /\ Due # {}
    /\ due' = Due /\ stale' = {}
    /\ UNCHANGED <<entries, elapsed, run, view, outdated>>

InFlightUntilRecorded(i) == run[i] = "collecting"                   \* mutant

(* LoadOrStore: one whose run is not over is passed over.                   *)
InFlight(i) == run[i] # "idle"

Start(i) ==
    /\ i \in due /\ due' = due \ {i}
    /\ run' = [run EXCEPT ![i] = IF InFlight(i) THEN @ ELSE "collecting"]
    /\ UNCHANGED <<entries, elapsed, view, stale, outdated>>

(* The collector is done, or has failed: UpdateLastRun, if the schedule is  *)
(* still there.                                                             *)
Record(i) ==
    /\ run[i] = "collecting"
    /\ elapsed' = elapsed \ {i}
    /\ run' = [run EXCEPT ![i] = "recorded"]
    /\ stale' = stale \cup (due \cap {i})
    /\ UNCHANGED <<entries, due, view, outdated>>

(* The deferred Delete of the in-flight mark.                               *)
Finish(i) ==
    /\ run[i] = "recorded"
    /\ run' = [run EXCEPT ![i] = "idle"]
    /\ UNCHANGED <<entries, elapsed, due, view, stale, outdated>>

-----------------------------------------------------------------------------
(* The view.  The switch asks for the opposite of what the row shows.       *)

SetEnabled(i) ==
    /\ schedules[i] # "absent"
    /\ Send(requests, "set", i, IF schedules[i] = "on" THEN "off" ELSE "on")
    /\ UNCHANGED <<entries, elapsed, runner, schedules, schedLoading, stale, outdated>>

DeleteSchedule(i) ==
    /\ schedules[i] # "absent"
    /\ Send(requests, "delete", i, "absent")
    /\ UNCHANGED <<entries, elapsed, runner, schedules, schedLoading, stale, outdated>>

(* A schedule's id is a new one: nothing is left of the one before.         *)
Create(i) ==
    /\ ~schedLoading /\ entries[i] = "absent" /\ run[i] = "idle" /\ i \notin due
    /\ ~\E r \in requests : r.kind = "create"
    /\ Send(requests, "create", i, "on")
    /\ schedLoading' = TRUE
    /\ UNCHANGED <<entries, elapsed, runner, schedules, stale, outdated>>

loadSchedules ==
    /\ asked = 0
    /\ \E i \in Ids : Send(requests, "list", i, "absent")
    /\ UNCHANGED <<entries, elapsed, runner, schedules, schedLoading, stale, outdated>>

(* Add, Delete, SetEnabled: the latter two if the schedule is there.        *)
Handle(r) ==
    /\ r.kind \in {"set", "delete", "create"} /\ ~r.handled
    /\ (entries[r.id] = "absent") = (r.kind = "create")
    /\ entries' = [entries EXCEPT ![r.id] = r.to]
    /\ elapsed' = IF r.to = "absent" THEN elapsed \ {r.id} ELSE elapsed
    /\ requests' = (requests \ {r}) \cup {[r EXCEPT !.handled = TRUE]}
    /\ stale' = IF r.to = "on" THEN stale ELSE stale \cup (due \cap {r.id})
    /\ UNCHANGED <<runner, schedules, asked, schedLoading, outdated>>

List(r) ==
    /\ r.kind \in {"list", "relist"} /\ ~r.handled
    /\ requests' = (requests \ {r}) \cup {[r EXCEPT !.handled = TRUE, !.answer = <<entries>>]}
    /\ UNCHANGED <<entries, elapsed, runner, schedules, asked, schedLoading, stale, outdated>>

(* Each change that is answered is followed by a list.                      *)
Changed(r) ==
    /\ r.kind \in {"set", "delete", "create"} /\ r.handled
    /\ Send(requests \ {r}, IF r.kind = "create" THEN "relist" ELSE "list", r.id, "absent")
    /\ UNCHANGED <<entries, elapsed, runner, schedules, schedLoading, stale, outdated>>

Listed(r) ==
    /\ r.kind \in {"list", "relist"} /\ r.handled
    /\ requests' = requests \ {r}
    /\ schedules' = r.answer[1]
    /\ schedLoading' = (schedLoading /\ r.kind # "relist")
    /\ outdated' = (r.answer[1] # entries)
    /\ UNCHANGED <<entries, elapsed, runner, asked, stale>>

FailsWhileAdding(r) ==                                              \* mutant
    /\ requests' = requests \ {r}
    /\ outdated' = (outdated \/ r.handled \/ r.kind \in {"list", "relist"})
    /\ UNCHANGED <<entries, elapsed, runner, schedules, asked, schedLoading, stale>>

(* Refused or not answered, and nobody is told, except of a creation.       *)
Fails(r) ==
    /\ requests' = requests \ {r}
    /\ schedLoading' = (schedLoading /\ r.kind \notin {"create", "relist"})
    /\ outdated' = (outdated \/ r.handled \/ r.kind \in {"list", "relist"})
    /\ UNCHANGED <<entries, elapsed, runner, schedules, asked, stale>>

Next ==
    \/ Tick \/ loadSchedules
    \/ \E i \in Ids :
          \/ TimePasses(i) \/ Start(i) \/ Record(i) \/ Finish(i)
          \/ SetEnabled(i) \/ DeleteSchedule(i) \/ Create(i)
    \/ \E r \in requests : Handle(r) \/ List(r) \/ Changed(r) \/ Listed(r) \/ Fails(r)

Spec == Init /\ [][Next]_vars

-----------------------------------------------------------------------------
(* A schedule is run when it is on and its interval has passed since the    *)
(* end of its last run, and not again while that one is under way; except   *)
(* that one which was read as due, and then ended a run, was switched off   *)
(* or deleted before its turn, is started all the same.                     *)
StartsAreDue ==
    \A i \in Ids : run'[i] = "collecting" /\ run[i] # "collecting" =>
        run[i] = "idle" /\ (i \in Due \/ i \in stale)

RunsAreDue == [][StartsAreDue]_vars

(* Once every request is answered the list shows the store, unless its last *)
(* read failed or came late, or a change was not answered.                  *)
ListShowsTheStore == requests = {} /\ ~outdated => schedules = entries

(* The button that adds a schedule has a request to wait for.               *)
AddButtonReturns == schedLoading => \E r \in requests : r.kind \in {"create", "relist"}
===============================================================================
