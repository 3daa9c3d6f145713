--------------------------- MODULE MaintenanceView ---------------------------
(***************************************************************************)
(* The maintenance windows of the dashboard (views/Maintenance.tsx) with    *)
(* the server's handlers and store (web/maintenance.go, alerter/            *)
(* maintenance.go).  The list is read at the mount, every 30 seconds, by a  *)
(* button, and after a window was created or deleted; nothing cancels a     *)
(* read.  A window is extended by an answer to the browser's own arithmetic.*)
(***************************************************************************)
EXTENDS Naturals

CONSTANTS
    MaxWindows,  \* bound: windows created
    MaxTime,     \* bound: the clock
    MaxRequests  \* bound: requests of the view

ConstantsOK == MaxWindows \in Nat /\ MaxTime \in Nat /\ MaxRequests \in Nat \ {0}

VARIABLES
    now,
    ends,       \* the store: window -> its end, or 0
    windows,    \* the view's list, alike
    created,    \* windows so far
    requests, asked,
    loading, refreshing, submitting, extending, \* the view's spinners
    confirmDeleteId,
    told,       \* history: windows the view has extended on its own since the last read
    outdated    \* history: the last list was out of date when it came, or a change may be unknown

view == <<windows, loading, refreshing, submitting, extending, confirmDeleteId>>
store == <<now, ends, created>>
past == <<told, outdated>>
vars == <<view, store, requests, asked, past>>

Ids == 1 .. MaxWindows
Ends == [Ids -> 0 .. MaxTime + 1]
NotRead == <<>>

Request ==
    [ nr : 1 .. MaxRequests, kind : {"load", "create", "reload", "delete", "extend"},
      id : 0 .. MaxWindows, end : 0 .. MaxTime + 1, handled : BOOLEAN,
      answer : {NotRead} \cup {<<e>> : e \in Ends} ]

TypeOK ==
    /\ now \in 0 .. MaxTime /\ created \in 0 .. MaxWindows
    /\ ends \in Ends /\ windows \in Ends
    /\ requests \subseteq Request /\ asked \in 0 .. MaxRequests
    /\ {loading, refreshing, submitting, extending} \subseteq BOOLEAN
    /\ confirmDeleteId \in 0 .. MaxWindows
    /\ told \subseteq Ids /\ outdated \in BOOLEAN

Ask(k, i, e) ==
    [nr |-> asked + 1, kind |-> k, id |-> i, end |-> e, handled |-> FALSE, answer |-> NotRead]

NoWindow == [i \in Ids |-> 0]

Init ==
    /\ now = 0 /\ ends = NoWindow /\ created = 0
    /\ windows = NoWindow
    /\ loading = TRUE
    /\ refreshing = FALSE /\ submitting = FALSE /\ extending = FALSE /\ confirmDeleteId = 0
    /\ asked = 1
    /\ requests = {[nr |-> 1, kind |-> "load", id |-> 0, end |-> 0, handled |-> FALSE,
                    answer |-> NotRead]}
    /\ told = {} /\ outdated = FALSE

-----------------------------------------------------------------------------
(* The view                                                                 *)

Send(k, i, e) ==
    /\ asked < MaxRequests
    /\ asked' = asked + 1
    /\ requests' = requests \cup {Ask(k, i, e)}

(* The interval, or the Refresh button, which is disabled while it turns.   *)
load(isManual) ==
    /\ isManual => ~refreshing
    /\ Send("load", 0, 0)
    /\ refreshing' = (refreshing \/ isManual)
    /\ UNCHANGED <<windows, loading, submitting, extending, confirmDeleteId, store, past>>

handleCreate ==
    /\ ~submitting
    /\ Send("create", 0, 0)
    /\ submitting' = TRUE
    /\ UNCHANGED <<windows, loading, refreshing, extending, confirmDeleteId, store, past>>

activeWindows == {i \in Ids : windows[i] > now}

(* The buttons of a row.  An extension asks for what the row shows, plus    *)
(* the extra time.                                                          *)
handleExtend(i) ==
    /\ ~loading /\ ~extending /\ i \in activeWindows /\ windows[i] <= MaxTime
    /\ Send("extend", i, windows[i] + 1)
    /\ extending' = TRUE
    /\ UNCHANGED <<windows, loading, refreshing, submitting, confirmDeleteId, store, past>>

EndNow(i) ==
    /\ ~loading /\ i \in activeWindows
    /\ confirmDeleteId' = i
    /\ UNCHANGED <<windows, loading, refreshing, submitting, extending, store, requests, asked, past>>

Confirm ==
    /\ confirmDeleteId # 0
    /\ Send("delete", confirmDeleteId, 0)
    /\ confirmDeleteId' = 0
    /\ UNCHANGED <<windows, loading, refreshing, submitting, extending, store, past>>

Cancel ==
    /\ confirmDeleteId # 0
    /\ confirmDeleteId' = 0
    /\ UNCHANGED <<windows, loading, refreshing, submitting, extending, store, requests, asked, past>>

-----------------------------------------------------------------------------
(* The server                                                               *)

Handled(r) == (requests \ {r}) \cup {[r EXCEPT !.handled = TRUE]}

(* handleMaintenanceList: the windows that have not ended.                  *)
List(r) ==
    /\ r.kind \in {"load", "reload"} /\ ~r.handled
    /\ requests' = (requests \ {r}) \cup
           {[r EXCEPT !.handled = TRUE,
                      !.answer = <<[i \in Ids |-> IF ends[i] > now THEN ends[i] ELSE 0]>>]}
    /\ UNCHANGED <<view, store, asked, past>>

handleMaintenanceCreate(r, end) ==
    /\ r.kind = "create" /\ ~r.handled
    /\ created < MaxWindows /\ end > now
    /\ created' = created + 1
    /\ ends' = [ends EXCEPT ![created'] = end]
    /\ requests' = Handled(r)
    /\ UNCHANGED <<now, view, asked, past>>

(* The fields of a PUT request that Update would change are "instance",     *)
(* "reason" and "duration_minutes"; the view sends "end_time", which the    *)
(* decoder ignores: the window is found and keeps its end.                  *)
Update(r) == ends

handleMaintenanceUpdate(r) ==
    /\ r.kind = "extend" /\ ~r.handled /\ ends[r.id] # 0
    /\ ends' = Update(r)
    /\ requests' = Handled(r)
    /\ UNCHANGED <<now, created, view, asked, past>>

handleMaintenanceDelete(r) ==
    /\ r.kind = "delete" /\ ~r.handled /\ ends[r.id] # 0
    /\ ends' = [ends EXCEPT ![r.id] = 0]
    /\ requests' = Handled(r)
    /\ UNCHANGED <<now, created, view, asked, past>>

(* A poll of the instances drops the windows that have ended.               *)
Tick ==
    /\ now < MaxTime
    /\ now' = now + 1
    /\ ends' = [i \in Ids |-> IF ends[i] > now' THEN ends[i] ELSE 0]
    /\ UNCHANGED <<created, view, requests, asked, past>>

-----------------------------------------------------------------------------
(* The answers                                                              *)

Loaded(r, list) ==
    /\ windows' = list
    /\ loading' = FALSE /\ refreshing' = FALSE
    /\ submitting' = (submitting /\ r.kind # "reload")
    /\ told' = {}

ListAnswered(r) ==
    /\ r.kind \in {"load", "reload"} /\ r.handled
    /\ requests' = requests \ {r}
    /\ Loaded(r, r.answer[1])
    /\ outdated' = \E i \in Ids : r.answer[1][i] # ends[i]
    /\ UNCHANGED <<extending, confirmDeleteId, store, asked>>

(* A list that cannot be read is shown as an empty one.                     *)
ListFailed(r) ==
    /\ r.kind \in {"load", "reload"}
    /\ requests' = requests \ {r}
    /\ Loaded(r, NoWindow)
    /\ outdated' = TRUE
    /\ UNCHANGED <<extending, confirmDeleteId, store, asked>>

(* `await load()`: the button stays disabled until the list is there.       *)
Created(r) ==
    /\ r.kind = "create" /\ r.handled
    /\ asked < MaxRequests /\ asked' = asked + 1
    /\ requests' = (requests \ {r}) \cup {Ask("reload", 0, 0)}
    /\ UNCHANGED <<view, store, past>>

Deleted(r) ==
    /\ r.kind = "delete" /\ r.handled
    /\ asked < MaxRequests /\ asked' = asked + 1
    /\ requests' = (requests \ {r}) \cup {Ask("load", 0, 0)}
    /\ UNCHANGED <<view, store, past>>

(* "Extended by 1h", and the row is changed accordingly.                    *)
Extended(r) ==
    /\ r.kind = "extend" /\ r.handled
    /\ requests' = requests \ {r}
    /\ extending' = FALSE
    /\ IF windows[r.id] # 0
       THEN windows' = [windows EXCEPT ![r.id] = r.end] /\ told' = told \cup {r.id}
       ELSE UNCHANGED <<windows, told>>
    /\ UNCHANGED <<loading, refreshing, submitting, confirmDeleteId, store, asked, outdated>>

(* An error answer, or none in time, of a request that may have been        *)
(* handled all the same.                                                    *)
ChangeFailed(r) ==
    /\ r.kind \in {"create", "delete", "extend"}
    /\ requests' = requests \ {r}
    /\ submitting' = (submitting /\ r.kind # "create")
    /\ extending' = (extending /\ r.kind # "extend")
    /\ outdated' = (outdated \/ r.handled)
    /\ UNCHANGED <<windows, loading, refreshing, confirmDeleteId, store, asked, told>>

Next ==
    \/ \E isManual \in BOOLEAN : load(isManual)
    \/ handleCreate \/ Confirm \/ Cancel \/ Tick
    \/ \E i \in Ids : handleExtend(i) \/ EndNow(i)
    \/ \E r \in requests :
          \/ List(r) \/ handleMaintenanceUpdate(r) \/ handleMaintenanceDelete(r)
          \/ \E end \in 1 .. MaxTime : handleMaintenanceCreate(r, end)
          \/ ListAnswered(r) \/ ListFailed(r) \/ Created(r) \/ Deleted(r) \/ Extended(r)
          \/ ChangeFailed(r)

Spec == Init /\ [][Next]_vars

-----------------------------------------------------------------------------
(* Properties                                                               *)

(* Every spinner of the view has a request that will end it.                *)
ViewIsFreed ==
    /\ loading => \E r \in requests : r.kind = "load"
    /\ refreshing => \E r \in requests : r.kind = "load"
    /\ submitting <=> \E r \in requests : r.kind \in {"create", "reload"}
    /\ extending <=> \E r \in requests : r.kind = "extend"

(* Once every request is answered, the view lists the windows that are in   *)
(* force, all of them, unless its last read failed or was answered late:    *)
(* every change it makes is followed by a read.                             *)
ListIsInForce ==
    requests = {} /\ ~outdated =>
        \A i \in Ids \ told :
            windows[i] > now \/ ends[i] > now => windows[i] = ends[i]

===============================================================================
