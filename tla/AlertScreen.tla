----------------------------- MODULE AlertScreen -----------------------------
(***************************************************************************)
(* The alerts view of the dashboard (views/Alerts.tsx): the active alerts   *)
(* and the history are read by two requests in parallel, on a refresh tick, *)
(* a change of range or instance, and after the user has resolved alerts,   *)
(* one, the selected ones, or the stale ones.  A load is cancelled by the   *)
(* next one; the reads after a resolve are not.  An alert that is resolved  *)
(* stays so on the server: when it fires again, that is another alert.      *)
(***************************************************************************)
EXTENDS Naturals, FiniteSets, Sequences

CONSTANTS
    Alerts,
    MaxResolves \* bound: resolve operations

ConstantsOK == MaxResolves \in Nat

Statuses == {"absent", "firing", "resolved"}
NotYet == <<>> \* else <<answer>>

VARIABLES
    server,     \* the alerts as the server knows them
    active,     \* activeAlerts
    history,    \* historyAlerts
    load,       \* the load that has not been cancelled, if there is one
    ops,        \* resolve operations under way
    begun,      \* resolve operations so far
    busy,       \* loading or refreshing
    resolvingRef,
    skipped,    \* history: the last run of the effect returned early
    settled,    \* history: alerts whose resolve operation has ended well
    overtaken,  \* history: a read from before such an operation came after it
    told        \* history: what a toast said was resolved

screen == <<active, history>>
past == <<skipped, settled, overtaken, told>>
vars == <<server, screen, load, ops, begun, busy, resolvingRef, past>>

(* Two requests; `since`: settled when they were sent.                      *)
Reading ==
    [ active  : {NotYet} \cup {<<s>> : s \in SUBSET Alerts},
      history : {NotYet} \cup {<<h>> : h \in [Alerts -> Statuses]},
      since   : SUBSET Alerts ]

(* todo: whose resolve has not been answered; failed: one was refused.      *)
Op ==
    [ kind : {"one", "selected", "stale"}, keys : SUBSET Alerts, todo : SUBSET Alerts,
      failed : BOOLEAN, reading : Reading ]

TypeOK ==
    /\ server \in [Alerts -> Statuses]
    /\ active \subseteq Alerts /\ history \in [Alerts -> Statuses]
    /\ load \in {<<>>} \cup {<<r>> : r \in Reading}
    /\ ops \subseteq Op /\ begun \in 0 .. MaxResolves
    /\ busy \in BOOLEAN /\ resolvingRef \in BOOLEAN
    /\ skipped \in BOOLEAN /\ settled \subseteq Alerts /\ overtaken \in BOOLEAN /\ told \subseteq Alerts

Sent == [active |-> NotYet, history |-> NotYet, since |-> settled]

(* The effect at the mount.                                                 *)
Init ==
    /\ server \in [Alerts -> {"absent", "firing"}]
    /\ active = {} /\ history = [a \in Alerts |-> "absent"]
    /\ load = <<[active |-> NotYet, history |-> NotYet, since |-> {}]>>
    /\ ops = {} /\ begun = 0
    /\ busy = TRUE /\ resolvingRef = FALSE
    /\ skipped = FALSE /\ settled = {} /\ overtaken = FALSE /\ told = {}

-----------------------------------------------------------------------------
(* allAlerts: the active ones, then those of the history with another id.   *)
Shown(a) == IF a \in active THEN "firing" ELSE history[a]

(* The server answers one of the two requests.                              *)
Reads(r) ==
    LET now == {a \in Alerts : server[a] = "firing"}
    IN (IF r.active = NotYet THEN {[r EXCEPT !.active = <<now>>]} ELSE {})
       \cup (IF r.history = NotYet THEN {[r EXCEPT !.history = <<server>>]} ELSE {})

Complete(r) == r.active # NotYet /\ r.history # NotYet

(* setActiveAlerts, setHistoryAlerts.                                       *)
Put(r) ==
    /\ active' = r.active[1] /\ history' = r.history[1]
    /\ overtaken' = (overtaken \/ ~(settled \subseteq r.since))

(* The effect runs again: the load before it is cancelled; not while the    *)
(* stale alerts are being resolved.                                         *)
Tick ==
    /\ IF resolvingRef
       THEN load' = <<>> /\ skipped' = TRUE /\ UNCHANGED busy
       ELSE load' = <<Sent>> /\ skipped' = FALSE /\ busy' = TRUE
    /\ UNCHANGED <<server, screen, ops, begun, resolvingRef, settled, overtaken, told>>

LoadReads ==
    /\ load # <<>>
    /\ \E r \in Reads(load[1]) : load' = <<r>>
    /\ UNCHANGED <<server, screen, ops, begun, busy, resolvingRef, past>>

LoadEnds ==
    /\ load # <<>> /\ Complete(load[1])
    /\ Put(load[1])
    /\ load' = <<>> /\ busy' = FALSE
    /\ UNCHANGED <<server, ops, begun, resolvingRef, skipped, settled, told>>

(* loadError: the alerts that are shown stay.                               *)
LoadFails ==
    /\ load # <<>>
    /\ load' = <<>> /\ busy' = FALSE
    /\ UNCHANGED <<server, screen, ops, begun, resolvingRef, past>>

-----------------------------------------------------------------------------
Begin(kind, keys) ==
    /\ begun < MaxResolves /\ begun' = begun + 1
    /\ ops' = ops \cup {[kind |-> kind, keys |-> keys, todo |-> keys, failed |-> FALSE, reading |-> Sent]}
    /\ UNCHANGED <<server, screen, load, busy, past>>

(* handleResolveAlert: not twice at a time for the same alert.              *)
Resolve(a) ==
    /\ Shown(a) = "firing"
    /\ ~\E o \in ops : o.kind = "one" /\ o.keys = {a}
    /\ Begin("one", {a})
    /\ UNCHANGED resolvingRef

(* bulkResolveSelected: those of the selected alerts that the filters let   *)
(* through; its button is disabled while it runs.                           *)
ResolveSelected(keys) ==
    /\ \A a \in keys : Shown(a) # "absent"
    /\ ~\E o \in ops : o.kind = "selected"
    /\ Begin("selected", keys)
    /\ UNCHANGED resolvingRef

(* handleResolveStale: which alerts are stale is the server's decision.     *)
ResolveStale(keys) ==
    /\ keys # {} /\ keys \subseteq {a \in Alerts : server[a] = "firing"} /\ ~resolvingRef
    /\ Begin("stale", keys)
    /\ resolvingRef' = TRUE

Becomes(o, p) == ops' = (ops \ {o}) \cup {p}

(* The answer to one of its requests; those of the selected alerts go out   *)
(* in parallel, that for the stale ones is one.                             *)
Resolved(o, keys) ==
    /\ keys # {} /\ keys \subseteq o.todo /\ IF o.kind = "stale" THEN keys = o.todo ELSE Cardinality(keys) = 1
    /\ server' = [a \in Alerts |-> IF a \in keys THEN "resolved" ELSE server[a]]
    /\ Becomes(o, [o EXCEPT !.todo = @ \ keys, !.reading = Sent])
    /\ UNCHANGED <<screen, load, begun, busy, resolvingRef, past>>

(* Promise.all: when one is refused, the rest goes on, but nothing is read, *)
(* and the handler ends with an error.                                      *)
Refused(o) ==
    /\ o.todo # {} /\ ~o.failed
    /\ IF o.kind = "selected" THEN Becomes(o, [o EXCEPT !.failed = TRUE]) ELSE ops' = ops \ {o}
    /\ resolvingRef' = (resolvingRef /\ o.kind # "stale")
    /\ UNCHANGED <<server, screen, load, begun, busy, past>>

(* The last of the requests that went on is answered, or not.               *)
FailedOpEnds(o) ==
    /\ o.failed
    /\ ops' = ops \ {o}
    /\ UNCHANGED <<server, screen, load, begun, busy, resolvingRef, past>>

OpReads(o) ==
    /\ o.todo = {} /\ ~o.failed
    /\ \E r \in Reads(o.reading) : Becomes(o, [o EXCEPT !.reading = r])
    /\ UNCHANGED <<server, screen, load, begun, busy, resolvingRef, past>>

OpEnds(o) ==
    /\ o.todo = {} /\ ~o.failed /\ Complete(o.reading)
    /\ Put(o.reading)
    /\ settled' = settled \cup o.keys /\ told' = told \cup o.keys
    /\ resolvingRef' = (resolvingRef /\ o.kind # "stale")
    /\ ops' = ops \ {o}
    /\ UNCHANGED <<server, load, begun, busy, skipped>>

OpReadFails(o) ==
    /\ o.todo = {} /\ ~o.failed
    /\ ops' = ops \ {o}
    /\ resolvingRef' = (resolvingRef /\ o.kind # "stale")
    /\ UNCHANGED <<server, screen, load, begun, busy, past>>

-----------------------------------------------------------------------------
(* The monitor opens an alert, or resolves one.                             *)
ServerChanges(a) ==
    /\ server' = [server EXCEPT ![a] = CASE @ = "absent" -> "firing" [] OTHER -> "resolved"]
    /\ UNCHANGED <<screen, load, ops, begun, busy, resolvingRef, past>>

Next ==
    \/ Tick
    \/ LoadReads \/ LoadEnds \/ LoadFails
    \/ \E a \in Alerts : Resolve(a) \/ ServerChanges(a)
    \/ \E keys \in SUBSET Alerts : ResolveSelected(keys) \/ ResolveStale(keys)
    \/ \E o \in ops : \/ \E keys \in SUBSET o.todo : Resolved(o, keys)
                      \/ Refused(o) \/ FailedOpEnds(o) \/ OpReads(o) \/ OpEnds(o) \/ OpReadFails(o)

Spec == Init /\ [][Next]_vars

-----------------------------------------------------------------------------
(* What the user has resolved, and was told is resolved, does not come back *)
(* on the screen as firing, in whatever order load, resolves and the       *)
(* monitor's own changes run; except by a read that was sent before the     *)
(* resolve and answered after it, which nothing cancels.                    *)
ResolvedStaysOff == ~overtaken => \A a \in settled : Shown(a) # "firing"

(* A toast that alerts were resolved is true of each of them, also when one *)
(* of the selected ones was refused.                                        *)
ToldIsDone == \A a \in told : server[a] = "resolved"

(* The view says it is refreshing only while a load is under way; unless    *)
(* the load was cancelled by a run of the effect that then returned early.  *)
RefreshingEnds == busy /\ ~skipped => load # <<>>
=============================================================================
