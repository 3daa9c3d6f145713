----------------------------- MODULE AlertPanel ------------------------------
(***************************************************************************)
(* An alert opened in the dashboard (web/frontend/src/components/           *)
(* AlertDetailPanel.tsx), to acknowledge or to snooze it, with the store    *)
(* behind it (internal/alerter/ack.go or snooze.go, their handlers in       *)
(* internal/web).  The panel reads both lists at once and needs both; a     *)
(* behaviour is about one of the two, `kind`.  Of acknowledgments the store *)
(* keeps an index by key as well, which is left out: IsAcked and GetAck,    *)
(* which read it, have no caller.                                           *)
(*                                                                         *)
(* The files are PersistentStore's part, and what the manager does with a   *)
(* snooze or an acknowledgment AlertManager's.                              *)
(***************************************************************************)
EXTENDS Naturals, FiniteSets

CONSTANTS
    Keys,        \* dedup keys of open alerts
    MaxEntries,  \* bound: entries ever made
    MaxRequests  \* bound: lists and changes the panel asks for

ConstantsOK == MaxEntries \in Nat /\ MaxRequests \in Nat

VARIABLES
    kind,        \* "ack" or "snooze"
    store,       \* its entries
    made,        \* entries so far
    alert,       \* the key that the panel shows, Closed if there is none
    found,       \* the entry that the panel finds for a key, or None
    applied,     \* the latest list it has applied
    reloads,     \* lists ...
    changes,     \* ... and changes that are not answered
    asked,       \* lists and changes so far
    outdated     \* history: nothing tells the panel to read again what has changed

stores == <<kind, store, made>>
panel == <<alert, found, applied>>
requests == <<reloads, changes, asked>>
vars == <<stores, panel, requests, outdated>>

None == 0
Closed == "closed"
NotRead == <<>>

Entry == [id : 1 .. MaxEntries, key : Keys]
Found == [Keys -> 0 .. MaxEntries]

(* `waited`: for its answer, by a panel that is still open.                 *)
Change ==
    [ nr : 1 .. MaxRequests, op : {"create", "delete"}, key : Keys, id : 0 .. MaxEntries,
      answer : {"", "ok", "refused"}, waited : BOOLEAN ]

TypeOK ==
    /\ kind \in {"ack", "snooze"}
    /\ store \subseteq Entry /\ made \in 0 .. MaxEntries
    /\ alert \in Keys \cup {Closed} /\ found \in Found /\ applied \in 0 .. MaxRequests
    /\ reloads \subseteq [nr : 1 .. MaxRequests, seen : {NotRead} \cup Found]
    /\ changes \subseteq Change /\ asked \in 0 .. MaxRequests
    /\ outdated \in BOOLEAN

Of(k) == {e \in store : e.key = k}
Nowhere == [k \in Keys |-> None]

Init ==
    /\ kind \in {"ack", "snooze"}
    /\ store = {} /\ made = 0
    /\ alert = Closed /\ found = Nowhere /\ applied = 0
    /\ reloads = {} /\ changes = {} /\ asked = 0
    /\ outdated = FALSE

-----------------------------------------------------------------------------
(* The store                                                                *)

Add(k) ==
    /\ made < MaxEntries /\ made' = made + 1
    /\ store' = store \cup {[id |-> made', key |-> k]}
    /\ UNCHANGED kind

Delete(e) == store' = store \ {e} /\ UNCHANGED <<kind, made>>

(* The alert is resolved.                                                   *)
ClearForDedupKey(k) ==
    /\ kind = "ack" /\ Of(k) # {}
    /\ store' = store \ Of(k)
    /\ outdated' = TRUE
    /\ UNCHANGED <<kind, made, panel, requests>>

(* Other dashboards do as this one; the button of a Slack message           *)
(* acknowledges every alert of an instance, acknowledged or not; a snooze   *)
(* runs out.                                                                *)
ChangeElsewhere ==
    /\ (\E k \in Keys : Add(k)) \/ (\E e \in store : Delete(e))
    /\ outdated' = TRUE
    /\ UNCHANGED <<panel, requests>>

(* A list is in any order, and of several entries for a key any comes       *)
(* first.                                                                   *)
Orders ==
    {f \in Found : \A k \in Keys : IF Of(k) = {} THEN f[k] = None
                                   ELSE \E e \in Of(k) : f[k] = e.id}

-----------------------------------------------------------------------------
(* The panel                                                                *)

(* The effect on refreshTick, over the lists that are still under way.      *)
SendReload(open) ==
    /\ asked < MaxRequests /\ asked' = asked + 1
    /\ reloads' = open \cup {[nr |-> asked', seen |-> NotRead]}
    /\ outdated' = FALSE

(* The answers for the panel before, which is unmounted, go nowhere.        *)
Open(k) ==
    /\ alert = Closed /\ alert' = k
    /\ found' = Nowhere /\ applied' = 0
    /\ SendReload({})
    /\ UNCHANGED <<stores, changes>>

(* Enter, on the row the cursor is on: the panel stays mounted.             *)
Switch(k) ==
    /\ alert \notin {Closed, k} /\ alert' = k
    /\ UNCHANGED <<stores, found, applied, requests, outdated>>

Close ==
    /\ alert # Closed /\ alert' = Closed
    /\ reloads' = {}
    /\ changes' = {[c EXCEPT !.waited = FALSE] : c \in {d \in changes : d.answer = ""}}
    /\ UNCHANGED <<stores, found, applied, asked, outdated>>

(* handleSnooze, handleAck, handleUnsnooze, handleUnack: what is offered    *)
(* depends on whether an entry is found, not on what is under way.          *)
Ask ==
    /\ alert # Closed
    /\ asked < MaxRequests /\ asked' = asked + 1
    /\ changes' = changes \cup
          {[ nr |-> asked', op |-> IF found[alert] = None THEN "create" ELSE "delete",
             key |-> alert, id |-> found[alert], answer |-> "", waited |-> TRUE ]}
    /\ UNCHANGED <<stores, panel, reloads, outdated>>

-----------------------------------------------------------------------------
(* Requests                                                                 *)

Read(r) ==
    /\ r.seen = NotRead
    /\ \E f \in Orders : reloads' = (reloads \ {r}) \cup {[r EXCEPT !.seen = f]}
    /\ UNCHANGED <<stores, panel, changes, asked, outdated>>

(* Nothing keeps an earlier list from being applied after a later one.      *)
Reloaded(r) ==
    /\ r.seen # NotRead
    /\ reloads' = reloads \ {r}
    /\ found' = r.seen
    /\ applied' = IF r.nr > applied THEN r.nr ELSE applied
    /\ outdated' = (outdated \/ r.nr < applied)
    /\ UNCHANGED <<stores, alert, changes, asked>>

ReloadFails(r) ==
    /\ reloads' = reloads \ {r}
    /\ outdated' = TRUE
    /\ UNCHANGED <<stores, panel, changes, asked>>

Answer(c, a) ==
    changes' = (changes \ {c}) \cup (IF c.waited THEN {[c EXCEPT !.answer = a]} ELSE {})

(* The handlers: an entry that is not there is not found (404), though a    *)
(* snooze that has run out may be until it is pruned.                       *)
Handle(c) ==
    /\ c.answer = ""
    /\ LET e == [id |-> c.id, key |-> c.key] IN
          \/ c.op = "create" /\ Add(c.key) /\ Answer(c, "ok")
          \/ e \in store /\ Delete(e) /\ Answer(c, "ok")
          \/ /\ c.op = "delete" /\ e \notin store /\ UNCHANGED stores
             /\ Answer(c, "refused") \/ (kind = "snooze" /\ Answer(c, "ok"))
    /\ outdated' = (outdated \/ ~c.waited)
    /\ UNCHANGED <<panel, reloads, asked>>

ChangedUnread(c) ==                                                 \* mutant
    /\ c.answer = "ok"
    /\ changes' = changes \ {c}
    /\ UNCHANGED <<stores, panel, reloads, asked, outdated>>

(* The lists are read again.                                                *)
Changed(c) ==
    /\ c.answer = "ok"
    /\ changes' = changes \ {c}
    /\ SendReload(reloads)
    /\ UNCHANGED <<stores, panel>>

(* Refused or not answered, and nobody is told.  What has timed out may     *)
(* still be handled.                                                        *)
ChangeFails(c) ==
    /\ \/ changes' = changes \ {c}
       \/ c.answer = "" /\ changes' = (changes \ {c}) \cup {[c EXCEPT !.waited = FALSE]}
    /\ outdated' = (outdated \/ c.answer = "ok")
    /\ UNCHANGED <<stores, panel, reloads, asked>>

Next ==
    \/ \E k \in Keys : Open(k) \/ Switch(k) \/ ClearForDedupKey(k)
    \/ Close \/ Ask \/ ChangeElsewhere
    \/ \E r \in reloads : Read(r) \/ Reloaded(r) \/ ReloadFails(r)
    \/ \E c \in changes : Handle(c) \/ Changed(c) \/ ChangeFails(c)

Spec == Init /\ [][Next]_vars

-----------------------------------------------------------------------------
(* Nothing the open panel has asked for is under way, and it was told of    *)
(* every change.                                                            *)
Settled == alert # Closed /\ ~outdated /\ reloads = {} /\ \A c \in changes : ~c.waited

(* An open panel says of its alert whether it is acknowledged or snoozed,   *)
(* also after clicks that cross, a switch to another alert and answers for  *)
(* a panel that was closed; unless the change was made elsewhere, a request *)
(* failed, or the lists came in the wrong order.                            *)
PanelShowsTheStore == Settled => (found[alert] # None) = (Of(alert) # {})
=============================================================================
