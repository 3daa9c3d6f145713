--------------------------- MODULE AlertLifecycle ---------------------------
(***************************************************************************)
(* What the alert manager promises of an alert, from the row that records  *)
(* it to the end of what belongs to it.  A firing is recorded once, either *)
(* for an announcement or silently; it is announced once, which may page   *)
(* PagerDuty; it closes only after its announcement and takes the          *)
(* acknowledgments of the alert and the incident with it, before the next  *)
(* one is recorded.  An alert can be acknowledged whether it fires or not, *)
(* and a user can write a firing by hand at any time, which is announced   *)
(* only if the loop was about to.  Of cycles, queries, counters, limiters  *)
(* and windows nothing is said here; AlertManager implements it.           *)
(***************************************************************************)
CONSTANT Keys

VARIABLES
    life,      \* [Keys -> where the alert is in its life]
    acked,     \* keys with an acknowledgment
    incidents  \* keys with an open PagerDuty incident

vars == <<life, acked, incidents>>

Init ==
    /\ life = [k \in Keys |-> "clear"]
    /\ acked = {}
    /\ incidents = {}

Becomes(k, stage) == life' = [life EXCEPT ![k] = stage]

Record(k) ==
    /\ life[k] \in {"clear", "manual"}
    /\ Becomes(k, "pending") \/ Becomes(k, "silent")
    /\ UNCHANGED <<acked, incidents>>

Announce(k) ==
    /\ life[k] \in {"pending", "manual"}
    /\ Becomes(k, "announced")
    /\ incidents' = incidents \cup {k} \/ UNCHANGED incidents
    /\ UNCHANGED acked

WriteByHand(k) ==
    /\ life[k] # "closing"
    /\ Becomes(k, "manual")
    /\ UNCHANGED <<acked, incidents>>

Acknowledge(k) ==
    /\ acked' = acked \cup {k}
    /\ UNCHANGED <<life, incidents>>

Close(k) ==
    /\ life[k] \in {"silent", "announced", "manual"}
    /\ Becomes(k, "closing")
    /\ UNCHANGED <<acked, incidents>>

(* A firing written by hand while another was closing stays.                *)
Settle(k) ==
    /\ life[k] = "closing"
    /\ Becomes(k, "clear") \/ Becomes(k, "manual")
    /\ acked' = acked \ {k}
    /\ incidents' = incidents \ {k}

Next == \E k \in Keys : \/ Record(k) \/ Announce(k) \/ WriteByHand(k)
                        \/ Acknowledge(k) \/ Close(k) \/ Settle(k)

Spec == Init /\ [][Next]_vars
=============================================================================
