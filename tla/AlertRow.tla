------------------------------- MODULE AlertRow -------------------------------
(***************************************************************************)
(* What the alerts table promises of one dedup key: a single row, although *)
(* nothing is ever updated in place.  Firings are numbered and follow one   *)
(* another; a firing begins when none is open, and once it is closed it     *)
(* stays closed.  Only a writer that writes what it read before another     *)
(* wrote, or that read nothing, may do anything else, and may leave the row *)
(* upset: readers then need not agree, or an old firing is open.  AlertTable *)
(* implements it with versioned rows, and AlertManager relies on it.        *)
(***************************************************************************)
EXTENDS Naturals

VARIABLES
    firing,  \* the newest firing there is, 0 if none
    status,  \* what it is, as readers see it
    racing   \* a writer is about to write on an outdated read, or on none

vars == <<firing, status, racing>>

Statuses == {"closed", "open", "upset"}

Init == firing = 0 /\ status = "closed" /\ racing = FALSE

Fire    == status = "closed" /\ status' = "open" /\ firing' > firing
Resolve == status = "open" /\ status' = "closed" /\ UNCHANGED firing

RacingWrite == racing /\ status' \in Statuses /\ firing' >= firing

(* An upset row is put right by a later write, a merge or the next start.   *)
Repair == status = "upset" /\ status' \in Statuses /\ firing' >= firing

Read == UNCHANGED <<firing, status>>

Next == /\ Fire \/ Resolve \/ RacingWrite \/ Repair \/ Read
        /\ racing' \in BOOLEAN

Spec == Init /\ [][Next]_vars
===============================================================================
