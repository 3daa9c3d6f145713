----------------------------- MODULE MCReconcile -----------------------------
(***************************************************************************)
(* The reconcile loop on small instances.  `part` says which one runs.      *)
(* "orderly" and "by hand" have the variables of AlertManager: no second    *)
(* writer closes rows, inserts succeed, no query fails unreported and       *)
(* nothing crashes.  In the first one alert inhibits another; in the second *)
(* there is one alert, which users acknowledge and write by hand.  "faults", *)
(* with the variables below, is one alert under every fault, user and       *)
(* restart, without acknowledgments, which nothing there depends on.  What  *)
(* does not run stays in its initial state.                                 *)
(***************************************************************************)
EXTENDS MCAlertManager

OrderlyEvents == {"unreachable", "resolve", "suppress", "ack", "trigger"}

(* No user acknowledges or writes by hand.                                  *)
Orderly == acked' = {} /\ \A k \in Keys : told'[k] # "manual"

(* Nothing happens to the other alert.                                      *)
ByHand == LET still == Keys \ OneKey IN
    /\ \A k \in still : cond'[k] = None /\ rows'[k] = None
    /\ (snoozed' \cup {a.key : a \in acked'}) \cap still = {}

VARIABLES
    part,
    fCond, fRows, fRefreshed, fStale, fCleanChecks, fMaintenance, fSnoozed, fAcked, fIncidents,
    fPaged, fClearing, fPc, fCycle, fCleanStreak, fWasClear, fTold

faultVars == <<fCond, fRows, fRefreshed, fStale, fCleanChecks, fMaintenance, fSnoozed, fAcked,
               fIncidents, fPaged, fClearing, fPc, fCycle, fCleanStreak, fWasClear, fTold>>

Faulty == INSTANCE AlertManager WITH
    Keys <- OneKey, InstanceOf <- [k \in OneKey |-> CHOOSE i \in Instances : TRUE],
    CategoryOf <- [k \in OneKey |-> k], SeveritiesOf <- [k \in OneKey |-> {"critical"}],
    ResolveCleanChecks <- 3, Environment <- Events \ {"ack"},
    cond <- fCond, rows <- fRows, refreshed <- fRefreshed, stale <- fStale,
    cleanChecks <- fCleanChecks, maintenance <- fMaintenance, snoozed <- fSnoozed,
    acked <- fAcked, incidents <- fIncidents, paged <- fPaged, clearing <- fClearing,
    pc <- fPc, cycle <- fCycle, cleanStreak <- fCleanStreak, wasClear <- fWasClear, told <- fTold

ReconcileInit == part \in {"orderly", "by hand", "faults"} /\ Init /\ Faulty!Init

ReconcileNext ==
    \/ part = "orderly" /\ Next /\ Orderly /\ UNCHANGED <<part, faultVars>>
    \/ part = "by hand" /\ Next /\ ByHand  /\ UNCHANGED <<part, faultVars>>
    \/ part = "faults"  /\ Faulty!Next     /\ UNCHANGED <<part, vars>>

reconcileVars == <<part, vars, faultVars>>

ReconcileSpec == ReconcileInit /\ [][ReconcileNext]_reconcileVars

(* What no fault, user or restart upsets: a resolve of the loop is earned   *)
(* by a full streak of clean, fully observed cycles, and a row closes by    *)
(* such a resolve, a user or the stale sweep only.                          *)
HoldsUnderFaults ==
    /\ [](Faulty!TypeOK /\ Faulty!CountersTrackCleanCycles /\ Faulty!ResolveNeedsCleanStreak)
    /\ Faulty!RowsCloseForAReason
=============================================================================
