------------------------- MODULE AlertManagerProofs -------------------------
(* Safety of the reconcile loop for every set of instances and keys, every  *)
(* rule set, threshold and environment.                                     *)
EXTENDS AlertManager, TLAPS

USE DEF streakVars

-----------------------------------------------------------------------------
(* The inductive invariant                                                  *)

(* Until the cycle accounts for what it saw, a missing alert of a trusted   *)
(* instance is one clean cycle ahead of its counter (or at the cap of the   *)
(* history variable): the step that Account is about to catch up with.      *)
StreakRunsAhead ==
    pc \in {"snapshot", "account"} =>
        \A k \in Keys : ~Observed(k) /\ InstanceOf[k] \in cycle.trusted =>
            cleanStreak[k] = ResolveCleanChecks \/ cleanChecks[k] < cleanStreak[k]

(* Work is queued by Account, and only for alerts this cycle observed.      *)
NothingQueuedYet ==
    pc \in {"idle", "snapshot", "account"} =>
        cycle.persist = {} /\ cycle.resolve = {} /\ cycle.closing = {}

PersistIsObserved == \A k \in cycle.persist : Observed(k)

IInv == /\ TypeOK
        /\ CountersTrackCleanCycles
        /\ ResolveNeedsCleanStreak
        /\ StreakRunsAhead
        /\ NothingQueuedYet
        /\ PersistIsObserved

-----------------------------------------------------------------------------
(* Type correctness                                                         *)

LEMMA TypeInit == Init => TypeOK
  BY ThresholdAssumption DEF Init, TypeOK, SeverityOrNone, NoCycle, CycleType

LEMMA TypeObserve ==
  ASSUME TypeOK, NEW untrusted \in SUBSET Instances, NEW lost \in SUBSET Keys,
         Observe(untrusted, lost)
  PROVE  TypeOK'
<1> DEFINE current == [k \in Keys |-> IF k \in lost THEN None ELSE cond[k]]
           trusted == Instances \ untrusted
<1>1. current \in [Keys -> SeverityOrNone]
  BY DEF TypeOK, SeverityOrNone
<1>2. cycle' \in CycleType
  BY <1>1 DEF Observe, TypeOK, CycleType, NoCycle, SeverityOrNone
<1>3. \A k \in Keys : Streak(k, current, trusted) \in 0 .. ResolveCleanChecks
  BY ThresholdAssumption DEF TypeOK, Streak
<1>4. cleanStreak' \in [Keys -> 0 .. ResolveCleanChecks]
  BY <1>3 DEF Observe
<1> QED
  BY <1>2, <1>4 DEF Observe, TypeOK, storeVars, userVars, pagerVars

LEMMA TypeSnapshot ==
  ASSUME TypeOK, NEW unread \in SUBSET Instances, Snapshot(unread)
  PROVE  TypeOK'
  BY DEF Snapshot, TypeOK, CycleType, SeverityOrNone, storeVars, userVars, pagerVars

LEMMA TypeAccount == TypeOK /\ Account => TypeOK'
<1> SUFFICES ASSUME TypeOK, Account PROVE TypeOK'
  OBVIOUS
<1>1. cycle' \in CycleType
  BY DEF Account, TypeOK, CycleType, Admitted, CleanEnough, Counted, Missing
<1>2. cleanChecks' \in [Keys -> 0 .. ResolveCleanChecks]
  BY ThresholdAssumption DEF Account, CountCleanChecks, TypeOK, CleanEnough
<1> QED
  BY <1>1, <1>2 DEF Account, TypeOK, storeVars, userVars, pagerVars

LEMMA TypeWrites ==
  ASSUME TypeOK, NEW k \in Keys,
         Insert(k) \/ ResolveRow(k) \/ ResolveFails(k) \/ AnnounceResolve(k) \/ Notify(k)
  PROVE  TypeOK'
<1>1. CASE Insert(k)
  BY <1>1 DEF Insert, TypeOK, CycleType, SeverityOrNone, storeVars, userVars, pagerVars
<1>2. CASE ResolveRow(k)
  BY <1>2 DEF ResolveRow, TypeOK, CycleType, SeverityOrNone, userVars, pagerVars
<1>3. CASE ResolveFails(k)
  BY <1>3 DEF ResolveFails, TypeOK, CycleType, storeVars, userVars, pagerVars
<1>4. CASE AnnounceResolve(k)
  BY <1>4 DEF AnnounceResolve, TypeOK, CycleType, storeVars
<1>5. CASE Notify(k)
  BY <1>5 DEF Notify, TypeOK, CycleType, SeverityOrNone, storeVars, userVars, pagerVars
<1> QED
  BY <1>1, <1>2, <1>3, <1>4, <1>5

LEMMA TypeRefresh == TypeOK /\ Refresh => TypeOK'
<1> SUFFICES ASSUME TypeOK, Refresh PROVE TypeOK'
  OBVIOUS
<1>1. \A k \in Keys : cycle.current[k] \in SeverityOrNone
  BY DEF TypeOK, CycleType
<1>2. rows' \in [Keys -> SeverityOrNone]
  BY <1>1 DEF Refresh, TypeOK
<1>3. refreshed' \subseteq Keys /\ stale' \subseteq Keys
  BY DEF Refresh, TypeOK, ToTouch
<1> QED
  BY <1>2, <1>3 DEF Refresh, TypeOK, userVars, pagerVars

LEMMA TypeReconcile == TypeOK /\ Reconcile => TypeOK'
<1> SUFFICES ASSUME TypeOK, Reconcile PROVE TypeOK'
  OBVIOUS
<1>1. CASE ResolvesDone
  BY <1>1 DEF ResolvesDone, TypeOK, storeVars, userVars, pagerVars
<1>2. CASE EndCycle
  BY <1>2 DEF EndCycle, TypeOK, NoCycle, CycleType, SeverityOrNone,
              storeVars, userVars, pagerVars
<1> QED
  BY <1>1, <1>2, TypeObserve, TypeSnapshot, TypeAccount, TypeWrites, TypeRefresh
     DEF Reconcile

LEMMA TypeOthers == TypeOK /\ Others => TypeOK'
<1> SUFFICES ASSUME TypeOK, Others PROVE TypeOK'
  OBVIOUS
<1>1. ASSUME NEW k \in Keys,
             ResolveFromDashboard(k) \/ ClearCleanChecks(k) \/ GrowStale(k)
      PROVE  TypeOK'
  BY <1>1, ThresholdAssumption
     DEF ResolveFromDashboard, ClearCleanChecks, GrowStale, TypeOK, SeverityOrNone,
         storeVars, userVars, pagerVars
<1>2. ASSUME NEW reached \in SUBSET Instances, SweepStale(reached)
      PROVE  TypeOK'
  BY <1>2 DEF SweepStale, TypeOK, SeverityOrNone, userVars, pagerVars
<1>3. ASSUME NEW i \in Instances, SetMaintenance(i)
      PROVE  TypeOK'
  BY <1>3 DEF SetMaintenance, TypeOK, storeVars, pagerVars
<1>4. ASSUME NEW k \in Keys, SetSnooze(k)
      PROVE  TypeOK'
  BY <1>4 DEF SetSnooze, TypeOK, storeVars, pagerVars
<1>8. ASSUME NEW k \in Keys, Acknowledge(k)
      PROVE  TypeOK'
  <2>1. Open(k) \in BOOLEAN
    BY DEF Open
  <2>2. acked' \subseteq [key : Keys, whileOpen : BOOLEAN]
    BY <1>8, <2>1 DEF Acknowledge, TypeOK
  <2> QED
    BY <1>8, <2>2 DEF Acknowledge, TypeOK, storeVars, pagerVars
<1>5. ASSUME NEW k \in Keys, ConditionChanges(k) \/ PageGapElapses(k)
      PROVE  TypeOK'
  BY <1>5, KeysAssumption
     DEF ConditionChanges, PageGapElapses, TypeOK, SeverityOrNone,
         storeVars, userVars, pagerVars
<1>6. CASE Restart
  BY <1>6, ThresholdAssumption
     DEF Restart, TypeOK, NoCycle, CycleType, SeverityOrNone, storeVars, userVars
<1>7. ASSUME NEW k \in Keys, Trigger(k)
      PROVE  TypeOK'
  <2>1. rows' \in [Keys -> SeverityOrNone]
    <3>1. PICK severity \in SeveritiesOf[k] : rows' = [rows EXCEPT ![k] = severity]
      BY <1>7 DEF Trigger
    <3>2. severity \in SeverityOrNone
      BY KeysAssumption DEF SeverityOrNone
    <3> QED
      BY <3>1, <3>2 DEF TypeOK
  <2>2. told' \in [Keys -> SeverityOrNone \cup {"quiet", "manual"}] /\ stale' \subseteq Keys
    BY <1>7 DEF Trigger, TypeOK
  <2> QED
    BY <1>7, <2>1, <2>2 DEF Trigger, TypeOK, userVars, pagerVars
<1> QED
  BY <1>1, <1>2, <1>3, <1>4, <1>5, <1>6, <1>7, <1>8 DEF Others

(* Every reachable state is well typed; in particular a clean-check counter *)
(* never exceeds the threshold, because reaching it deletes the counter.    *)
THEOREM TypeCorrect == Spec => []TypeOK
<1>1. TypeOK /\ [Next]_vars => TypeOK'
  <2> SUFFICES ASSUME TypeOK, [Next]_vars PROVE TypeOK'
    OBVIOUS
  <2>1. CASE UNCHANGED vars
    BY <2>1 DEF vars, TypeOK
  <2> QED
    BY <2>1, TypeReconcile, TypeOthers DEF Next
<1> QED
  BY TypeInit, <1>1, PTL DEF Spec

-----------------------------------------------------------------------------
(* The streak argument                                                      *)

LEMMA IInvInit == Init => IInv
<1> SUFFICES ASSUME Init PROVE IInv
  OBVIOUS
<1>1. CountersTrackCleanCycles
  BY DEF Init, CountersTrackCleanCycles
<1>2. ResolveNeedsCleanStreak /\ StreakRunsAhead /\ NothingQueuedYet /\ PersistIsObserved
  BY DEF Init, NoCycle, ResolveNeedsCleanStreak, StreakRunsAhead, NothingQueuedYet,
         PersistIsObserved
<1> QED
  BY <1>1, <1>2, TypeInit DEF IInv

(* A cycle starts: the streak of every missing alert of a trusted instance  *)
(* grows before its counter does.                                           *)
LEMMA ObserveKeepsIInv ==
  ASSUME IInv, NEW untrusted \in SUBSET Instances, NEW lost \in SUBSET Keys,
         Observe(untrusted, lost)
  PROVE  IInv'
<1> DEFINE current == [k \in Keys |-> IF k \in lost THEN None ELSE cond[k]]
           trusted == Instances \ untrusted
<1>1. TypeOK'
  BY TypeObserve DEF IInv
<1>2. /\ cycle'.current = current /\ cycle'.trusted = trusted
      /\ cycle'.persist = {} /\ cycle'.resolve = {} /\ cycle'.closing = {}
  BY DEF Observe, NoCycle
<1>3. \A k \in Keys : cleanChecks[k] <= cleanStreak[k]
  BY DEF IInv, Observe, CountersTrackCleanCycles
<1>4. \A k \in Keys : cleanStreak'[k] = Streak(k, current, trusted)
  BY DEF Observe
<1>5. \A k \in Keys : Observed(k)' <=> current[k] # None
  BY <1>2 DEF Observed
<1>6. cleanChecks' = cleanChecks /\ pc' = "snapshot"
  BY DEF Observe
<1>7. CountersTrackCleanCycles'
  BY <1>3, <1>4, <1>5, <1>6, ThresholdAssumption
     DEF CountersTrackCleanCycles, Streak, IInv, TypeOK
<1>8. StreakRunsAhead'
  BY <1>2, <1>3, <1>4, <1>5, <1>6, ThresholdAssumption
     DEF StreakRunsAhead, Streak, IInv, TypeOK
<1>9. ResolveNeedsCleanStreak' /\ NothingQueuedYet' /\ PersistIsObserved'
  BY <1>2 DEF ResolveNeedsCleanStreak, NothingQueuedYet, PersistIsObserved
<1> QED
  BY <1>1, <1>7, <1>8, <1>9 DEF IInv

LEMMA SnapshotKeepsIInv ==
  ASSUME IInv, NEW unread \in SUBSET Instances, Snapshot(unread)
  PROVE  IInv'
<1>1. TypeOK'
  BY TypeSnapshot DEF IInv
<1>2. /\ cycle'.current = cycle.current /\ cycle'.trusted = cycle.trusted
      /\ cycle'.persist = {} /\ cycle'.resolve = {} /\ cycle'.closing = {}
  BY DEF Snapshot, IInv, NothingQueuedYet, TypeOK, CycleType
<1>3. /\ pc = "snapshot" /\ pc' = "account"
      /\ cleanChecks' = cleanChecks /\ cleanStreak' = cleanStreak
  BY DEF Snapshot
<1>4. CountersTrackCleanCycles' /\ StreakRunsAhead'
  BY <1>2, <1>3 DEF IInv, CountersTrackCleanCycles, StreakRunsAhead, Observed
<1>5. ResolveNeedsCleanStreak' /\ NothingQueuedYet' /\ PersistIsObserved'
  BY <1>2 DEF ResolveNeedsCleanStreak, NothingQueuedYet, PersistIsObserved
<1> QED
  BY <1>1, <1>4, <1>5 DEF IInv

(* The accounting: counters catch up with the streaks, and the alerts whose *)
(* counter reaches the threshold have a streak at least as long.            *)
LEMMA AccountKeepsIInv == IInv /\ Account => IInv'
<1> SUFFICES ASSUME IInv, Account PROVE IInv'
  OBVIOUS
<1>1. TypeOK'
  BY TypeAccount DEF IInv
<1>2. /\ cycle'.current = cycle.current /\ cycle'.trusted = cycle.trusted
      /\ cycle'.persist = Admitted /\ cycle'.resolve = CleanEnough
      /\ cycle'.closing = {}
  BY DEF Account, IInv, NothingQueuedYet, TypeOK, CycleType
<1>3. pc = "account" /\ pc' = "insert" /\ cleanStreak' = cleanStreak
  BY DEF Account
<1>4. \A k \in Keys : Observed(k)' <=> Observed(k)
  BY <1>2 DEF Observed
<1>5. \A k \in Counted : /\ k \in Keys /\ ~Observed(k)
                         /\ InstanceOf[k] \in cycle.trusted
                         /\ cleanStreak[k] = ResolveCleanChecks
                              \/ cleanChecks[k] < cleanStreak[k]
  BY <1>3 DEF Counted, Missing, IInv, StreakRunsAhead
<1>6. CountersTrackCleanCycles'
  <2> SUFFICES ASSUME NEW k \in Keys PROVE cleanChecks'[k] <= cleanStreak'[k]
    BY DEF CountersTrackCleanCycles
  <2>1. cleanChecks[k] \in Nat /\ cleanStreak[k] \in Nat
    BY ThresholdAssumption DEF IInv, TypeOK
  <2>2. CASE Observed(k) \/ k \in CleanEnough
    BY <2>1, <2>2, <1>3 DEF Account, CountCleanChecks
  <2>3. CASE ~Observed(k) /\ k \notin CleanEnough /\ k \in Counted
    <3>1. cleanChecks'[k] = cleanChecks[k] + 1
      BY <2>3 DEF Account, CountCleanChecks
    <3>2. cleanChecks[k] + 1 < ResolveCleanChecks
      BY <2>1, <2>3, ThresholdAssumption DEF CleanEnough
    <3> QED
      BY <1>3, <1>5, <2>1, <2>3, <3>1, <3>2, ThresholdAssumption
  <2>4. CASE ~Observed(k) /\ k \notin CleanEnough /\ k \notin Counted
    BY <1>3, <2>4 DEF Account, CountCleanChecks, IInv, CountersTrackCleanCycles
  <2> QED
    BY <2>2, <2>3, <2>4
<1>7. ResolveNeedsCleanStreak'
  <2> SUFFICES ASSUME NEW k \in CleanEnough
               PROVE  /\ cleanStreak[k] >= ResolveCleanChecks
                      /\ InstanceOf[k] \in cycle.trusted
                      /\ ~Observed(k)
    BY <1>2, <1>3 DEF ResolveNeedsCleanStreak, Observed
  <2>1. k \in Counted /\ cleanChecks[k] + 1 >= ResolveCleanChecks
    BY DEF CleanEnough
  <2>2. cleanChecks[k] \in Nat /\ cleanStreak[k] \in Nat
    BY <1>5, <2>1, ThresholdAssumption DEF IInv, TypeOK
  <2> QED
    BY <1>5, <2>1, <2>2, ThresholdAssumption
<1>8. StreakRunsAhead' /\ NothingQueuedYet'
  BY <1>3 DEF StreakRunsAhead, NothingQueuedYet
<1>9. PersistIsObserved'
  BY <1>2, <1>4 DEF PersistIsObserved, Admitted
<1> QED
  BY <1>1, <1>6, <1>7, <1>8, <1>9 DEF IInv

(* The writes after it leave counters, streaks and observations alone and   *)
(* only work the queues off.                                                *)
LEMMA WritesKeepIInv ==
  ASSUME IInv, TypeOK',
         pc \in {"insert", "resolve", "notify"},
         pc' \in {"insert", "resolve", "notify"},
         UNCHANGED <<cleanChecks, cleanStreak>>,
         cycle'.current = cycle.current, cycle'.trusted = cycle.trusted,
         cycle'.persist \subseteq cycle.persist,
         cycle'.resolve \cup cycle'.closing \subseteq cycle.resolve \cup cycle.closing
  PROVE  IInv'
<1>1. CountersTrackCleanCycles'
  BY DEF IInv, CountersTrackCleanCycles
<1>2. ResolveNeedsCleanStreak'
  BY DEF IInv, ResolveNeedsCleanStreak, Observed
<1>3. StreakRunsAhead' /\ NothingQueuedYet'
  BY DEF StreakRunsAhead, NothingQueuedYet
<1>4. PersistIsObserved'
  BY DEF IInv, PersistIsObserved, Observed
<1> QED
  BY <1>1, <1>2, <1>3, <1>4 DEF IInv

LEMMA ReconcileKeepsIInv == IInv /\ Reconcile => IInv'
<1> SUFFICES ASSUME IInv, Reconcile PROVE IInv'
  OBVIOUS
<1> TypeOK /\ TypeOK' /\ cycle \in CycleType
  BY TypeReconcile DEF IInv, TypeOK
<1>1. ASSUME NEW k \in Keys, Insert(k) PROVE IInv'
  BY <1>1, WritesKeepIInv DEF Insert, CycleType
<1>2. CASE Refresh
  BY <1>2, WritesKeepIInv DEF Refresh
<1>3. ASSUME NEW k \in Keys, ResolveRow(k) PROVE IInv'
  BY <1>3, WritesKeepIInv DEF ResolveRow, CycleType
<1>4. ASSUME NEW k \in Keys, ResolveFails(k) PROVE IInv'
  BY <1>4, WritesKeepIInv DEF ResolveFails, CycleType
<1>5. ASSUME NEW k \in Keys, AnnounceResolve(k) PROVE IInv'
  BY <1>5, WritesKeepIInv DEF AnnounceResolve, CycleType
<1>6. CASE ResolvesDone
  BY <1>6, WritesKeepIInv DEF ResolvesDone
<1>7. ASSUME NEW k \in Keys, Notify(k) PROVE IInv'
  BY <1>7, WritesKeepIInv DEF Notify, CycleType
<1>8. CASE EndCycle
  BY <1>8 DEF EndCycle, NoCycle, IInv, CountersTrackCleanCycles,
              ResolveNeedsCleanStreak, StreakRunsAhead, NothingQueuedYet,
              PersistIsObserved
<1> QED
  BY <1>1, <1>2, <1>3, <1>4, <1>5, <1>6, <1>7, <1>8,
     ObserveKeepsIInv, SnapshotKeepsIInv, AccountKeepsIInv DEF Reconcile

(* Everybody else can only lower a counter.                                 *)
LEMMA LowerCountersKeepIInv ==
  ASSUME IInv, TypeOK', UNCHANGED <<cleanStreak, pc, cycle>>,
         \A k \in Keys : cleanChecks'[k] = cleanChecks[k] \/ cleanChecks'[k] = 0
  PROVE  IInv'
<1>1. \A k \in Keys : cleanChecks[k] \in Nat /\ cleanStreak[k] \in Nat
  BY ThresholdAssumption DEF IInv, TypeOK
<1>2. CountersTrackCleanCycles'
  BY <1>1 DEF IInv, CountersTrackCleanCycles, Observed
<1>3. StreakRunsAhead'
  BY <1>1, ThresholdAssumption DEF IInv, StreakRunsAhead, Observed
<1>4. ResolveNeedsCleanStreak' /\ NothingQueuedYet' /\ PersistIsObserved'
  BY DEF IInv, ResolveNeedsCleanStreak, NothingQueuedYet, PersistIsObserved, Observed
<1> QED
  BY <1>2, <1>3, <1>4 DEF IInv

LEMMA OthersKeepIInv == IInv /\ Others => IInv'
<1> SUFFICES ASSUME IInv, Others PROVE IInv'
  OBVIOUS
<1>1. TypeOK /\ TypeOK'
  BY TypeOthers DEF IInv
<1>2. CASE Restart
  <2>1. \A k \in Keys : cleanChecks'[k] = 0 /\ cleanStreak'[k] \in Nat
    BY <1>1, <1>2, ThresholdAssumption DEF Restart, TypeOK
  <2>2. CountersTrackCleanCycles'
    BY <2>1 DEF CountersTrackCleanCycles
  <2>3. ResolveNeedsCleanStreak' /\ StreakRunsAhead' /\ NothingQueuedYet'
        /\ PersistIsObserved'
    BY <1>2 DEF Restart, NoCycle, ResolveNeedsCleanStreak, StreakRunsAhead,
                NothingQueuedYet, PersistIsObserved
  <2> QED
    BY <1>1, <2>2, <2>3 DEF IInv
<1>3. ASSUME NEW k \in Keys, ClearCleanChecks(k) PROVE IInv'
  <2>1. \A j \in Keys : cleanChecks'[j] = cleanChecks[j] \/ cleanChecks'[j] = 0
    BY <1>1, <1>3 DEF ClearCleanChecks, TypeOK
  <2> QED
    BY <1>1, <1>3, <2>1, LowerCountersKeepIInv DEF ClearCleanChecks
<1>4. CASE UNCHANGED <<cleanChecks, cleanStreak, pc, cycle>>
  BY <1>1, <1>4, LowerCountersKeepIInv
<1>5. ~Restart /\ (\A k \in Keys : ~ClearCleanChecks(k))
        => UNCHANGED <<cleanChecks, cleanStreak, pc, cycle>>
  BY DEF Others, ResolveFromDashboard, GrowStale, SweepStale, SetMaintenance, SetSnooze,
         Trigger, Acknowledge, ConditionChanges, PageGapElapses
<1> QED
  BY <1>2, <1>3, <1>4, <1>5

LEMMA NextKeepsIInv == IInv /\ [Next]_vars => IInv'
<1> SUFFICES ASSUME IInv, [Next]_vars PROVE IInv'
  OBVIOUS
<1>1. CASE UNCHANGED vars
  BY <1>1 DEF vars, IInv, TypeOK, CountersTrackCleanCycles, ResolveNeedsCleanStreak,
              StreakRunsAhead, NothingQueuedYet, PersistIsObserved, Observed
<1> QED
  BY <1>1, ReconcileKeepsIInv, OthersKeepIInv DEF Next

THEOREM Invariance == Spec => []IInv
  BY IInvInit, NextKeepsIInv, PTL DEF Spec

(* A clean-check counter never runs ahead of the clean cycles there were.   *)
THEOREM CountersAreHonest == Spec => []CountersTrackCleanCycles
<1>1. IInv => CountersTrackCleanCycles
  BY DEF IInv
<1> QED
  BY <1>1, Invariance, PTL

(* The loop never sets out to resolve an alert that was not missing in      *)
(* ResolveCleanChecks trusted cycles since it was last observed, whatever   *)
(* dashboard, sweep, failures and restarts do in between.                   *)
THEOREM ResolvesAreEarned == Spec => []ResolveNeedsCleanStreak
<1>1. IInv => ResolveNeedsCleanStreak
  BY DEF IInv
<1> QED
  BY <1>1, Invariance, PTL

-----------------------------------------------------------------------------
(* Why rows close                                                           *)

ClosesForAReason ==
    \A k \in Keys : Open(k) /\ ~Open(k)' =>
        \/ k \in cycle.resolve /\ cleanStreak[k] >= ResolveCleanChecks
        \/ k \in clearing'
        \/ k \in stale

LEMMA StepClosesForAReason == IInv /\ [Next]_vars => ClosesForAReason
<1> SUFFICES ASSUME IInv, [Next]_vars PROVE ClosesForAReason
  OBVIOUS
<1> USE DEF ClosesForAReason, Open
<1> rows \in [Keys -> SeverityOrNone]
  BY DEF IInv, TypeOK
<1>1. ASSUME NEW k \in Keys, Insert(k) PROVE ClosesForAReason
  BY <1>1 DEF Insert, storeVars, IInv, PersistIsObserved, Observed
<1>2. CASE Refresh
  BY <1>2 DEF Refresh, ToTouch, Observed
<1>3. ASSUME NEW k \in Keys, ResolveRow(k) PROVE ClosesForAReason
  BY <1>3 DEF ResolveRow, IInv, ResolveNeedsCleanStreak
<1>4. ASSUME NEW k \in Keys, ResolveFromDashboard(k) PROVE ClosesForAReason
  BY <1>4 DEF ResolveFromDashboard
<1>5. ASSUME NEW reached \in SUBSET Instances, SweepStale(reached)
      PROVE  ClosesForAReason
  BY <1>5 DEF SweepStale
<1>6. CASE rows' = rows
  BY <1>6
<1>8. ASSUME NEW k \in Keys, Trigger(k) PROVE ClosesForAReason
  BY <1>8, KeysAssumption DEF Trigger, Severities, None
<1>7. \/ rows' = rows
      \/ \E k \in Keys : Insert(k) \/ ResolveRow(k) \/ ResolveFromDashboard(k) \/ Trigger(k)
      \/ Refresh
      \/ \E reached \in SUBSET Instances : SweepStale(reached)
  BY DEF Next, Reconcile, Others, vars, storeVars, Observe, Snapshot, Account, ResolveFails,
         AnnounceResolve, ResolvesDone, Notify, EndCycle, ClearCleanChecks, GrowStale,
         SetMaintenance, SetSnooze, Acknowledge, ConditionChanges, PageGapElapses, Restart
<1> QED
  BY <1>1, <1>2, <1>3, <1>4, <1>5, <1>6, <1>7, <1>8

(* No step of any actor closes a row other than by a full streak, a user or *)
(* the stale sweep.                                                         *)
THEOREM ClosingIsJustified == Spec => RowsCloseForAReason
<1>1. IInv /\ [Next]_vars => [ClosesForAReason]_vars
  BY StepClosesForAReason
<1>2. Spec => [][ClosesForAReason]_vars
  BY Invariance, <1>1, PTL DEF Spec
<1> QED
  BY <1>2 DEF RowsCloseForAReason, ClosesForAReason

-----------------------------------------------------------------------------
(* The queues of a cycle                                                    *)

(* What the rest of the cycle relies on: announcements and inserts are of   *)
(* observed alerts, inserts are done once the rows are refreshed, and one   *)
(* row at a time is being closed, only while resolves are worked off.       *)
QueuesInOrder ==
    /\ pc \in {"idle", "snapshot", "account"} => cycle.notify = {}
    /\ \A k \in cycle.notify : Observed(k)
    /\ pc \in {"resolve", "notify"} => cycle.persist = {}
    /\ pc # "resolve" => cycle.closing = {}
    /\ \A j, k \in cycle.closing : j = k

LEMMA QueuesKept ==
  ASSUME IInv, QueuesInOrder, [Next]_vars
  PROVE  QueuesInOrder'
<1> USE DEF QueuesInOrder, Observed
<1> cycle \in CycleType
  BY DEF IInv, TypeOK
<1>1. ASSUME NEW untrusted \in SUBSET Instances, NEW lost \in SUBSET Keys,
             Observe(untrusted, lost)
      PROVE  QueuesInOrder'
  BY <1>1 DEF Observe, NoCycle
<1>2. ASSUME NEW unread \in SUBSET Instances, Snapshot(unread) PROVE QueuesInOrder'
  BY <1>2 DEF Snapshot, CycleType
<1>3. CASE Account
  BY <1>3 DEF Account, Admitted, CycleType
<1>4. ASSUME NEW k \in Keys, Insert(k) PROVE QueuesInOrder'
  BY <1>4 DEF Insert, CycleType
<1>5. CASE Refresh
  BY <1>5 DEF Refresh
<1>6. ASSUME NEW k \in Keys, ResolveRow(k) \/ ResolveFails(k) \/ AnnounceResolve(k)
      PROVE  QueuesInOrder'
  BY <1>6 DEF ResolveRow, ResolveFails, AnnounceResolve, CycleType
<1>7. CASE ResolvesDone
  BY <1>7 DEF ResolvesDone
<1>8. ASSUME NEW k \in Keys, Notify(k) PROVE QueuesInOrder'
  BY <1>8 DEF Notify, CycleType
<1>9. CASE EndCycle \/ Restart
  BY <1>9 DEF EndCycle, Restart, NoCycle
<1>10. CASE UNCHANGED <<pc, cycle>>
  BY <1>10
<1>11. \/ UNCHANGED <<pc, cycle>>
       \/ Reconcile
       \/ Restart
  BY DEF Next, Others, vars, ResolveFromDashboard, ClearCleanChecks, GrowStale, SweepStale,
         SetMaintenance, SetSnooze, Trigger, Acknowledge, ConditionChanges, PageGapElapses
<1> QED
  BY <1>1, <1>2, <1>3, <1>4, <1>5, <1>6, <1>7, <1>8, <1>9, <1>10, <1>11 DEF Reconcile

(* The invariant of the theorems below.                                     *)
CycleInv == IInv /\ QueuesInOrder

LEMMA CycleInvariance == Spec => []CycleInv
<1>1. Init => QueuesInOrder
  BY DEF Init, NoCycle, QueuesInOrder
<1>2. IInv /\ QueuesInOrder /\ [Next]_vars => QueuesInOrder'
  BY QueuesKept
<1> QED
  BY <1>1, <1>2, Invariance, PTL DEF Spec, CycleInv

LEMMA TriggerOpens ==
  ASSUME TypeOK, NEW k \in Keys, Trigger(k)
  PROVE  /\ Open(k)' /\ told'[k] = "manual"
         /\ \A j \in Keys \ {k} : rows'[j] = rows[j] /\ told'[j] = told[j]
  BY KeysAssumption DEF Trigger, TypeOK, Open, Severities, None

(* Which steps open rows, close them, and announce.                         *)
LEMMA RowsFrame ==
  ASSUME [Next]_vars
  PROVE  \/ UNCHANGED <<rows, told>>
         \/ \E k \in Keys : Insert(k) \/ ResolveRow(k) \/ Notify(k) \/ ResolveFromDashboard(k)
                           \/ Trigger(k)
         \/ Refresh
         \/ \E reached \in SUBSET Instances : SweepStale(reached)
  BY DEF Next, Reconcile, Others, vars, storeVars, Observe, Snapshot, Account, ResolveFails,
         AnnounceResolve, ResolvesDone, EndCycle, ClearCleanChecks, GrowStale,
         SetMaintenance, SetSnooze, Acknowledge, ConditionChanges, PageGapElapses, Restart

-----------------------------------------------------------------------------
(* One firing at a time                                                     *)

(* As long as every active alert is read, the snapshot still knows of every *)
(* open row when the cycle decides what to insert, and nobody else opens    *)
(* one before that is done, but by hand.                                    *)
NothingOpensMeanwhile ==
    /\ pc = "account" => \A k \in Keys : Open(k) => InSnapshot(k) \/ told[k] = "manual"
    /\ OneFiringPerKey

LEMMA NothingOpensKept ==
  ASSUME "read" \notin Environment, CycleInv, NothingOpensMeanwhile, [Next]_vars
  PROVE  NothingOpensMeanwhile'
<1> USE DEF NothingOpensMeanwhile, OneFiringPerKey, InSnapshot, Open
<1> cycle \in CycleType /\ rows \in [Keys -> SeverityOrNone]
  BY DEF CycleInv, IInv, TypeOK
<1>1. ASSUME NEW unread \in SUBSET Instances, Snapshot(unread)
      PROVE  NothingOpensMeanwhile'
  BY <1>1 DEF Snapshot, CycleType, storeVars
<1>2. CASE Account
  BY <1>2 DEF Account, Admitted, CycleType, storeVars
<1>3. ASSUME NEW k \in Keys, Insert(k) PROVE NothingOpensMeanwhile'
  <2>1. /\ pc = "insert" /\ pc' = "insert" /\ cycle'.persist = cycle.persist \ {k}
        /\ cycle.persist \subseteq Keys
    BY <1>3 DEF Insert, CycleType
  <2>2. \A j \in Keys \ {k} : rows'[j] = rows[j] /\ told'[j] = told[j]
    BY <1>3 DEF Insert, storeVars, CycleInv, IInv, TypeOK
  <2> QED
    BY <2>1, <2>2
<1>4. CASE pc' \notin {"account", "insert"}
  BY <1>4
<1>5. CASE /\ UNCHANGED <<pc, cycle, told>>
           /\ \A k \in Keys : ~Open(k) => ~Open(k)'
  <2>1. cycle.persist \subseteq Keys
    BY DEF CycleType
  <2> QED
    BY <1>5, <2>1
<1>6. ASSUME NEW k \in Keys, ResolveFromDashboard(k)
      PROVE  UNCHANGED <<pc, cycle, told>> /\ \A j \in Keys : ~Open(j) => ~Open(j)'
  BY <1>6 DEF ResolveFromDashboard
<1>7. ASSUME NEW reached \in SUBSET Instances, SweepStale(reached)
      PROVE  UNCHANGED <<pc, cycle, told>> /\ \A j \in Keys : ~Open(j) => ~Open(j)'
  BY <1>7 DEF SweepStale
<1>9. ASSUME NEW k \in Keys, Trigger(k) PROVE NothingOpensMeanwhile'
  <2>1. UNCHANGED <<pc, cycle>> /\ cycle.persist \subseteq Keys
    BY <1>9 DEF Trigger, CycleType
  <2>2. told'[k] = "manual" /\ \A j \in Keys \ {k} : rows'[j] = rows[j] /\ told'[j] = told[j]
    BY <1>9, TriggerOpens DEF CycleInv, IInv
  <2> QED
    BY <2>1, <2>2
<1>8. \/ pc' \notin {"account", "insert"}
      \/ UNCHANGED <<pc, cycle, rows, told>>
      \/ \E unread \in SUBSET Instances : Snapshot(unread)
      \/ Account
      \/ \E k \in Keys : Insert(k) \/ ResolveFromDashboard(k) \/ Trigger(k)
      \/ \E reached \in SUBSET Instances : SweepStale(reached)
  BY DEF Next, Reconcile, Others, vars, storeVars, Observe, Refresh, ResolveRow,
         ResolveFails, AnnounceResolve, ResolvesDone, Notify, EndCycle, ClearCleanChecks,
         GrowStale, SetMaintenance, SetSnooze, Acknowledge, ConditionChanges,
         PageGapElapses, Restart
<1> QED
  BY <1>1, <1>2, <1>3, <1>4, <1>5, <1>6, <1>7, <1>8, <1>9

(* If the query for the active alerts of an instance does not fail, the     *)
(* loop inserts a row beside an open one only where a user wrote that by    *)
(* hand, whatever resolves, sweeps, failing writes and crashes do in        *)
(* between.                                                                 *)
THEOREM FiringsAreSingle ==
  ASSUME "read" \notin Environment
  PROVE  Spec => []OneFiringPerKey
<1>1. Init => NothingOpensMeanwhile
  BY DEF Init, NothingOpensMeanwhile, OneFiringPerKey
<1>2. CycleInv /\ NothingOpensMeanwhile /\ [Next]_vars => NothingOpensMeanwhile'
  BY NothingOpensKept
<1>3. NothingOpensMeanwhile => OneFiringPerKey
  BY DEF NothingOpensMeanwhile
<1> QED
  BY <1>1, <1>2, <1>3, CycleInvariance, PTL DEF Spec

-----------------------------------------------------------------------------
(* Nobody is left out                                                       *)

(* A row that nobody was told of waits to be announced, or is not there:    *)
(* neither open, nor known to the snapshot, whose refresh might open it.    *)
UntoldIsQueued ==
    \A k \in Keys : told[k] = None =>
        k \in cycle.notify \/ (~Open(k) /\ ~InSnapshot(k))

LEMMA UntoldIsQueuedKept ==
  ASSUME "crash" \notin Environment, CycleInv, UntoldIsQueued, [Next]_vars
  PROVE  UntoldIsQueued'
<1> USE DEF UntoldIsQueued, InSnapshot, Open
<1> /\ cycle \in CycleType /\ rows \in [Keys -> SeverityOrNone]
    /\ told \in [Keys -> SeverityOrNone \cup {"quiet", "manual"}]
  BY DEF CycleInv, IInv, TypeOK
<1>1. ASSUME NEW untrusted \in SUBSET Instances, NEW lost \in SUBSET Keys,
             Observe(untrusted, lost)
      PROVE  UntoldIsQueued'
  BY <1>1 DEF Observe, NoCycle, storeVars, CycleInv, QueuesInOrder
<1>2. ASSUME NEW unread \in SUBSET Instances, Snapshot(unread) PROVE UntoldIsQueued'
  BY <1>2 DEF Snapshot, CycleType, storeVars
<1>3. CASE Account
  BY <1>3 DEF Account, CycleType, storeVars, CycleInv, QueuesInOrder
<1>4. ASSUME NEW k \in Keys, Insert(k) PROVE UntoldIsQueued'
  BY <1>4 DEF Insert, CycleType, storeVars, None
<1>5. CASE Refresh
  BY <1>5 DEF Refresh, ToTouch, storeVars
<1>6. ASSUME NEW k \in Keys, Notify(k) PROVE UntoldIsQueued'
  BY <1>6 DEF Notify, CycleType, storeVars, CycleInv, QueuesInOrder, Observed
<1>7. CASE EndCycle
  BY <1>7 DEF EndCycle, NoCycle, storeVars
<1>8. ASSUME NEW k \in Keys, ResolveRow(k) \/ ResolveFails(k) \/ AnnounceResolve(k)
      PROVE  UntoldIsQueued'
  BY <1>8 DEF ResolveRow, ResolveFails, AnnounceResolve, CycleType, storeVars
<1>9. CASE ResolvesDone
  BY <1>9 DEF ResolvesDone, storeVars
<1>10. CASE UNCHANGED <<cycle, told>> /\ \A k \in Keys : ~Open(k) => ~Open(k)'
  BY <1>10
<1>12. ASSUME NEW k \in Keys, Trigger(k) PROVE UntoldIsQueued'
  <2>1. /\ told'[k] = "manual" /\ cycle' = cycle
        /\ \A j \in Keys \ {k} : rows'[j] = rows[j] /\ told'[j] = told[j]
    BY <1>12, TriggerOpens DEF Trigger, CycleInv, IInv
  <2> QED
    BY <2>1 DEF None
<1>11. ASSUME Others \/ UNCHANGED vars, \A k \in Keys : ~Trigger(k)
       PROVE  UNCHANGED <<cycle, told>> /\ \A k \in Keys : ~Open(k) => ~Open(k)'
  <2>1. ASSUME NEW k \in Keys, ResolveFromDashboard(k)
        PROVE  UNCHANGED <<cycle, told>> /\ \A j \in Keys : ~Open(j) => ~Open(j)'
    BY <2>1 DEF ResolveFromDashboard, streakVars
  <2>2. ASSUME NEW reached \in SUBSET Instances, SweepStale(reached)
        PROVE  UNCHANGED <<cycle, told>> /\ \A j \in Keys : ~Open(j) => ~Open(j)'
    BY <2>2 DEF SweepStale, streakVars
  <2> QED
    BY <1>11, <2>1, <2>2
       DEF Others, vars, storeVars, ClearCleanChecks, GrowStale, SetMaintenance, SetSnooze,
           Acknowledge, ConditionChanges, PageGapElapses, Restart
<1> QED
  BY <1>1, <1>2, <1>3, <1>4, <1>5, <1>6, <1>7, <1>8, <1>9, <1>10, <1>11, <1>12 DEF Next, Reconcile

(* Unless the process stops between an insert and its announcement, every   *)
(* open row has been announced between cycles, was silenced when it was     *)
(* persisted or was written by hand, whichever reads, writes and requests   *)
(* fail.                                                                    *)
THEOREM FiringsAreAnnounced ==
  ASSUME "crash" \notin Environment
  PROVE  Spec => []EveryFiringAnnounced
<1>1. Init => UntoldIsQueued
  BY DEF Init, UntoldIsQueued, Open, InSnapshot, NoCycle
<1>2. CycleInv /\ UntoldIsQueued /\ [Next]_vars => UntoldIsQueued'
  BY UntoldIsQueuedKept
<1>3. CycleInv /\ UntoldIsQueued => EveryFiringAnnounced
  BY DEF CycleInv, QueuesInOrder, UntoldIsQueued, EveryFiringAnnounced
<1> QED
  BY <1>1, <1>2, <1>3, CycleInvariance, PTL DEF Spec

-----------------------------------------------------------------------------
(* What a firing leaves behind                                              *)

(* What belongs to an alert is taken back right after its row is closed,    *)
(* unless somebody other than the loop closes it.                           *)
LooseEnds(belongings) ==
    \A k \in belongings : Open(k) \/ k \in cycle.closing

(* A row closes by ResolveRow, which notes that it is being closed.         *)
LEMMA RowsStayOrClose ==
  ASSUME {"ui", "sweep"} \cap Environment = {}, CycleInv, [Next]_vars, NEW k \in Keys, Open(k)
  PROVE  Open(k)' \/ k \in cycle'.closing
<1> USE DEF Open
<1> /\ cycle \in CycleType /\ rows \in [Keys -> SeverityOrNone]
  BY DEF CycleInv, IInv, TypeOK
<1>1. ASSUME NEW j \in Keys, Insert(j) PROVE Open(k)'
  BY <1>1 DEF Insert, storeVars, CycleInv, IInv, PersistIsObserved, Observed
<1>2. CASE Refresh
  BY <1>2 DEF Refresh, ToTouch, Observed
<1>3. ASSUME NEW j \in Keys, ResolveRow(j) PROVE Open(k)' \/ k \in cycle'.closing
  BY <1>3 DEF ResolveRow, CycleType
<1>4. ASSUME NEW j \in Keys, Notify(j) PROVE Open(k)'
  BY <1>4 DEF Notify, storeVars
<1>7. ASSUME NEW j \in Keys, Trigger(j) PROVE Open(k)'
  BY <1>7, TriggerOpens DEF CycleInv, IInv
<1>5. \A j \in Keys : ~ResolveFromDashboard(j)
  BY DEF ResolveFromDashboard
<1>6. \A reached \in SUBSET Instances : ~SweepStale(reached)
  BY DEF SweepStale
<1> QED
  BY <1>1, <1>2, <1>3, <1>4, <1>5, <1>6, <1>7, RowsFrame

(* Between the closing of a row and what follows on it, the loop does no    *)
(* other work.                                                              *)
LEMMA ClosingFrame ==
  ASSUME "crash" \notin Environment, CycleInv, [Next]_vars,
         NEW k \in cycle.closing, \A j \in Keys : ~AnnounceResolve(j)
  PROVE  k \in cycle'.closing
<1> cycle \in CycleType /\ pc = "resolve"
  BY DEF CycleInv, IInv, TypeOK, QueuesInOrder
<1>1. \A j \in Keys : ~ResolveRow(j) /\ ~Insert(j) /\ ~Notify(j)
  BY DEF ResolveRow, Insert, Notify
<1>2. ~Account /\ ~Refresh /\ ~ResolvesDone /\ ~EndCycle /\ ~Restart
  BY DEF Account, Refresh, ResolvesDone, EndCycle, Restart
<1>3. \A unread \in SUBSET Instances : ~Snapshot(unread)
  BY DEF Snapshot
<1>4. \A untrusted \in SUBSET Instances, lost \in SUBSET Keys : ~Observe(untrusted, lost)
  BY DEF Observe
<1>5. \A j \in Keys : ~ResolveFails(j)
  BY DEF ResolveFails
<1> QED
  BY <1>1, <1>2, <1>3, <1>4, <1>5
     DEF Next, Reconcile, Others, vars, ResolveFromDashboard, ClearCleanChecks, GrowStale,
         SweepStale, SetMaintenance, SetSnooze, Trigger, Acknowledge, ConditionChanges, PageGapElapses

LEMMA AcksKept ==
  ASSUME {"ui", "sweep", "crash"} \cap Environment = {}, CycleInv, LooseEnds(AckedFirings),
         [Next]_vars
  PROVE  LooseEnds(AckedFirings)'
<1> /\ cycle \in CycleType /\ acked \subseteq [key : Keys, whileOpen : BOOLEAN]
    /\ AckedFirings \subseteq Keys
  BY DEF CycleInv, IInv, TypeOK, AckedFirings
<1>1. CASE \E j \in Keys : AnnounceResolve(j)
  <2>1. PICK j \in Keys : AnnounceResolve(j)
    BY <1>1
  <2>2. cycle.closing = {j} /\ rows' = rows /\ acked' = {a \in acked : a.key # j}
    BY <2>1 DEF AnnounceResolve, storeVars, CycleInv, QueuesInOrder
  <2>3. AckedFirings' \subseteq AckedFirings \ {j}
    BY <2>2 DEF AckedFirings
  <2> QED
    BY <2>2, <2>3 DEF LooseEnds, Open
<1>2. ASSUME \A j \in Keys : ~AnnounceResolve(j), NEW k \in AckedFirings
      PROVE  Open(k)' \/ k \in cycle'.closing
  BY <1>2, RowsStayOrClose, ClosingFrame DEF LooseEnds
<1>3. CASE \E j \in Keys : Acknowledge(j)
  <2>1. PICK j \in Keys : Acknowledge(j)
    BY <1>3
  <2>2. /\ acked' = acked \cup {[key |-> j, whileOpen |-> Open(j)]}
        /\ UNCHANGED <<rows, cycle>>
    BY <2>1 DEF Acknowledge, storeVars
  <2>3. \A k \in AckedFirings' : k \in AckedFirings \/ Open(k)
    BY <2>2 DEF AckedFirings
  <2> QED
    BY <2>2, <2>3 DEF LooseEnds, Open
<1>4. \/ acked' = acked
      \/ \E j \in Keys : AnnounceResolve(j) \/ Acknowledge(j)
  BY DEF Next, Reconcile, Others, vars, userVars, Observe, Snapshot, Account, Insert,
         Refresh, ResolveRow, ResolveFails, ResolvesDone, Notify, EndCycle,
         ResolveFromDashboard, ClearCleanChecks, GrowStale, SweepStale, SetMaintenance,
         SetSnooze, Trigger, ConditionChanges, PageGapElapses, Restart
<1>5. CASE acked' = acked /\ \A j \in Keys : ~AnnounceResolve(j)
  BY <1>2, <1>5 DEF LooseEnds, AckedFirings
<1> QED
  BY <1>1, <1>3, <1>4, <1>5

(* Which steps open a row.                                                  *)
LEMMA OpeningFrame ==
  ASSUME IInv, [Next]_vars, NEW k \in Keys, ~Open(k), Open(k)'
  PROVE  pc = "insert" \/ told'[k] = "manual"
<1> USE DEF Open
<1> rows \in [Keys -> SeverityOrNone]
  BY DEF IInv, TypeOK
<1>1. ASSUME NEW j \in Keys, Insert(j) PROVE pc = "insert"
  BY <1>1 DEF Insert
<1>2. CASE Refresh
  BY <1>2 DEF Refresh
<1>3. ASSUME NEW j \in Keys, ResolveRow(j) \/ ResolveFromDashboard(j) PROVE FALSE
  BY <1>3 DEF ResolveRow, ResolveFromDashboard
<1>4. ASSUME NEW reached \in SUBSET Instances, SweepStale(reached) PROVE FALSE
  BY <1>4 DEF SweepStale
<1>5. ASSUME NEW j \in Keys, Notify(j) PROVE FALSE
  BY <1>5 DEF Notify, storeVars
<1>6. ASSUME NEW j \in Keys, Trigger(j) PROVE told'[k] = "manual"
  BY <1>6, TriggerOpens DEF IInv
<1> QED
  BY <1>1, <1>2, <1>3, <1>4, <1>5, <1>6, RowsFrame

StartsUnacknowledged ==
    \A k \in Keys : ~Open(k) /\ Open(k)' /\ told'[k] # "manual" => k \notin AckedFirings

(* If the loop is the only one to close rows and is not stopped between the *)
(* row and its acknowledgments, no firing that it records, or opens again   *)
(* by a late refresh, starts out with an acknowledgment that was given      *)
(* while an earlier one was open.  One given when none was open stays; the  *)
(* run ack_late shows it.                                                   *)
THEOREM AcksAreForThisFiring ==
  ASSUME {"ui", "sweep", "crash"} \cap Environment = {}
  PROVE  Spec => AckEndsWithFiring
<1>1. Init => LooseEnds(AckedFirings)
  BY DEF Init, LooseEnds, AckedFirings
<1>2. CycleInv /\ LooseEnds(AckedFirings) /\ [Next]_vars => LooseEnds(AckedFirings)'
  BY AcksKept
<1>3. CycleInv /\ LooseEnds(AckedFirings) /\ [Next]_vars => [StartsUnacknowledged]_vars
  <2> SUFFICES ASSUME CycleInv, LooseEnds(AckedFirings), [Next]_vars,
                      NEW k \in Keys, ~Open(k), Open(k)', told'[k] # "manual"
               PROVE  k \notin AckedFirings
    BY DEF StartsUnacknowledged
  <2>1. pc = "insert"
    BY OpeningFrame DEF CycleInv
  <2> QED
    BY <2>1 DEF CycleInv, QueuesInOrder, LooseEnds
<1>4. Spec => [][StartsUnacknowledged]_vars
  BY <1>1, <1>2, <1>3, CycleInvariance, PTL DEF Spec
<1> QED
  BY <1>4 DEF AckEndsWithFiring, StartsUnacknowledged

-----------------------------------------------------------------------------
(* Incidents end with their alerts                                          *)

(* If inserts succeed, PagerDuty only hears of alerts that have a row.      *)
PagesHaveRows == \A k \in cycle.notify : k \in cycle.persist \/ Open(k)

LEMMA PagesHaveRowsKept ==
  ASSUME {"ui", "sweep", "insert", "crash"} \cap Environment = {}, CycleInv,
         PagesHaveRows, [Next]_vars
  PROVE  PagesHaveRows'
<1> USE DEF PagesHaveRows, Open
<1> /\ cycle \in CycleType /\ rows \in [Keys -> SeverityOrNone]
    /\ QueuesInOrder /\ PersistIsObserved /\ ResolveNeedsCleanStreak
  BY DEF CycleInv, IInv, TypeOK
<1>1. ASSUME NEW untrusted \in SUBSET Instances, NEW lost \in SUBSET Keys,
             Observe(untrusted, lost)
      PROVE  PagesHaveRows'
  BY <1>1 DEF Observe, NoCycle
<1>2. ASSUME NEW unread \in SUBSET Instances, Snapshot(unread) PROVE PagesHaveRows'
  BY <1>2 DEF Snapshot, QueuesInOrder, CycleType
<1>3. CASE Account
  BY <1>3 DEF Account, CycleType
<1>4. ASSUME NEW k \in Keys, Insert(k) PROVE PagesHaveRows'
  BY <1>4 DEF Insert, CycleType, PersistIsObserved, Observed
<1>5. CASE Refresh
  BY <1>5 DEF Refresh, ToTouch, Observed, CycleType
<1>6. ASSUME NEW k \in Keys, ResolveRow(k) PROVE PagesHaveRows'
  <2>1. k \notin cycle.notify
    BY <1>6 DEF ResolveRow, QueuesInOrder, ResolveNeedsCleanStreak
  <2> QED
    BY <1>6, <2>1 DEF ResolveRow, CycleType
<1>7. ASSUME NEW k \in Keys, ResolveFails(k) \/ AnnounceResolve(k) PROVE PagesHaveRows'
  BY <1>7 DEF ResolveFails, AnnounceResolve, CycleType, storeVars
<1>8. ASSUME NEW k \in Keys, Notify(k) PROVE PagesHaveRows'
  BY <1>8 DEF Notify, CycleType, storeVars
<1>9. CASE EndCycle
  BY <1>9 DEF EndCycle, NoCycle
<1>10. CASE UNCHANGED <<rows, cycle>>
  BY <1>10
<1>12. ASSUME NEW k \in Keys, Trigger(k) PROVE PagesHaveRows'
  <2>1. /\ Open(k)' /\ cycle' = cycle
        /\ \A j \in Keys \ {k} : rows'[j] = rows[j]
    BY <1>12, TriggerOpens DEF Trigger, CycleInv, IInv
  <2> QED
    BY <2>1 DEF CycleType
<1>11. ASSUME Others \/ ResolvesDone \/ UNCHANGED vars, \A k \in Keys : ~Trigger(k)
       PROVE  UNCHANGED <<rows, cycle>>
  BY <1>11 DEF Others, vars, storeVars, ResolvesDone, ResolveFromDashboard,
               ClearCleanChecks, GrowStale, SweepStale, SetMaintenance, SetSnooze,
               Acknowledge, ConditionChanges, PageGapElapses, Restart
<1> QED
  BY <1>1, <1>2, <1>3, <1>4, <1>5, <1>6, <1>7, <1>8, <1>9, <1>10, <1>11, <1>12 DEF Next, Reconcile

LEMMA IncidentsKept ==
  ASSUME {"ui", "sweep", "pagerduty", "crash"} \cap Environment = {}, CycleInv,
         PagesHaveRows, LooseEnds(incidents), [Next]_vars
  PROVE  LooseEnds(incidents)'
<1> SUFFICES ASSUME NEW k \in incidents'
             PROVE  Open(k)' \/ k \in cycle'.closing
  BY DEF LooseEnds
<1> /\ cycle \in CycleType /\ incidents \subseteq Keys
  BY DEF CycleInv, IInv, TypeOK
<1>1. CASE k \in incidents
  <2>1. CASE \E j \in Keys : AnnounceResolve(j)
    <3>1. PICK j \in Keys : AnnounceResolve(j)
      BY <2>1
    <3>2. cycle.closing = {j}
      BY <3>1 DEF AnnounceResolve, CycleInv, QueuesInOrder
    <3>3. k # j /\ rows' = rows
      BY <3>1 DEF AnnounceResolve, storeVars
    <3> QED
      BY <1>1, <3>2, <3>3 DEF LooseEnds, Open
  <2>2. CASE \A j \in Keys : ~AnnounceResolve(j)
    BY <1>1, <2>2, RowsStayOrClose, ClosingFrame DEF LooseEnds
  <2> QED
    BY <2>1, <2>2
<1>2. CASE k \notin incidents
  <2>1. \/ incidents' = incidents
        \/ \E j \in Keys : AnnounceResolve(j) \/ Notify(j)
    BY DEF Next, Reconcile, Others, vars, pagerVars, Observe, Snapshot, Account, Insert,
         Refresh, ResolveRow, ResolveFails, ResolvesDone, EndCycle, Acknowledge,
         ResolveFromDashboard, ClearCleanChecks, GrowStale, SweepStale, SetMaintenance,
         SetSnooze, Trigger, ConditionChanges, PageGapElapses, Restart
  <2>2. PICK j \in Keys : Notify(j)
    BY <1>2, <2>1 DEF AnnounceResolve
  <2>3. k = j
    BY <1>2, <2>2 DEF Notify, pagerVars
  <2>4. k \in cycle.notify /\ cycle.persist = {} /\ rows' = rows
    BY <2>2, <2>3 DEF Notify, CycleInv, QueuesInOrder, storeVars
  <2> QED
    BY <2>4 DEF PagesHaveRows, Open
<1> QED
  BY <1>1, <1>2

(* If inserts and requests to PagerDuty succeed, the loop alone closes rows *)
(* and it is not stopped halfway, no incident outlives its alert between    *)
(* cycles, whichever collections, reads, refreshes and resolves fail.       *)
THEOREM IncidentsEndWithAlerts ==
  ASSUME {"ui", "sweep", "insert", "pagerduty", "crash"} \cap Environment = {}
  PROVE  Spec => []NoOrphanIncident
<1>1. Init => PagesHaveRows /\ LooseEnds(incidents)
  BY DEF Init, NoCycle, PagesHaveRows, LooseEnds
<1>2. CycleInv /\ PagesHaveRows /\ [Next]_vars => PagesHaveRows'
  BY PagesHaveRowsKept
<1>3. CycleInv /\ PagesHaveRows /\ LooseEnds(incidents) /\ [Next]_vars => LooseEnds(incidents)'
  BY IncidentsKept
<1>4. CycleInv /\ LooseEnds(incidents) => NoOrphanIncident
  BY DEF CycleInv, QueuesInOrder, LooseEnds, NoOrphanIncident
<1> QED
  BY <1>1, <1>2, <1>3, <1>4, CycleInvariance, PTL DEF Spec

-----------------------------------------------------------------------------
(* The life of an alert                                                     *)

(* Nobody but the loop closes rows, and its reads, inserts and requests     *)
(* succeed.                                                                 *)
LoopAlone == {"ui", "sweep", "read", "insert", "pagerduty", "crash"} \cap Environment = {}

(* What is still to be announced has not been; what the cycle read is open  *)
(* until it is refreshed, and what it resolves until it does; what is being *)
(* closed is closed, unless a user writes the next firing by hand.          *)
RowsInStep ==
    /\ \A k \in cycle.notify \ cycle.persist : told[k] \in {None, "manual"}
    /\ pc \in {"account", "insert"} => \A k \in Keys : InSnapshot(k) => Open(k)
    /\ \A k \in cycle.resolve : Open(k)
    /\ \A k \in cycle.closing : Open(k) => told[k] = "manual"

LEMMA RowsInStepKept ==
  ASSUME LoopAlone, CycleInv, RowsInStep, [Next]_vars
  PROVE  RowsInStep'
<1> USE DEF RowsInStep, InSnapshot, Open
<1> /\ cycle \in CycleType /\ rows \in [Keys -> SeverityOrNone]
    /\ told \in [Keys -> SeverityOrNone \cup {"quiet", "manual"}]
    /\ QueuesInOrder /\ NothingQueuedYet /\ PersistIsObserved /\ ResolveNeedsCleanStreak
  BY DEF CycleInv, IInv, TypeOK
<1>1. ASSUME NEW untrusted \in SUBSET Instances, NEW lost \in SUBSET Keys,
             Observe(untrusted, lost)
      PROVE  RowsInStep'
  BY <1>1 DEF Observe, NoCycle
<1>2. ASSUME NEW unread \in SUBSET Instances, Snapshot(unread) PROVE RowsInStep'
  <2>1. unread = {} /\ UNCHANGED <<rows, told>>
    BY <1>2 DEF Snapshot, LoopAlone, storeVars
  <2>2. /\ cycle'.notify = {} /\ cycle'.resolve = {} /\ cycle'.closing = {}
        /\ \A k \in Keys : cycle'.db[k] = rows[k]
    BY <1>2, <2>1 DEF Snapshot, CycleType, QueuesInOrder, NothingQueuedYet
  <2> QED
    BY <2>1, <2>2
<1>3. CASE Account
  <2>1. /\ cycle'.notify \subseteq cycle'.persist /\ cycle'.resolve = CleanEnough
        /\ cycle'.closing = cycle.closing /\ cycle'.db = cycle.db
        /\ UNCHANGED <<rows, told>> /\ pc = "account"
    BY <1>3 DEF Account, CycleType, storeVars
  <2>2. CleanEnough \subseteq {k \in Keys : InSnapshot(k)}
    BY DEF CleanEnough, Counted, Missing
  <2> QED
    BY <2>1, <2>2
<1>4. ASSUME NEW j \in Keys, Insert(j) PROVE RowsInStep'
  <2>1. /\ pc = "insert" /\ pc' = pc /\ j \in cycle.persist /\ cycle.current[j] # None
        /\ rows' = [rows EXCEPT ![j] = cycle.current[j]]
        /\ told' = [told EXCEPT ![j] = IF j \in cycle.notify THEN None ELSE "quiet"]
    BY <1>4 DEF Insert, LoopAlone, PersistIsObserved, Observed
  <2>2. /\ cycle'.persist = cycle.persist \ {j} /\ cycle'.notify = cycle.notify
        /\ cycle'.resolve = cycle.resolve /\ cycle'.closing = cycle.closing
        /\ cycle'.db = cycle.db
    BY <1>4 DEF Insert, CycleType
  <2>3. cycle.closing = {}
    BY <2>1 DEF QueuesInOrder
  <2> QED
    BY <2>1, <2>2, <2>3 DEF CycleType
<1>5. CASE Refresh
  <2>1. /\ pc = "insert" /\ pc' = "resolve" /\ UNCHANGED <<cycle, told>>
    BY <1>5 DEF Refresh
  <2>2. \A k \in Keys : Open(k) => Open(k)'
    BY <1>5 DEF Refresh, ToTouch, Observed
  <2>3. cycle.closing = {}
    BY <2>1 DEF QueuesInOrder
  <2> QED
    BY <2>1, <2>2, <2>3 DEF CycleType
<1>6. ASSUME NEW j \in Keys, ResolveRow(j) PROVE RowsInStep'
  BY <1>6 DEF ResolveRow, CycleType
<1>7. ASSUME NEW j \in Keys, ResolveFails(j) \/ AnnounceResolve(j) PROVE RowsInStep'
  BY <1>7 DEF ResolveFails, AnnounceResolve, CycleType, storeVars
<1>8. ASSUME NEW j \in Keys, Notify(j) PROVE RowsInStep'
  BY <1>8 DEF Notify, CycleType, storeVars, QueuesInOrder
<1>9. CASE EndCycle
  BY <1>9 DEF EndCycle, NoCycle
<1>10. CASE ResolvesDone
  BY <1>10 DEF ResolvesDone, storeVars
<1>11. CASE UNCHANGED <<rows, told, cycle, pc>>
  BY <1>11
<1>13. ASSUME NEW j \in Keys, Trigger(j) PROVE RowsInStep'
  <2>1. /\ Open(j)' /\ told'[j] = "manual" /\ UNCHANGED <<cycle, pc>>
        /\ \A k \in Keys \ {j} : rows'[k] = rows[k] /\ told'[k] = told[k]
    BY <1>13, TriggerOpens DEF Trigger, CycleInv, IInv
  <2> QED
    BY <2>1 DEF CycleType
<1>12. ASSUME Others \/ UNCHANGED vars, \A k \in Keys : ~Trigger(k)
       PROVE  UNCHANGED <<rows, told, cycle, pc>>
  BY <1>12 DEF Others, LoopAlone, vars, storeVars, ResolveFromDashboard, ClearCleanChecks,
               GrowStale, SweepStale, SetMaintenance, SetSnooze, Acknowledge,
               ConditionChanges, PageGapElapses, Restart
<1> QED
  BY <1>1, <1>2, <1>3, <1>4, <1>5, <1>6, <1>7, <1>8, <1>9, <1>10, <1>11, <1>12, <1>13
     DEF Next, Reconcile

(* One alert gets on with its life.                                         *)
LEMMA StageChanges ==
  ASSUME NEW k \in Keys, NEW stage, Stage(k)' = stage,
         \A j \in Keys \ {k} : Stage(j)' = Stage(j)
  PROVE  L!Becomes(k, stage)
  BY DEF L!Becomes

LifeInv ==
    /\ CycleInv /\ RowsInStep
    /\ NothingOpensMeanwhile /\ UntoldIsQueued /\ PagesHaveRows

(* The step of the abstract alert that a step of the loop is.               *)
LEMMA InsertRecords ==
  ASSUME LoopAlone, LifeInv, NEW k \in Keys, Insert(k)
  PROVE  L!Record(k)
<1> /\ cycle \in CycleType /\ rows \in [Keys -> SeverityOrNone]
    /\ told \in [Keys -> SeverityOrNone \cup {"quiet", "manual"}]
  BY DEF LifeInv, CycleInv, IInv, TypeOK
<1>1. /\ cycle.current[k] # None /\ k \in cycle.persist /\ cycle.closing = {}
      /\ Open(k) => told[k] = "manual"
      /\ cycle'.closing = cycle.closing
      /\ rows' = [rows EXCEPT ![k] = cycle.current[k]]
      /\ told' = [told EXCEPT ![k] = IF k \in cycle.notify THEN None ELSE "quiet"]
      /\ UNCHANGED <<acked, incidents>>
  BY DEF Insert, LoopAlone, userVars, pagerVars, CycleType, LifeInv, CycleInv, IInv,
         PersistIsObserved, Observed, QueuesInOrder, NothingOpensMeanwhile, OneFiringPerKey
<1>2. Stage(k) \in {"clear", "manual"}
  BY <1>1 DEF Stage, None
<1>3. Open(k)' /\ told'[k] \in {None, "quiet"}
  BY <1>1 DEF Open
<1>4. Stage(k)' = "pending" \/ Stage(k)' = "silent"
  BY <1>1, <1>3 DEF Stage, Open
<1>5. \A j \in Keys \ {k} : Stage(j)' = Stage(j)
  BY <1>1 DEF Stage, Open
<1>6. L!Becomes(k, "pending") \/ L!Becomes(k, "silent")
  BY <1>4, <1>5, StageChanges
<1> QED
  BY <1>1, <1>2, <1>6 DEF L!Record

LEMMA NotifyAnnounces ==
  ASSUME LoopAlone, LifeInv, NEW k \in Keys, Notify(k)
  PROVE  L!Announce(k)
<1> /\ cycle \in CycleType /\ told \in [Keys -> SeverityOrNone \cup {"quiet", "manual"}]
  BY DEF LifeInv, CycleInv, IInv, TypeOK
<1>1. /\ k \in cycle.notify /\ cycle.persist = {} /\ cycle.closing = {}
      /\ cycle.current[k] # None /\ Open(k) /\ told[k] \in {None, "manual"}
  BY DEF Notify, LifeInv, CycleInv, QueuesInOrder, Observed, PagesHaveRows, RowsInStep
<1>2. /\ cycle'.closing = cycle.closing /\ rows' = rows /\ acked' = acked
      /\ told' = [told EXCEPT ![k] = cycle.current[k]]
      /\ incidents' = incidents \cup {k} \/ incidents' = incidents
  BY DEF Notify, CycleType, storeVars, userVars, pagerVars
<1>3. Stage(k) \in {"pending", "manual"}
  BY <1>1 DEF Stage, None
<1>4. Stage(k)' = "announced"
  <2>1. cycle.current[k] \notin {"quiet", "manual"} /\ told'[k] = cycle.current[k]
    BY <1>2 DEF CycleType, SeverityOrNone, Severities, None
  <2> QED
    BY <1>1, <1>2, <2>1 DEF Stage, Open
<1>5. \A j \in Keys \ {k} : Stage(j)' = Stage(j)
  BY <1>2 DEF Stage, Open
<1>6. L!Becomes(k, "announced")
  BY <1>4, <1>5, StageChanges
<1> QED
  BY <1>2, <1>3, <1>6 DEF L!Announce

LEMMA ResolveCloses ==
  ASSUME LifeInv, NEW k \in Keys, ResolveRow(k)
  PROVE  L!Close(k)
<1> /\ cycle \in CycleType /\ rows \in [Keys -> SeverityOrNone]
  BY DEF LifeInv, CycleInv, IInv, TypeOK
<1>1. /\ k \in cycle.resolve /\ cycle.closing = {} /\ cycle'.closing = {k}
      /\ rows' = [rows EXCEPT ![k] = None] /\ UNCHANGED <<told, acked, incidents>>
  BY DEF ResolveRow, CycleType, userVars, pagerVars
<1>2. Open(k)
  BY <1>1 DEF LifeInv, RowsInStep
<1>3. k \notin cycle.notify
  BY <1>1 DEF LifeInv, CycleInv, QueuesInOrder, IInv, ResolveNeedsCleanStreak
<1>4. Stage(k) \in {"silent", "announced", "manual"}
  BY <1>1, <1>2, <1>3 DEF Stage, LifeInv, UntoldIsQueued
<1>5. Stage(k)' = "closing"
  BY <1>1 DEF Stage
<1>6. \A j \in Keys \ {k} : Stage(j)' = Stage(j)
  BY <1>1 DEF Stage, Open
<1>7. L!Becomes(k, "closing")
  BY <1>5, <1>6, StageChanges
<1> QED
  BY <1>1, <1>4, <1>7 DEF L!Close

LEMMA AnnounceResolveSettles ==
  ASSUME LoopAlone, LifeInv, NEW k \in Keys, AnnounceResolve(k)
  PROVE  L!Settle(k)
<1> cycle \in CycleType /\ acked \subseteq [key : Keys, whileOpen : BOOLEAN]
  BY DEF LifeInv, CycleInv, IInv, TypeOK
<1>1. /\ cycle.closing = {k} /\ cycle'.closing = {} /\ (Open(k) => told[k] = "manual")
      /\ UNCHANGED <<rows, told>> /\ incidents' = incidents \ {k}
      /\ acked' = {a \in acked : a.key # k} /\ k \in cycle.closing
  BY DEF AnnounceResolve, LoopAlone, CycleType, storeVars, LifeInv, CycleInv, QueuesInOrder,
         RowsInStep
<1>6. /\ \A j \in Keys : j \notin cycle'.closing /\ (Open(j)' <=> Open(j))
      /\ \A j \in Keys \ {k} : j \notin cycle.closing
  BY <1>1 DEF Open
<1>2. Stage(k) = "closing" /\ Stage(k)' \in {"clear", "manual"}
  BY <1>1, <1>6 DEF Stage, None
<1>3. \A j \in Keys \ {k} : Stage(j)' = Stage(j)
  BY <1>1, <1>6 DEF Stage
<1>4. L!Becomes(k, "clear") \/ L!Becomes(k, "manual")
  BY <1>2, <1>3, StageChanges
<1>5. {a.key : a \in acked'} = {a.key : a \in acked} \ {k}
  BY <1>1
<1> QED
  BY <1>1, <1>2, <1>4, <1>5 DEF L!Settle

LEMMA AcknowledgeAcknowledges ==
  ASSUME NEW k \in Keys, Acknowledge(k)
  PROVE  L!Acknowledge(k)
<1>1. /\ acked' = acked \cup {[key |-> k, whileOpen |-> Open(k)]}
      /\ UNCHANGED <<cycle, rows, told, incidents>>
  BY DEF Acknowledge, storeVars, pagerVars
<1>2. \A j \in Keys : Stage(j)' = Stage(j)
  BY <1>1 DEF Stage, Open
<1>3. {a.key : a \in acked'} = {a.key : a \in acked} \cup {k}
  <2> DEFINE new == [key |-> k, whileOpen |-> Open(k)]
  <2>1. new.key = k /\ acked' = acked \cup {new}
    BY <1>1
  <2> HIDE DEF new
  <2> QED
    BY <2>1
<1> QED
  BY <1>1, <1>2, <1>3 DEF L!Acknowledge

(* An alert that is being closed stays in that stage.                       *)
LEMMA TriggerWritesByHand ==
  ASSUME LifeInv, NEW k \in Keys, Trigger(k)
  PROVE  L!WriteByHand(k) \/ UNCHANGED L!vars
<1>1. /\ Open(k)' /\ told'[k] = "manual"
      /\ \A j \in Keys \ {k} : rows'[j] = rows[j] /\ told'[j] = told[j]
  BY TriggerOpens DEF LifeInv, CycleInv, IInv
<1>2. UNCHANGED <<cycle, acked, incidents>>
  BY DEF Trigger, userVars, pagerVars
<1>3. \A j \in Keys \ {k} : Stage(j)' = Stage(j)
  BY <1>1, <1>2 DEF Stage, Open
<1>4. CASE k \in cycle.closing
  <2>1. \A j \in Keys : Stage(j)' = Stage(j)
    BY <1>2, <1>3, <1>4 DEF Stage
  <2> QED
    BY <1>2, <2>1 DEF L!vars
<1>5. CASE k \notin cycle.closing
  <2>1. Stage(k) # "closing" /\ Stage(k)' = "manual"
    BY <1>1, <1>2, <1>5 DEF Stage, None
  <2>2. L!Becomes(k, "manual")
    BY <1>3, <2>1, StageChanges
  <2> QED
    BY <1>2, <2>1, <2>2 DEF L!WriteByHand
<1> QED
  BY <1>4, <1>5

(* A refresh rewrites rows that are open.                                   *)
LEMMA RefreshChangesNoLife ==
  ASSUME LifeInv, Refresh
  PROVE  UNCHANGED L!vars
<1> rows \in [Keys -> SeverityOrNone]
  BY DEF LifeInv, CycleInv, IInv, TypeOK
<1>1. pc = "insert" /\ UNCHANGED <<cycle, told, acked, incidents>>
  BY DEF Refresh, userVars, pagerVars
<1>2. \A k \in ToTouch : Open(k)
  BY <1>1 DEF LifeInv, RowsInStep, ToTouch
<1>3. \A k \in Keys : Open(k)' <=> Open(k)
  BY <1>2 DEF Refresh, ToTouch, Observed, Open
<1>4. \A k \in Keys : Stage(k)' = Stage(k)
  BY <1>1, <1>3 DEF Stage
<1> QED
  BY <1>1, <1>4 DEF L!vars

(* The other steps leave the life of every alert as it is.                  *)
LEMMA OtherStepsChangeNoLife ==
  ASSUME LoopAlone, LifeInv, [Next]_vars, ~Refresh,
         \A k \in Keys : /\ ~Insert(k) /\ ~Notify(k) /\ ~ResolveRow(k)
                         /\ ~AnnounceResolve(k) /\ ~Acknowledge(k) /\ ~Trigger(k)
  PROVE  UNCHANGED L!vars
<1> cycle \in CycleType /\ NothingQueuedYet /\ QueuesInOrder
  BY DEF LifeInv, CycleInv, IInv, TypeOK
<1>1. UNCHANGED <<rows, told>>
  BY RowsFrame DEF LoopAlone, ResolveFromDashboard, SweepStale
<1>2. UNCHANGED <<acked, incidents>>
  BY DEF Next, Reconcile, Others, LoopAlone, vars, userVars, pagerVars, Observe, Snapshot,
         Account, ResolveFails, ResolvesDone, EndCycle, ResolveFromDashboard,
         ClearCleanChecks, GrowStale, SweepStale, SetMaintenance, SetSnooze,
         ConditionChanges, PageGapElapses, Restart
<1>3. cycle'.closing = cycle.closing
  <2>1. ASSUME NEW untrusted \in SUBSET Instances, NEW lost \in SUBSET Keys,
               Observe(untrusted, lost)
        PROVE  cycle'.closing = cycle.closing
    BY <2>1 DEF Observe, NoCycle, NothingQueuedYet
  <2>2. ASSUME NEW unread \in SUBSET Instances, Snapshot(unread)
        PROVE  cycle'.closing = cycle.closing
    BY <2>2 DEF Snapshot, CycleType
  <2>3. CASE Account
    BY <2>3 DEF Account, CycleType
  <2>4. ASSUME NEW k \in Keys, ResolveFails(k) PROVE cycle'.closing = cycle.closing
    BY <2>4 DEF ResolveFails, CycleType
  <2>5. CASE EndCycle
    BY <2>5 DEF EndCycle, NoCycle, QueuesInOrder
  <2> QED
    BY <2>1, <2>2, <2>3, <2>4, <2>5
       DEF Next, Reconcile, Others, LoopAlone, vars, ResolvesDone, ResolveFromDashboard,
           ClearCleanChecks, GrowStale, SweepStale, SetMaintenance, SetSnooze,
           ConditionChanges, PageGapElapses, Restart
<1>4. \A k \in Keys : Stage(k)' = Stage(k)
  BY <1>1, <1>3 DEF Stage, Open
<1> QED
  BY <1>2, <1>4 DEF L!vars

LEMMA StepIsALifeStep ==
  ASSUME LoopAlone, LifeInv, [Next]_vars
  PROVE  [L!Next]_(L!vars)
<1>1. ASSUME NEW k \in Keys, \/ Insert(k) \/ Notify(k) \/ ResolveRow(k)
                             \/ AnnounceResolve(k) \/ Acknowledge(k)
      PROVE  L!Next
  BY <1>1, InsertRecords, NotifyAnnounces, ResolveCloses, AnnounceResolveSettles,
     AcknowledgeAcknowledges DEF L!Next
<1>4. ASSUME NEW k \in Keys, Trigger(k) PROVE [L!Next]_(L!vars)
  BY <1>4, TriggerWritesByHand DEF L!Next
<1>2. CASE Refresh
  BY <1>2, RefreshChangesNoLife
<1>3. CASE ~Refresh /\ \A k \in Keys : /\ ~Insert(k) /\ ~Notify(k) /\ ~ResolveRow(k)
                                       /\ ~AnnounceResolve(k) /\ ~Acknowledge(k) /\ ~Trigger(k)
  BY <1>3, OtherStepsChangeNoLife
<1> QED
  BY <1>1, <1>2, <1>3, <1>4

(* The reconcile loop implements the life of an alert: if nobody else       *)
(* closes rows, it is not stopped halfway, and its reads of the table, its  *)
(* inserts and its requests to PagerDuty succeed, then every firing it      *)
(* records is recorded once, announced once and closed after its            *)
(* announcement, and takes incident and acknowledgments with it, also if    *)
(* users acknowledge alerts that do not fire and write firings by hand.     *)
THEOREM LifecycleImplemented ==
  ASSUME LoopAlone
  PROVE  Spec => ImplementsLifecycle
<1>1. /\ "read" \notin Environment /\ "crash" \notin Environment
      /\ {"ui", "sweep", "insert", "crash"} \cap Environment = {}
  BY DEF LoopAlone
<1>2. Init => /\ RowsInStep /\ NothingOpensMeanwhile /\ UntoldIsQueued /\ PagesHaveRows
              /\ L!Init
  <2> SUFFICES ASSUME Init
               PROVE  /\ RowsInStep /\ NothingOpensMeanwhile /\ UntoldIsQueued /\ PagesHaveRows
                      /\ L!Init
    OBVIOUS
  <2>1. RowsInStep /\ NothingOpensMeanwhile /\ UntoldIsQueued /\ PagesHaveRows
    BY DEF Init, NoCycle, RowsInStep, NothingOpensMeanwhile, OneFiringPerKey, UntoldIsQueued,
           PagesHaveRows, Open, InSnapshot
  <2>2. \A k \in Keys : Stage(k) = "clear"
    BY DEF Init, NoCycle, Stage, Open
  <2> QED
    BY <2>1, <2>2 DEF Init, L!Init
<1>3. CycleInv /\ RowsInStep /\ [Next]_vars => RowsInStep'
  BY RowsInStepKept
<1>4. CycleInv /\ NothingOpensMeanwhile /\ [Next]_vars => NothingOpensMeanwhile'
  BY <1>1, NothingOpensKept
<1>5. CycleInv /\ UntoldIsQueued /\ [Next]_vars => UntoldIsQueued'
  BY <1>1, UntoldIsQueuedKept
<1>6. CycleInv /\ PagesHaveRows /\ [Next]_vars => PagesHaveRows'
  BY <1>1, PagesHaveRowsKept
<1>7. LifeInv /\ [Next]_vars => [L!Next]_(L!vars)
  BY StepIsALifeStep
<1> QED
  BY <1>2, <1>3, <1>4, <1>5, <1>6, <1>7, CycleInvariance, PTL
     DEF Spec, LifeInv, ImplementsLifecycle, L!Spec
=============================================================================
