--------------------------- MODULE PollLoopProofs ---------------------------
(* Safety of the circuit breaker for every set of instances and collectors  *)
(* and every limit.                                                         *)
EXTENDS PollLoop, TLAPS

-----------------------------------------------------------------------------
(* The inductive invariant                                                  *)

(* What the last poll found stays in snaps until the next one starts.       *)
IdleAfterHandOver == pc = "idle" => todo = {} /\ handed = snaps

(* An instance adds one snapshot a poll: an alarm, a collection or neither. *)
OneSnapshot ==
    /\ snaps.alarms \cap snaps.collected = {}
    /\ (snaps.alarms \cup snaps.collected) \cap todo = {}

(* The alarm of this poll is the full count and the backoff entry.          *)
AlarmIsFullCount ==
    \A i \in Instances \ todo : i \in snaps.alarms <=> failures[i] = FailureLimit

(* An instance of which an alarm was handed over is still to be looked at,  *)
(* with the entry that makes it an alarm again, or has been.                *)
AlarmCarriedOver ==
    \A i \in handed.alarms :
        \/ i \in snaps.alarms \cup snaps.collected
        \/ i \in todo /\ failures[i] = FailureLimit

CountIsHonest == \A i \in Instances : failures[i] <= silent[i]

IInv == /\ TypeOK
        /\ IdleAfterHandOver
        /\ OneSnapshot
        /\ AlarmIsFullCount
        /\ AlarmCarriedOver
        /\ CountIsHonest

-----------------------------------------------------------------------------
(* Type correctness                                                         *)

LEMMA NoSnapsTyped == NoSnaps \in SnapsType
  BY DEF NoSnaps, SnapsType

LEMMA TypeInit == Init => TypeOK
<1> SUFFICES ASSUME Init PROVE TypeOK
  OBVIOUS
<1>1. MapsAgree
  BY LimitAssumption DEF Init, MapsAgree
<1> QED
  BY <1>1, LimitAssumption, NoSnapsTyped DEF Init, TypeOK

LEMMA CountingIsBounded ==
  ASSUME NEW n \in 0 .. FailureLimit
  PROVE  /\ CountUpTo(FailureLimit, n) \in 0 .. FailureLimit
         /\ CountUpTo(FailureLimit, n) = FailureLimit <=> n + 1 >= FailureLimit
         /\ \A m \in 0 .. FailureLimit :
               n <= m => CountUpTo(FailureLimit, n) <= CountUpTo(FailureLimit, m)
  BY LimitAssumption DEF CountUpTo

LEMMA TypeCollect ==
  ASSUME TypeOK, NEW i \in Instances, NEW failing \in SUBSET Collectors,
         Collect(i, failing)
  PROVE  TypeOK'
<1>1. failures[i] \in 0 .. FailureLimit /\ silent[i] \in 0 .. FailureLimit
  BY DEF TypeOK
<1>2. silent' \in [Instances -> 0 .. FailureLimit]
  BY <1>1, CountingIsBounded, LimitAssumption DEF Collect, TypeOK
<1>3. snaps' \in SnapsType
  <2>1. CASE failing \cap reporting = Collectors
    BY <2>1 DEF Collect, CollectionFailed, TypeOK, SnapsType
  <2>2. CASE failing \cap reporting # Collectors
    <3>1. /\ snaps.collected \cup {i} \subseteq Instances
          /\ snaps.trusted \cup {i} \subseteq Instances
          /\ snaps.trusted \subseteq Instances
      BY DEF TypeOK, SnapsType
    <3>2. PICK trusted \in SUBSET Instances :
            snaps' = [snaps EXCEPT !.collected = @ \cup {i}, !.trusted = trusted]
      BY <2>2, <3>1 DEF Collect, CollectionFailed
    <3> QED
      BY <3>1, <3>2 DEF TypeOK, SnapsType
  <2> QED
    BY <2>1, <2>2
<1>4. /\ failures' \in [Instances -> 0 .. FailureLimit]
      /\ backoff' \in [Instances -> {"none", "running", "over"}]
      /\ MapsAgree'
  <2>1. CASE CountFailure(i)
    BY <1>1, <2>1, CountingIsBounded, LimitAssumption
       DEF CountFailure, Tripped, TypeOK, MapsAgree
  <2>2. CASE ResetBreaker(i)
    BY <2>2, LimitAssumption DEF ResetBreaker, TypeOK, MapsAgree
  <2> QED
    BY <2>1, <2>2 DEF Collect
<1> QED
  BY <1>2, <1>3, <1>4 DEF Collect, TypeOK

LEMMA TypePoll == TypeOK /\ Poll => TypeOK'
<1> SUFFICES ASSUME TypeOK, Poll PROVE TypeOK'
  OBVIOUS
<1> USE DEF TypeOK, MapsAgree, breakerVars
<1>1. ASSUME NEW channel \in {"ticker", "forcePoll"}, StartPoll(channel) PROVE TypeOK'
  BY <1>1, NoSnapsTyped DEF StartPoll, Receive
<1>2. ASSUME NEW i \in Instances, Skip(i) PROVE TypeOK'
  BY <1>2 DEF Skip, SnapsType
<1>3. CASE HandOver
  BY <1>3 DEF HandOver
<1> QED
  BY <1>1, <1>2, <1>3, TypeCollect DEF Poll

LEMMA TypeWorld == TypeOK /\ World => TypeOK'
<1> SUFFICES ASSUME TypeOK, World PROVE TypeOK'
  OBVIOUS
<1> USE DEF TypeOK, MapsAgree, breakerVars
<1>1. CASE TickerFires \/ RequestPoll
  BY <1>1 DEF TickerFires, RequestPoll, Send
<1>2. ASSUME NEW i \in Instances, BackoffEnds(i) PROVE TypeOK'
  BY <1>2 DEF BackoffEnds
<1>3. ASSUME NEW i \in Instances, GoesDown(i) \/ ComesBack(i) PROVE TypeOK'
  BY <1>3 DEF GoesDown, ComesBack
<1>4. CASE Restart
  BY <1>4, LimitAssumption, NoSnapsTyped DEF Restart
<1> QED
  BY <1>1, <1>2, <1>3, <1>4 DEF World

-----------------------------------------------------------------------------
(* Preservation                                                             *)

LEMMA IInvInit == Init => IInv
  BY TypeInit, LimitAssumption
     DEF Init, IInv, IdleAfterHandOver, OneSnapshot, AlarmIsFullCount, AlarmCarriedOver,
         CountIsHonest, NoSnaps

LEMMA StartKeepsIInv ==
  ASSUME IInv, NEW channel \in {"ticker", "forcePoll"}, StartPoll(channel)
  PROVE  IInv'
<1> handed = snaps /\ TypeOK
  BY DEF StartPoll, IInv, IdleAfterHandOver
<1>1. TypeOK'
  BY TypePoll DEF Poll
<1>2. AlarmCarriedOver'
  BY DEF StartPoll, breakerVars, IInv, IdleAfterHandOver, AlarmIsFullCount,
         AlarmCarriedOver, TypeOK, SnapsType
<1>3. (IdleAfterHandOver /\ OneSnapshot /\ AlarmIsFullCount)'
  BY DEF StartPoll, IdleAfterHandOver, OneSnapshot, AlarmIsFullCount, NoSnaps
<1>4. CountIsHonest'
  BY DEF StartPoll, breakerVars, IInv, CountIsHonest
<1> QED
  BY <1>1, <1>2, <1>3, <1>4 DEF IInv

LEMMA SkipKeepsIInv ==
  ASSUME IInv, NEW i \in Instances, Skip(i)
  PROVE  IInv'
<1> TypeOK /\ TypeOK'
  BY TypePoll DEF Poll, IInv
<1>1. /\ snaps'.alarms = snaps.alarms \cup {i} /\ snaps'.collected = snaps.collected
      /\ todo' = todo \ {i}
      /\ UNCHANGED <<failures, silent, handed, pc>>
  BY DEF Skip, TypeOK, SnapsType, breakerVars
<1>2. i \in todo /\ failures[i] = FailureLimit
  BY DEF Skip, InBackoff, TypeOK, MapsAgree
<1>3. IdleAfterHandOver'
  BY <1>1, <1>2 DEF IInv, IdleAfterHandOver
<1>4. OneSnapshot' /\ AlarmIsFullCount' /\ AlarmCarriedOver' /\ CountIsHonest'
  BY <1>1, <1>2
     DEF IInv, OneSnapshot, AlarmIsFullCount, AlarmCarriedOver, CountIsHonest
<1> QED
  BY <1>3, <1>4 DEF IInv

(* A collection fails: the count and, if it is full, the alarm.             *)
LEMMA FailedCollectKeepsIInv ==
  ASSUME IInv, NEW i \in Instances, NEW failing \in SUBSET Collectors,
         Collect(i, failing), failing \cap reporting = Collectors
  PROVE  IInv'
<1> TypeOK /\ TypeOK'
  BY TypeCollect DEF IInv
<1>1. i \in todo /\ todo' = todo \ {i} /\ UNCHANGED <<handed, pc>>
  BY DEF Collect
<1>2. failing = Collectors
  OBVIOUS
<1>3. /\ failures[i] \in 0 .. FailureLimit /\ silent[i] \in 0 .. FailureLimit
      /\ failures' = [failures EXCEPT ![i] = CountUpTo(FailureLimit, @)]
      /\ silent' = [silent EXCEPT ![i] = CountUpTo(FailureLimit, @)]
  BY <1>2 DEF Collect, CollectionFailed, CountFailure, TypeOK
<1>4. /\ snaps'.alarms = IF failures'[i] = FailureLimit THEN snaps.alarms \cup {i}
                                                         ELSE snaps.alarms
      /\ snaps'.collected = snaps.collected
  BY <1>3, CountingIsBounded DEF Collect, CollectionFailed, Tripped, TypeOK, SnapsType
<1>5. IdleAfterHandOver'
  BY <1>1 DEF IInv, IdleAfterHandOver
<1>6. OneSnapshot'
  BY <1>1, <1>4 DEF IInv, OneSnapshot
<1>7. AlarmIsFullCount'
  BY <1>1, <1>3, <1>4 DEF IInv, TypeOK, OneSnapshot, AlarmIsFullCount
<1>8. failures[i] = FailureLimit => failures'[i] = FailureLimit
  BY <1>3, LimitAssumption DEF TypeOK, CountUpTo
<1>9. AlarmCarriedOver'
  BY <1>1, <1>3, <1>4, <1>8 DEF IInv, TypeOK, SnapsType, AlarmCarriedOver
<1>10. CountIsHonest'
  BY <1>3, CountingIsBounded DEF IInv, TypeOK, CountIsHonest
<1> QED
  BY <1>5, <1>6, <1>7, <1>9, <1>10 DEF IInv

LEMMA GoodCollectKeepsIInv ==
  ASSUME IInv, NEW i \in Instances, NEW failing \in SUBSET Collectors,
         Collect(i, failing), failing \cap reporting # Collectors
  PROVE  IInv'
<1> TypeOK /\ TypeOK'
  BY TypeCollect DEF IInv
<1>1. i \in todo /\ todo' = todo \ {i} /\ UNCHANGED <<handed, pc>>
  BY DEF Collect
<1>2. failures' = [failures EXCEPT ![i] = 0]
  BY DEF Collect, CollectionFailed, ResetBreaker
<1>3. snaps'.alarms = snaps.alarms /\ snaps'.collected = snaps.collected \cup {i}
  BY DEF Collect, CollectionFailed, TypeOK, SnapsType
<1>4. silent'[i] \in Nat /\ \A j \in Instances \ {i} : silent'[j] = silent[j]
  BY LimitAssumption DEF Collect, TypeOK
<1>5. IdleAfterHandOver' /\ OneSnapshot'
  BY <1>1, <1>3 DEF IInv, IdleAfterHandOver, OneSnapshot
<1>6. AlarmIsFullCount'
  BY <1>1, <1>2, <1>3, LimitAssumption DEF IInv, TypeOK, OneSnapshot, AlarmIsFullCount
<1>7. AlarmCarriedOver'
  BY <1>1, <1>2, <1>3 DEF IInv, TypeOK, SnapsType, AlarmCarriedOver
<1>8. CountIsHonest'
  BY <1>2, <1>4 DEF IInv, TypeOK, CountIsHonest
<1> QED
  BY <1>5, <1>6, <1>7, <1>8 DEF IInv

LEMMA HandOverKeepsIInv == IInv /\ HandOver => IInv'
<1> SUFFICES ASSUME IInv, HandOver PROVE IInv'
  OBVIOUS
<1>1. TypeOK'
  BY TypePoll DEF Poll, IInv
<1>2. (IdleAfterHandOver /\ OneSnapshot /\ AlarmIsFullCount /\ CountIsHonest)'
  BY DEF HandOver, breakerVars, IInv, IdleAfterHandOver, OneSnapshot, AlarmIsFullCount,
         CountIsHonest
<1>3. AlarmCarriedOver'
  BY DEF HandOver, AlarmCarriedOver
<1> QED
  BY <1>1, <1>2, <1>3 DEF IInv

LEMMA WorldKeepsIInv == IInv /\ World => IInv'
<1> SUFFICES ASSUME IInv, World PROVE IInv'
  OBVIOUS
<1>1. TypeOK'
  BY TypeWorld DEF IInv
<1>2. CASE Restart
  BY <1>1, <1>2, LimitAssumption
     DEF Restart, IInv, IdleAfterHandOver, OneSnapshot, AlarmIsFullCount, AlarmCarriedOver,
         CountIsHonest, NoSnaps
<1>3. CASE UNCHANGED <<failures, silent, pc, todo, snaps, handed>>
  BY <1>1, <1>3
     DEF IInv, IdleAfterHandOver, OneSnapshot, AlarmIsFullCount, AlarmCarriedOver,
         CountIsHonest
<1>4. Restart \/ UNCHANGED <<failures, silent, pc, todo, snaps, handed>>
  BY DEF World, TickerFires, RequestPoll, Send, BackoffEnds, GoesDown, ComesBack, breakerVars
<1> QED
  BY <1>2, <1>3, <1>4

LEMMA NextKeepsIInv == IInv /\ [Next]_vars => IInv'
<1> SUFFICES ASSUME IInv, [Next]_vars PROVE IInv'
  OBVIOUS
<1>1. CASE UNCHANGED vars
  BY <1>1 DEF vars, breakerVars, IInv, TypeOK, MapsAgree, IdleAfterHandOver,
              OneSnapshot, AlarmIsFullCount, AlarmCarriedOver, CountIsHonest
<1>2. CASE Poll
  BY <1>2, StartKeepsIInv, SkipKeepsIInv, FailedCollectKeepsIInv, GoodCollectKeepsIInv,
     HandOverKeepsIInv DEF Poll
<1> QED
  BY <1>1, <1>2, WorldKeepsIInv DEF Next

(* Types, and the agreement of the two maps of the breaker.                 *)
THEOREM BreakerInvariance == Spec => []IInv
  BY IInvInit, NextKeepsIInv, PTL DEF Spec

THEOREM BreakerTypeCorrect == Spec => []TypeOK
<1>1. IInv => TypeOK
  BY DEF IInv
<1> QED
  BY <1>1, BreakerInvariance, PTL

-----------------------------------------------------------------------------
(* The alert                                                                *)

(* A connectivity alert means FailureLimit attempts without an answer.      *)
THEOREM AlarmsAreTrue == Spec => []NoFalseAlarm
<1>1. IInv => NoFalseAlarm
  <2> SUFFICES ASSUME IInv, NEW i \in snaps.alarms \cup handed.alarms,
                      i \notin snaps.collected
               PROVE  silent[i] = FailureLimit
    BY DEF NoFalseAlarm
  <2>1. i \in Instances /\ failures[i] \in Nat /\ silent[i] \in 0 .. FailureLimit
    BY LimitAssumption DEF IInv, TypeOK, SnapsType
  <2>2. failures[i] = FailureLimit
    BY <2>1 DEF IInv, OneSnapshot, AlarmIsFullCount, AlarmCarriedOver
  <2> QED
    BY <2>1, <2>2, LimitAssumption DEF IInv, CountIsHonest
<1> QED
  BY <1>1, BreakerInvariance, PTL

HeldByThisStep == pc' = "idle" => handed.alarms \ handed'.alarms \subseteq handed'.collected

(* From one poll to the next the alert is only dropped by a collection.     *)
THEOREM AlarmIsHeld == Spec => AlarmHeld
<1>1. IInv /\ [Next]_vars => HeldByThisStep
  <2> SUFFICES ASSUME IInv, [Next]_vars PROVE HeldByThisStep
    OBVIOUS
  <2>1. CASE HandOver
    BY <2>1 DEF HandOver, HeldByThisStep, IInv, AlarmCarriedOver
  <2>2. CASE UNCHANGED handed
    BY <2>2 DEF HeldByThisStep
  <2>3. CASE Restart
    BY <2>3 DEF Restart, HeldByThisStep
  <2>4. HandOver \/ UNCHANGED handed \/ Restart
    BY DEF Next, Poll, World, vars, StartPoll, Skip, Collect,
           TickerFires, RequestPoll, Send, BackoffEnds, GoesDown, ComesBack
  <2> QED
    BY <2>1, <2>2, <2>3, <2>4
<1>2. IInv /\ [Next]_vars => [HeldByThisStep]_vars
  BY <1>1
<1>3. Spec => [][HeldByThisStep]_vars
  BY BreakerInvariance, <1>2, PTL DEF Spec
<1> QED
  BY <1>3 DEF AlarmHeld, HeldByThisStep

-----------------------------------------------------------------------------
(* When the breaker never opens                                             *)

LEMMA ShutWithoutAll ==
  ASSUME TypeOK, BreakerNeedsAll, reporting # Collectors, [Next]_vars
  PROVE  BreakerNeedsAll'
<1>1. /\ snaps.alarms = {} /\ handed.alarms = {}
      /\ \A i \in Instances : failures[i] = 0 /\ backoff[i] = "none"
  BY DEF BreakerNeedsAll
<1>2. ASSUME NEW i \in Instances, NEW failing \in SUBSET Collectors, Collect(i, failing)
      PROVE  BreakerNeedsAll'
  <2>1. ~CollectionFailed(failing \cap reporting)
    <3>1. reporting \subseteq Collectors
      BY CollectorsAssumption DEF TypeOK
    <3> QED
      BY <3>1 DEF CollectionFailed
  <2>2. snaps'.alarms = snaps.alarms /\ handed' = handed
    BY <1>2, <2>1 DEF Collect, TypeOK, SnapsType
  <2>3. \A j \in Instances : failures'[j] = 0 /\ backoff'[j] = "none"
    BY <1>1, <1>2, <2>1 DEF Collect, ResetBreaker, TypeOK
  <2> QED
    BY <1>1, <2>2, <2>3 DEF BreakerNeedsAll
<1>3. CASE HandOver
  BY <1>1, <1>3 DEF HandOver, breakerVars, BreakerNeedsAll
<1>4. ASSUME NEW channel \in {"ticker", "forcePoll"}, StartPoll(channel)
      PROVE  BreakerNeedsAll'
  BY <1>1, <1>4 DEF StartPoll, NoSnaps, breakerVars, BreakerNeedsAll
<1>5. CASE Restart
  BY <1>5 DEF Restart, NoSnaps, BreakerNeedsAll
<1>6. ASSUME NEW i \in Instances, Skip(i) \/ BackoffEnds(i)
      PROVE  FALSE
  BY <1>1, <1>6 DEF Skip, InBackoff, BackoffEnds
<1>7. CASE UNCHANGED <<reporting, failures, backoff, snaps, handed>>
  BY <1>7 DEF BreakerNeedsAll
<1>8. \/ \E i \in Instances, failing \in SUBSET Collectors : Collect(i, failing)
      \/ HandOver \/ Restart
      \/ \E channel \in {"ticker", "forcePoll"} : StartPoll(channel)
      \/ \E i \in Instances : Skip(i) \/ BackoffEnds(i)
      \/ UNCHANGED <<reporting, failures, backoff, snaps, handed>>
  BY DEF Next, Poll, World, vars, breakerVars, TickerFires, RequestPoll, Send,
         GoesDown, ComesBack
<1> QED
  BY <1>2, <1>3, <1>4, <1>5, <1>6, <1>7, <1>8

(* Unless every collector returns the errors of its queries, the breaker    *)
(* never opens: nothing is counted, nothing backs off, and no instance is   *)
(* ever reported unreachable.                                               *)
THEOREM BreakerStaysShut == Spec => []BreakerNeedsAll
<1>1. Init => BreakerNeedsAll
  BY DEF Init, NoSnaps, BreakerNeedsAll
<1>2. TypeOK /\ BreakerNeedsAll /\ [Next]_vars => BreakerNeedsAll'
  <2>1. reporting' = reporting \/ ~[Next]_vars
    BY DEF Next, Poll, World, vars, StartPoll, Skip, Collect, HandOver, TickerFires,
           RequestPoll, Send, BackoffEnds, GoesDown, ComesBack, Restart
  <2>2. reporting' = Collectors => BreakerNeedsAll'
    BY DEF BreakerNeedsAll
  <2> QED
    BY <2>1, <2>2, ShutWithoutAll
<1> QED
  BY <1>1, <1>2, BreakerTypeCorrect, PTL DEF Spec
=============================================================================
