-------------------------- MODULE AlertTableProofs --------------------------
(* Proofs about AlertTable, for every number of firings and versions.       *)
EXTENDS AlertTable, FiniteSetTheorems, TLAPS

-----------------------------------------------------------------------------
(* Greatest elements                                                        *)

(* A bounded set of numbers has a greatest one: of the intervals from its   *)
(* elements to the bound, one contains no smaller one.                      *)
LEMMA GreatestExists ==
  ASSUME NEW S \in SUBSET Nat, S # {}, NEW bound \in Nat, \A x \in S : x <= bound
  PROVE  \E x \in S : \A y \in S : x >= y
<1> DEFINE above == {x .. bound : x \in S}
<1>1. above \subseteq FiniteSubsetsOf(Nat) /\ above # {}
  <2>1. ASSUME NEW x \in S PROVE x .. bound \in FiniteSubsetsOf(Nat)
    <3>1. IsFiniteSet(x .. bound)
      BY FS_Interval
    <3>2. x .. bound \in SUBSET Nat
      OBVIOUS
    <3> QED
      BY <3>1, <3>2 DEF FiniteSubsetsOf
  <2> QED
    BY <2>1
<1>2. PICK least \in above : \A s \in above : <<s, least>> \notin StrictSubsetOrdering(Nat)
  BY <1>1, WFMin, FS_StrictSubsetOrderingWellFounded
<1>3. PICK x \in S : least = x .. bound
  BY <1>2
<1>4. ASSUME NEW y \in S PROVE x >= y
  <2> SUFFICES ASSUME x < y PROVE FALSE
    OBVIOUS
  <2>1. (y .. bound) \subseteq least /\ x \in least /\ x \notin y .. bound
    BY <1>3
  <2>2. <<y .. bound, least>> \in StrictSubsetOrdering(Nat)
    BY <2>1, <1>1, <1>2 DEF StrictSubsetOrdering, FiniteSubsetsOf
  <2> QED
    BY <1>2, <2>2
<1> QED
  BY <1>4

LEMMA MaxIsGreatest ==
  ASSUME NEW S \in SUBSET Nat, S # {}, NEW bound \in Nat, \A x \in S : x <= bound
  PROVE  Max(S) \in S /\ \A y \in S : Max(S) >= y
<1>1. \E x \in S : \A y \in S : x >= y
  BY GreatestExists
<1> QED
  BY <1>1 DEF Max

(* The greatest element is the only one.                                    *)
LEMMA MaxIs ==
  ASSUME NEW S \in SUBSET Nat, NEW x \in S, \A y \in S : x >= y
  PROVE  Max(S) = x
<1>1. S # {} /\ x \in Nat /\ \A y \in S : y <= x
  OBVIOUS
<1>2. Max(S) \in S /\ Max(S) >= x
  BY <1>1, MaxIsGreatest
<1>3. x >= Max(S) /\ Max(S) \in Nat
  BY <1>2
<1> QED
  BY <1>1, <1>2, <1>3

-----------------------------------------------------------------------------
(* Types                                                                    *)

(* The orders given out so far have a bound, and a firing counts at most as *)
(* many firings as its clock does.                                          *)
Bounded ==
    /\ \E bound \in Nat : \A r \in rows : r.order <= bound
    /\ \A r \in rows : r.fireCount <= r.created /\ r.created <= fired
    /\ \A w \in Writers : \A p \in pending[w] : p.fireCount <= p.created /\ p.created <= fired

Typed == TypeOK /\ Bounded

LEMMA RowFields ==
  ASSUME NEW r \in Row
  PROVE  /\ r.created \in Nat /\ r.version \in Nat /\ r.fireCount \in Nat /\ r.order \in Nat
         /\ r.created \in 1 .. MaxFirings /\ r.version \in 1 .. MaxVersion
         /\ r.fireCount \in 1 .. MaxFirings /\ r.resolved \in BOOLEAN /\ r.aged \in BOOLEAN
  BY BoundsAssumption DEF Row

LEMMA FiringsHaveMax ==
  ASSUME TypeOK, rows # {}
  PROVE  /\ Firings \in SUBSET Nat
         /\ Max(Firings) \in Firings
         /\ \A c \in Firings : Max(Firings) >= c
<1>1. Firings \in SUBSET Nat /\ Firings # {} /\ \A c \in Firings : c <= MaxFirings
  BY RowFields DEF TypeOK, Firings
<1> QED
  BY <1>1, MaxIsGreatest, BoundsAssumption

LEMMA LatestExists ==
  ASSUME TypeOK, NEW c \in Firings
  PROVE  Latest(c) # {}
<1> DEFINE versions == {r.version : r \in RowsOf(c)}
<1>1. versions \in SUBSET Nat /\ versions # {} /\ \A v \in versions : v <= MaxVersion
  BY RowFields DEF TypeOK, Firings, RowsOf
<1>2. PICK v \in versions : \A u \in versions : v >= u
  BY <1>1, GreatestExists, BoundsAssumption
<1>3. PICK r \in RowsOf(c) : v = r.version
  BY <1>2
<1> QED
  BY <1>2, <1>3 DEF Latest

LEMMA FinalIsLatest ==
  ASSUME Typed, NEW c \in Firings
  PROVE  Final(c) \in Latest(c)
<1> DEFINE orders == {r.order : r \in Latest(c)}
<1>1. PICK bound \in Nat : \A r \in rows : r.order <= bound
  BY DEF Typed, Bounded
<1>2. Latest(c) \subseteq rows /\ rows \subseteq Row /\ Latest(c) # {}
  BY LatestExists DEF Latest, RowsOf, Typed, TypeOK
<1>3. orders \in SUBSET Nat /\ orders # {} /\ \A o \in orders : o <= bound
  BY <1>1, <1>2, RowFields
<1>4. PICK o \in orders : \A q \in orders : o >= q
  BY <1>3, GreatestExists
<1>5. PICK r \in Latest(c) : o = r.order
  BY <1>4
<1>6. \A s \in Latest(c) : s.order <= r.order
  <2> TAKE s \in Latest(c)
  <2>1. r.order >= s.order
    BY <1>4, <1>5
  <2> QED
    BY <2>1, <1>2, RowFields
<1> QED
  BY <1>5, <1>6 DEF Final

LEMMA NextOrderBound ==
  ASSUME TypeOK, NEW bound \in Nat, \A r \in rows : r.order <= bound, NEW p \in Row
  PROVE  NextOrder(p) \in Nat /\ NextOrder(p) <= bound + 1
<1> DEFINE equal == {s \in RowsOf(p.created) : s.version = p.version}
           orders == {0} \cup {s.order : s \in equal}
<1>1. orders \in SUBSET Nat /\ orders # {} /\ \A o \in orders : o <= bound
  BY RowFields DEF TypeOK, RowsOf
<1>2. Max(orders) \in orders
  BY <1>1, MaxIsGreatest
<1>3. NextOrder(p) = 1 + Max(orders)
  BY DEF NextOrder
<1> QED
  BY <1>1, <1>2, <1>3

LEMMA PriorFireCountBound ==
  ASSUME Typed
  PROVE  PriorFireCount \in Nat /\ PriorFireCount <= fired
<1>1. CASE rows = {}
  BY <1>1 DEF PriorFireCount, Typed, TypeOK
<1>2. CASE rows # {}
  <2> DEFINE counts == {r.fireCount : r \in rows}
  <2>1. counts \in SUBSET Nat /\ counts # {} /\ \A n \in counts : n <= MaxFirings
    BY <1>2, RowFields DEF Typed, TypeOK
  <2>2. Max(counts) \in counts
    BY <2>1, MaxIsGreatest, BoundsAssumption
  <2>3. PICK r \in rows : Max(counts) = r.fireCount
    BY <2>2
  <2>4. r.fireCount \in Nat /\ r.created \in Nat /\ fired \in Nat
    BY RowFields, BoundsAssumption DEF Typed, TypeOK
  <2> QED
    BY <1>2, <2>3, <2>4 DEF PriorFireCount, Typed, Bounded
<1> QED
  BY <1>1, <1>2

LEMMA PickedAreLatest ==
  ASSUME NEW pick \in Readings, NEW r \in pick
  PROVE  r \in rows /\ r.created \in Firings /\ r \in Latest(r.created)
  BY DEF Readings, Latest, RowsOf, Firings

(* What Commit leaves in the table.                                         *)
LEMMA CommitRows ==
  ASSUME TypeOK, NEW w \in Writers, Commit(w)
  PROVE  /\ rows \subseteq rows'
         /\ \A r \in rows' \ rows : \E p \in pending[w] :
               /\ r.created = p.created /\ r.version = p.version /\ r.resolved = p.resolved
               /\ r.fireCount = p.fireCount /\ r.order = NextOrder(p)
         /\ \A p \in pending[w] : \E r \in rows' :
               /\ r.created = p.created /\ r.version = p.version /\ r.resolved = p.resolved
               /\ r.fireCount = p.fireCount
<1>1. pending[w] \subseteq Row
  BY DEF TypeOK
<1>2. rows' = rows \cup {[p EXCEPT !.order = NextOrder(p)] : p \in pending[w]}
  BY DEF Commit
<1>3. \A p \in pending[w] :
         LET r == [p EXCEPT !.order = NextOrder(p)]
         IN  /\ r.created = p.created /\ r.version = p.version /\ r.resolved = p.resolved
             /\ r.fireCount = p.fireCount /\ r.order = NextOrder(p)
  BY <1>1 DEF Row
<1> QED
  BY <1>2, <1>3

LEMMA CommitKeepsTypes ==
  ASSUME Typed, NEW w \in Writers, Commit(w)
  PROVE  Typed'
<1>1. PICK bound \in Nat : \A r \in rows : r.order <= bound
  BY DEF Typed, Bounded
<1>2. rows \subseteq Row /\ pending[w] \subseteq Row /\ fired \in Nat
  BY BoundsAssumption DEF Typed, TypeOK
<1>3. \A p \in pending[w] : NextOrder(p) \in Nat /\ NextOrder(p) <= bound + 1
  BY <1>1, <1>2, NextOrderBound DEF Typed
<1>4. rows' \subseteq Row
  <2>1. ASSUME NEW p \in pending[w] PROVE [p EXCEPT !.order = NextOrder(p)] \in Row
    BY <1>2, <1>3 DEF Row
  <2> QED
    BY <1>2, <2>1 DEF Commit
<1>5. TypeOK'
  BY <1>4 DEF Commit, Typed, TypeOK
<1>6. \A r \in rows' : r.order <= bound + 1 /\ r.fireCount <= r.created /\ r.created <= fired
  <2> TAKE r \in rows'
  <2>1. CASE r \in rows
    BY <1>1, <1>2, <2>1, RowFields DEF Typed, Bounded
  <2>2. CASE r \notin rows
    BY <1>3, <2>2, CommitRows DEF Typed, Bounded
  <2> QED
    BY <2>1, <2>2
<1>7. Bounded'
  <2>1. fired' = fired /\ pending' = [pending EXCEPT ![w] = {}] /\ bound + 1 \in Nat
    BY DEF Commit
  <2> QED
    BY <1>6, <2>1 DEF Bounded, Typed, TypeOK
<1> QED
  BY <1>5, <1>7 DEF Typed

(* A statement that is begun.                                               *)
LEMMA BeginKeepsTypes ==
  ASSUME Typed, NEW w \in Writers, NEW new, Begin(w, new),
         \A p \in new : p.version <= MaxVersion => p \in Row,
         \A p \in new : p.fireCount <= p.created /\ p.created <= fired',
         fired' \in fired .. MaxFirings, cycle' \in {"idle", "open", "closed"},
         outdated' \subseteq Writers, UNCHANGED <<environment, rows, starting>>
  PROVE  Typed'
<1>1. new \subseteq Row /\ pending' = [pending EXCEPT ![w] = new] /\ writing' \subseteq Writers
  BY DEF Begin, Typed, TypeOK
<1>2. pending \in [Writers -> SUBSET Row] /\ rows \subseteq Row /\ fired \in Nat
  BY BoundsAssumption DEF Typed, TypeOK
<1>3. TypeOK'
  BY <1>1, <1>2, BoundsAssumption DEF Typed, TypeOK
<1>4. \A r \in rows : r.fireCount <= r.created /\ r.created <= fired'
  BY <1>2, RowFields, BoundsAssumption DEF Typed, Bounded
<1>5. \A v \in Writers : \A p \in pending'[v] : p.fireCount <= p.created /\ p.created <= fired'
  <2> TAKE v \in Writers
  <2> TAKE p \in pending'[v]
  <2>1. CASE v = w
    BY <1>1, <1>2, <2>1
  <2>2. CASE v # w
    <3>1. p \in pending[v] /\ p \in Row
      BY <1>1, <1>2, <2>2
    <3> QED
      BY <3>1, <1>2, RowFields, BoundsAssumption DEF Typed, Bounded
  <2> QED
    BY <2>1, <2>2
<1> QED
  BY <1>3, <1>4, <1>5 DEF Typed, Bounded

(* One version further than a row of the table.                             *)
LEMMA NextVersions ==
  ASSUME Typed, NEW r \in rows
  PROVE  /\ Resolving(r).version <= MaxVersion => Resolving(r) \in Row
         /\ Resolving(r).fireCount <= Resolving(r).created /\ Resolving(r).created <= fired
         /\ Refreshed(r).version <= MaxVersion => Refreshed(r) \in Row
         /\ Refreshed(r).fireCount <= Refreshed(r).created /\ Refreshed(r).created <= fired
<1>1. r \in Row /\ r.fireCount <= r.created /\ r.created <= fired
  BY DEF Typed, TypeOK, Bounded
<1>2. 1 \in 1 .. MaxFirings /\ r.version + 1 \in Nat /\ 1 <= r.created
  BY <1>1, RowFields, BoundsAssumption
<1>3. r.version + 1 <= MaxVersion => r.version + 1 \in 1 .. MaxVersion
  BY <1>1, <1>2, RowFields, BoundsAssumption
<1>4. /\ Resolving(r).version = r.version + 1 /\ Resolving(r).fireCount = 1
      /\ Resolving(r).created = r.created
      /\ Refreshed(r).version = r.version + 1 /\ Refreshed(r).fireCount = r.fireCount
      /\ Refreshed(r).created = r.created
  BY <1>1 DEF Resolving, Refreshed, Row
<1>5. r.version + 1 \in 1 .. MaxVersion => Resolving(r) \in Row /\ Refreshed(r) \in Row
  BY <1>1, <1>2 DEF Resolving, Refreshed, Row
<1> QED
  BY <1>1, <1>2, <1>3, <1>4, <1>5

LEMMA NextKeepsTypes == Typed /\ [Next]_vars => Typed'
<1> SUFFICES ASSUME Typed, [Next]_vars PROVE Typed'
  OBVIOUS
<1> rows \subseteq Row /\ fired \in 0 .. MaxFirings /\ fired \in Nat
  BY BoundsAssumption DEF Typed, TypeOK
<1>1. ASSUME NEW w \in Writers, Commit(w) PROVE Typed'
  BY <1>1, CommitKeepsTypes
<1>2. ASSUME NEW w \in Writers, Fail(w) PROVE Typed'
  BY <1>2 DEF Fail, Typed, TypeOK, Bounded
<1>3. CASE Snapshot \/ Skip
  BY <1>3 DEF Snapshot, Skip, Answers, Reads, Writers, Typed, TypeOK, Bounded
<1>4. CASE InsertAlert
  <2>1. ASSUME NEW n \in {PriorFireCount + 1, 1}, Begin("reconcile", {NewFiring(n)})
        PROVE  Typed'
    <3>1. n \in Nat /\ n <= fired + 1 /\ 1 <= n /\ fired + 1 \in 1 .. MaxFirings
      <4>1. PriorFireCount \in Nat /\ PriorFireCount <= fired
        BY PriorFireCountBound
      <4>2. fired < MaxFirings
        BY <1>4 DEF InsertAlert
      <4> QED
        BY <4>1, <4>2, BoundsAssumption
    <3>2. NewFiring(n).version <= MaxVersion => NewFiring(n) \in Row
      BY <3>1, BoundsAssumption DEF NewFiring, Row
    <3>3. NewFiring(n).fireCount <= NewFiring(n).created /\ NewFiring(n).created <= fired'
      BY <1>4, <3>1 DEF NewFiring, InsertAlert
    <3>4. /\ fired' \in fired .. MaxFirings /\ cycle' = "idle" /\ outdated' \subseteq Writers
          /\ UNCHANGED <<environment, rows, starting>>
      BY <1>4, <3>1, BoundsAssumption DEF InsertAlert, Typed, TypeOK
    <3> QED
      BY <2>1, <3>2, <3>3, <3>4, BeginKeepsTypes DEF Writers
  <2> QED
    BY <1>4, <2>1 DEF InsertAlert
<1>5. CASE BulkRefreshAlerts
  <2>1. /\ fired' = fired /\ fired' \in fired .. MaxFirings /\ cycle' = "idle"
        /\ outdated' \subseteq Writers /\ UNCHANGED <<environment, rows, starting>>
    BY <1>5 DEF BulkRefreshAlerts, Typed, TypeOK
  <2>2. ASSUME NEW r \in Refreshable, Begin("reconcile", {Refreshed(r)}) PROVE Typed'
    BY <2>1, <2>2, NextVersions, BeginKeepsTypes DEF Refreshable, Open, Writers
  <2>3. ASSUME Begin("reconcile", {}) PROVE Typed'
    BY <2>1, <2>3, BeginKeepsTypes DEF Writers
  <2> QED
    BY <1>5, <2>2, <2>3 DEF BulkRefreshAlerts
<1>6. ASSUME NEW w \in Writers, NEW read \in SUBSET rows,
             Begin(w, {Resolving(r) : r \in read}), Reads(w), cycle' \in {cycle, "idle"},
             UNCHANGED <<environment, rows, starting, fired>>
      PROVE  Typed'
  <2>1. /\ fired' = fired /\ fired' \in fired .. MaxFirings /\ outdated' \subseteq Writers
        /\ cycle' \in {"idle", "open", "closed"}
    BY <1>6 DEF Reads, Typed, TypeOK
  <2> QED
    BY <1>6, <2>1, NextVersions, BeginKeepsTypes
<1>7. CASE ResolveAlert
  <2>1. PICK pick \in Readings : Begin("reconcile", {Resolving(r) : r \in Open(pick)})
    BY <1>7 DEF ResolveAlert
  <2>2. Open(pick) \in SUBSET rows
    BY PickedAreLatest DEF Open
  <2> QED
    BY <1>6, <1>7, <2>1, <2>2 DEF ResolveAlert, Writers
<1>8. CASE ResolveFromDashboard
  <2>1. PICK pick \in Readings : Begin("dashboard", {Resolving(r) : r \in Open(pick)})
    BY <1>8 DEF ResolveFromDashboard
  <2>2. Open(pick) \in SUBSET rows
    BY PickedAreLatest DEF Open
  <2> QED
    BY <1>6, <1>8, <2>1, <2>2 DEF ResolveFromDashboard, Writers
<1>9. CASE SweepStale
  <2> DEFINE swept == {r \in {Final(c) : c \in Firings} : ~r.resolved /\ r.aged}
  <2>1. swept \in SUBSET rows
    BY FinalIsLatest DEF Latest, RowsOf
  <2>2. Begin("heartbeat", {Resolving(r) : r \in swept})
    BY <1>9 DEF SweepStale
  <2> HIDE DEF swept
  <2> QED
    BY <1>6, <1>9, <2>1, <2>2 DEF SweepStale, Writers
<1>10. CASE Cleanup
  <2>1. /\ fired' = fired /\ fired' \in fired .. MaxFirings /\ outdated' \subseteq Writers
        /\ cycle' \in {"idle", "open", "closed"} /\ UNCHANGED <<environment, rows, starting>>
    <3>1. outdated' \subseteq Writers
      BY <1>10 DEF Cleanup, Reads, Writers, Typed, TypeOK
    <3>2. UNCHANGED <<environment, rows, cycle, starting, fired>>
      BY <1>10 DEF Cleanup
    <3> QED
      BY <3>1, <3>2, BoundsAssumption DEF Typed, TypeOK
  <2>2. ASSUME NEW pick \in Readings,
               Begin("reconcile", {[r EXCEPT !.version = @ + 1, !.resolved = TRUE,
                                             !.aged = FALSE] : r \in Ghosts(Open(pick))})
        PROVE  Typed'
    <3> DEFINE laid(r) == [r EXCEPT !.version = @ + 1, !.resolved = TRUE, !.aged = FALSE]
    <3>1. ASSUME NEW r \in rows
          PROVE  /\ laid(r).version <= MaxVersion => laid(r) \in Row
                 /\ laid(r).fireCount <= laid(r).created /\ laid(r).created <= fired'
      <4>1. r \in Row /\ r.fireCount <= r.created /\ r.created <= fired
        BY DEF Typed, Bounded
      <4>2. /\ laid(r).version = r.version + 1 /\ laid(r).fireCount = r.fireCount
            /\ laid(r).created = r.created
        BY <4>1 DEF Row
      <4>3. r.version + 1 <= MaxVersion => r.version + 1 \in 1 .. MaxVersion
        BY <4>1, RowFields, BoundsAssumption
      <4>4. r.version + 1 \in 1 .. MaxVersion => laid(r) \in Row
        BY <4>1 DEF Row
      <4> QED
        BY <2>1, <4>1, <4>2, <4>3, <4>4
    <3>2. Ghosts(Open(pick)) \subseteq rows
      BY PickedAreLatest DEF Ghosts, Open
    <3>3. Begin("reconcile", {laid(r) : r \in Ghosts(Open(pick))})
      BY <2>2
    <3> HIDE DEF laid
    <3> QED
      BY <2>1, <3>1, <3>2, <3>3, BeginKeepsTypes DEF Writers
  <2>3. ASSUME Begin("reconcile", {}) PROVE Typed'
    BY <2>1, <2>3, BeginKeepsTypes DEF Writers
  <2> QED
    BY <1>10, <2>2, <2>3 DEF Cleanup
<1>11. CASE Restart
  BY <1>11 DEF Restart, Typed, TypeOK, Bounded
<1>12. CASE Merge
  BY <1>12 DEF Merge, Typed, TypeOK, Bounded
<1>13. CASE RowsAge
  <2>1. \A r \in rows : LET s == [r EXCEPT !.aged = TRUE]
                       IN  /\ s \in Row /\ s.order = r.order
                           /\ s.fireCount = r.fireCount /\ s.created = r.created
    BY DEF Row
  <2>2. rows' = {[r EXCEPT !.aged = TRUE] : r \in rows}
    BY <1>13 DEF RowsAge
  <2>3. \A s \in rows' : \E r \in rows : /\ s \in Row /\ s.order = r.order
                                        /\ s.fireCount = r.fireCount /\ s.created = r.created
    BY <2>1, <2>2
  <2> QED
    BY <1>13, <2>3 DEF RowsAge, Typed, TypeOK, Bounded
<1>14. CASE UNCHANGED vars
  BY <1>14 DEF vars, Typed, TypeOK, Bounded
<1>15. CASE Trigger
  <2>1. Begin("trigger", {NewFiring(1)}) /\ fired + 1 \in 1 .. MaxFirings /\ fired' = fired + 1
    BY <1>15, BoundsAssumption DEF Trigger
  <2>2. NewFiring(1).version <= MaxVersion => NewFiring(1) \in Row
    BY <2>1, BoundsAssumption DEF NewFiring, Row
  <2>3. NewFiring(1).fireCount <= NewFiring(1).created /\ NewFiring(1).created <= fired'
    BY <2>1 DEF NewFiring
  <2>4. /\ fired' \in fired .. MaxFirings /\ cycle' \in {"idle", "open", "closed"}
        /\ outdated' \subseteq Writers /\ UNCHANGED <<environment, rows, starting>>
    BY <1>15, <2>1, BoundsAssumption DEF Trigger, Writers, Typed, TypeOK
  <2> QED
    BY <2>1, <2>2, <2>3, <2>4, BeginKeepsTypes DEF Writers
<1> QED
  BY <1>1, <1>2, <1>3, <1>4, <1>5, <1>7, <1>8, <1>9, <1>10, <1>11, <1>12, <1>13, <1>14, <1>15
     DEF Next

(* The type invariant holds, for which the bounds are needed.               *)
LEMMA TypeInvariance == Spec => []Typed
<1>1. Init => Typed
  <2> SUFFICES ASSUME Init PROVE Typed
    OBVIOUS
  <2>1. TypeOK
    <3>1. pending \in [Writers -> SUBSET Row]
      BY DEF Init
    <3>2. rows \subseteq Row /\ writing \subseteq Writers /\ outdated \subseteq Writers
      BY DEF Init
    <3>3. fired \in 0 .. MaxFirings
      BY BoundsAssumption DEF Init
    <3> QED
      BY <3>1, <3>2, <3>3 DEF Init, TypeOK
  <2>2. rows = {} /\ \A w \in Writers : pending[w] = {}
    BY DEF Init
  <2>3. \E bound \in Nat : \A r \in rows : r.order <= bound
    <3>1. 0 \in Nat /\ \A r \in rows : r.order <= 0
      BY <2>2
    <3> QED
      BY <3>1
  <2> QED
    BY <2>1, <2>2, <2>3 DEF Typed, Bounded
<1> QED
  BY <1>1, NextKeepsTypes, PTL DEF Spec

(* Rows, statements under way and the clocks keep their types under every   *)
(* interleaving of the writers, failures, restarts and merges.              *)
THEOREM TypeCorrect == Spec => []TypeOK
<1>1. Typed => TypeOK
  BY DEF Typed
<1> QED
  BY <1>1, TypeInvariance, PTL

-----------------------------------------------------------------------------
(* Merges                                                                   *)

(* A merge drops a row that another one of its firing supersedes: no firing *)
(* disappears, and no row becomes the latest that was not.                  *)
LEMMA MergeShrinks ==
  ASSUME Typed, Merge
  PROVE  /\ rows' \subseteq rows /\ rows # {} /\ rows' # {}
         /\ Firings' = Firings
         /\ \A c : Latest(c)' \subseteq Latest(c)
<1> rows \subseteq Row
  BY DEF Typed, TypeOK
<1>1. PICK r \in rows, s \in rows :
          r.created = s.created /\ Supersedes(r, s) /\ rows' = rows \ {s}
  BY DEF Merge
<1>2. r # s /\ r \in rows' /\ s.version <= r.version
  BY <1>1, RowFields DEF Supersedes
<1>3. Firings' = Firings
  BY <1>1, <1>2 DEF Firings
<1>4. ASSUME NEW c, NEW t \in Latest(c)' PROVE t \in Latest(c)
  <2>1. t \in rows /\ t.created = c /\ \A u \in rows' : u.created = c => u.version <= t.version
    BY <1>1, <1>4 DEF Latest, RowsOf
  <2>2. s.created = c => s.version <= t.version
    <3>1. s.created = c => r.version <= t.version
      BY <1>1, <1>2, <2>1
    <3> QED
      BY <1>2, <2>1, <3>1, RowFields
  <2> QED
    BY <1>1, <2>1, <2>2 DEF Latest, RowsOf
<1> QED
  BY <1>1, <1>2, <1>3, <1>4

LEMMA MergeKeepsAnswers ==
  ASSUME Typed, Merge
  PROVE  Answers' \subseteq Answers
<1>1. /\ rows # {} /\ rows' # {} /\ Firings' = Firings
      /\ Latest(Max(Firings))' \subseteq Latest(Max(Firings))
  BY MergeShrinks
<1> QED
  BY <1>1 DEF Answers

(* Whenever ClickHouse merges parts, readers without FINAL get no answer    *)
(* they could not have got before.                                          *)
THEOREM MergesChangeNoAnswer == Spec => MergesAreInvisible
<1> DEFINE Invisible == Merge => Answers' \subseteq Answers
<1>1. Typed /\ [Next]_vars => [Invisible]_vars
  BY MergeKeepsAnswers
<1>2. Spec => [][Invisible]_vars
  BY <1>1, TypeInvariance, PTL DEF Spec
<1> QED
  BY <1>2 DEF MergesAreInvisible

-----------------------------------------------------------------------------
(* Writes on the strength of a good read                                    *)

(* The rows a statement is about to append supersede what is stored of      *)
(* their firings.  They close firings that exist; or they refresh the       *)
(* newest, which is open, or begin a new one, while none is.                *)
Sound(new) ==
    /\ \A p \in new : \A r \in RowsOf(p.created) : r.version < p.version
    /\ \A p \in new : p.resolved => p.created \in Firings
    /\ \A p \in new : ~p.resolved =>
          /\ \A c \in Firings : c <= p.created
          /\ p.created \in Firings \/ "open" \notin Answers
          /\ p.created \notin Firings \/ "closed" \notin Answers
    /\ \A p, q \in new : p.resolved = q.resolved /\ (p.resolved \/ p.created = q.created)

(* Nothing was written since a writer that is not outdated has read.        *)
ReadsHold ==
    /\ \A w \in Writers \ writing : pending[w] = {}
    /\ starting => cycle = "idle" /\ writing \subseteq {"reconcile"}
    /\ "reconcile" \in writing => cycle = "idle"
    /\ \A w \in Writers \ outdated : Settled /\ Sound(pending[w])
    /\ "reconcile" \notin outdated =>
          /\ cycle = "closed" => "open" \notin Answers
          /\ cycle = "open" => "closed" \notin Answers

(* The newest firing, by what its rows say.                                 *)
LEMMA NewestIsMax ==
  ASSUME TypeOK, NEW c \in Firings, \A d \in Firings : d <= c
  PROVE  Max(Firings) = c
<1>1. Firings \in SUBSET Nat
  BY RowFields DEF TypeOK, Firings
<1>2. \A d \in Firings : c >= d
  BY <1>1
<1> QED
  BY <1>1, <1>2, MaxIs

LEMMA AnswersOfNewest ==
  ASSUME TypeOK, rows # {}
  PROVE  /\ "open" \in Answers <=> \E r \in Latest(Max(Firings)) : ~r.resolved
         /\ "closed" \in Answers <=> \E r \in Latest(Max(Firings)) : r.resolved
  BY DEF Answers

(* Rows of one firing and version say the same.                             *)
LEMMA SettledLatest ==
  ASSUME TypeOK, Settled, NEW c, NEW r \in Latest(c), NEW s \in Latest(c)
  PROVE  r.resolved = s.resolved
<1>1. r \in rows /\ s \in rows /\ r.created = s.created
  BY DEF Latest, RowsOf
<1>2. r.version <= s.version /\ s.version <= r.version
  BY DEF Latest
<1>3. r.version = s.version
  BY <1>1, <1>2, RowFields DEF TypeOK
<1> QED
  BY <1>1, <1>3 DEF Settled

(* The step that matters: a commit on the strength of a good read.          *)
LEMMA SoundCommit ==
  ASSUME TypeOK, NEW w \in Writers, Commit(w), Sound(pending[w]), Settled
  PROVE  Settled' /\ (Coherent => Coherent')
<1> rows \subseteq Row /\ pending[w] \subseteq Row
  BY DEF TypeOK
<1>1. /\ rows \subseteq rows'
      /\ \A r \in rows' \ rows : \E p \in pending[w] :
            r.created = p.created /\ r.version = p.version /\ r.resolved = p.resolved
      /\ \A p \in pending[w] : \E r \in rows' : r.created = p.created /\ r.version = p.version
  BY CommitRows
<1>2. Settled'
  <2> SUFFICES ASSUME NEW r \in rows', NEW s \in rows', r.created = s.created,
                      r.version = s.version
               PROVE  r.resolved = s.resolved
    BY DEF Settled
  <2>1. ASSUME NEW a \in rows, NEW b \in rows' \ rows, a.created = b.created
        PROVE  a.version # b.version
    <3>1. PICK p \in pending[w] : b.created = p.created /\ b.version = p.version
      BY <1>1
    <3>2. a.version < p.version
      BY <2>1, <3>1 DEF Sound, RowsOf
    <3> QED
      BY <3>1, <3>2, RowFields
  <2>2. CASE r \in rows /\ s \in rows
    BY <2>2 DEF Settled
  <2>3. CASE r \notin rows /\ s \notin rows
    BY <1>1, <2>3 DEF Sound
  <2> QED
    BY <2>1, <2>2, <2>3
<1>3. ASSUME Coherent PROVE Coherent'
  <2>1. \A c \in Firings' : c \in Firings \/ \E p \in pending[w] : ~p.resolved /\ p.created = c
    BY <1>1 DEF Firings, Sound
  <2>2. Firings \subseteq Firings' /\ Firings' \subseteq Nat
    <3>1. Firings' \subseteq Firings \cup {p.created : p \in pending[w]}
      BY <1>1 DEF Firings
    <3> QED
      BY <1>1, <3>1, RowFields DEF Firings
  <2>3. ASSUME NEW c \in Firings', NEW r \in Latest(c)', ~r.resolved, NEW d \in Firings'
        PROVE  d <= c
    <3>1. r \in rows' /\ r.created = c
      BY <2>3 DEF Latest, RowsOf
    <3>2. CASE r \notin rows
      <4>1. PICK p \in pending[w] : c = p.created /\ ~p.resolved
        BY <1>1, <2>3, <3>1, <3>2
      <4>2. CASE d \in Firings
        BY <4>1, <4>2 DEF Sound
      <4>3. CASE d \notin Firings
        <5>1. PICK q \in pending[w] : ~q.resolved /\ q.created = d
          BY <2>1, <2>3, <4>3
        <5>2. c = d
          BY <4>1, <5>1 DEF Sound
        <5> QED
          BY <2>2, <2>3, <5>2
      <4> QED
        BY <4>2, <4>3
    <3>3. CASE r \in rows
      <4>1. r \in Latest(c) /\ c \in Firings /\ rows # {}
        BY <1>1, <2>3, <3>1, <3>3 DEF Latest, RowsOf, Firings
      <4>2. c = Max(Firings)
        BY <1>3, <2>3, <4>1 DEF Coherent, OpenFirings
      <4>3. CASE d \in Firings
        BY <2>2, <4>1, <4>2, <4>3, FiringsHaveMax
      <4>4. CASE d \notin Firings
        <5>1. "open" \notin Answers
          BY <2>1, <2>3, <4>4 DEF Sound
        <5> QED
          BY <2>3, <4>1, <4>2, <5>1, AnswersOfNewest
      <4> QED
        BY <4>3, <4>4
    <3> QED
      BY <3>2, <3>3
  <2>4. ASSUME NEW c \in Firings', NEW r \in Latest(c)', ~r.resolved
        PROVE  c = Max(Firings')
    <3>1. \A d \in Firings' : c >= d
      BY <2>2, <2>3, <2>4
    <3> QED
      BY <2>2, <2>4, <3>1, MaxIs
  <2> QED
    BY <1>2, <2>4 DEF Coherent, OpenFirings
<1> QED
  BY <1>2, <1>3

(* Reading changes nothing.                                                 *)
LEMMA SameRows ==
  ASSUME rows' = rows
  PROVE  /\ Settled' = Settled /\ Answers' = Answers /\ Firings' = Firings
         /\ \A w \in Writers : Sound(pending'[w]) => Sound(pending[w])'
<1>1. Settled' = Settled
  BY DEF Settled
<1>2. Firings' = Firings /\ (\A c : RowsOf(c)' = RowsOf(c)) /\ \A c : Latest(c)' = Latest(c)
  BY DEF Firings, Latest, RowsOf
<1>3. Answers' = Answers
  BY <1>2 DEF Answers
<1> QED
  BY <1>1, <1>2, <1>3 DEF Sound

LEMMA SoundEmpty == Sound({})
  BY DEF Sound

(* Statements that resolve rows of the highest version.                     *)
LEMMA SoundResolves ==
  ASSUME TypeOK, NEW new,
         \A p \in new : p.resolved /\ \E r \in Latest(p.created) : p.version = r.version + 1
  PROVE  Sound(new)
<1>1. ASSUME NEW p \in new, NEW s \in RowsOf(p.created) PROVE s.version < p.version
  <2>1. PICK r \in Latest(p.created) : p.version = r.version + 1
    OBVIOUS
  <2>2. s.version <= r.version /\ r \in Row /\ s \in Row
    BY <2>1 DEF Latest, RowsOf, TypeOK
  <2> QED
    BY <2>1, <2>2, RowFields
<1>2. \A p \in new : p.created \in Firings
  BY DEF Latest, RowsOf, Firings
<1> QED
  BY <1>1, <1>2 DEF Sound

LEMMA SoundInsert ==
  ASSUME Typed, "open" \notin Answers, NEW n
  PROVE  Sound({NewFiring(n)})
<1> DEFINE p == NewFiring(n)
<1>1. p.created = fired + 1 /\ p.version = 1 /\ p.resolved = FALSE
  BY DEF NewFiring
<1>2. \A r \in rows : r.created < fired + 1 /\ r.created <= fired + 1
  <2> TAKE r \in rows
  <2>1. r.created <= fired /\ r.created \in Nat /\ fired \in Nat
    BY RowFields, BoundsAssumption DEF Typed, TypeOK, Bounded
  <2> QED
    BY <2>1
<1>3. RowsOf(p.created) = {}
  <2>1. \A r \in rows : r.created # fired + 1
    <3> TAKE r \in rows
    <3>1. r.created \in Nat /\ fired \in Nat
      BY RowFields, BoundsAssumption DEF Typed, TypeOK
    <3> QED
      BY <1>2, <3>1
  <2> QED
    BY <1>1, <2>1 DEF RowsOf
<1>4. \A c \in Firings : c <= p.created
  BY <1>1, <1>2 DEF Firings
<1>5. p.created \notin Firings
  BY <1>3 DEF RowsOf, Firings
<1> HIDE DEF p
<1> QED
  BY <1>1, <1>3, <1>4, <1>5 DEF Sound, p

LEMMA SoundRefresh ==
  ASSUME Typed, "closed" \notin Answers, NEW r \in Refreshable
  PROVE  Sound({Refreshed(r)})
<1>0. r \in rows /\ r \in Row /\ ~r.resolved /\ rows # {} /\ TypeOK
  BY DEF Refreshable, Open, Typed, TypeOK
<1> DEFINE newest == Max(Firings)
<1>1. newest \in Firings /\ Firings \in SUBSET Nat /\ \A c \in Firings : newest >= c
  BY <1>0, FiringsHaveMax
<1>2. PICK t \in Latest(newest) : TRUE
  BY <1>0, <1>1, LatestExists
<1>3. t \in rows /\ t \in Row /\ t.created = newest /\ ~t.resolved
  BY <1>0, <1>2, AnswersOfNewest DEF Latest, RowsOf, TypeOK
<1>4. \/ t.created < r.created
      \/ t.created = r.created /\ t.version <= r.version
  BY <1>3 DEF Refreshable, Open
<1>5. r.created \in Firings
  BY <1>0 DEF Firings
<1>6. r.created = newest /\ t.version <= r.version
  <2>1. newest >= r.created /\ newest \in Nat /\ r.created \in Nat
    BY <1>1, <1>5
  <2> HIDE DEF newest
  <2> QED
    BY <1>3, <1>4, <2>1
<1>7. \A s \in RowsOf(newest) : s.version < r.version + 1
  <2> TAKE s \in RowsOf(newest)
  <2>1. s.version <= t.version /\ s \in Row
    BY <1>0, <1>2 DEF Latest, RowsOf, TypeOK
  <2> QED
    BY <1>0, <1>3, <1>6, <2>1, RowFields
<1>8. /\ Refreshed(r).created = r.created /\ Refreshed(r).version = r.version + 1
      /\ Refreshed(r).resolved = FALSE
  BY <1>0 DEF Refreshed, Row
<1>9. \A c \in Firings : c <= newest
  BY <1>1
<1> HIDE DEF newest
<1> QED
  BY <1>1, <1>6, <1>7, <1>8, <1>9 DEF Sound

LEMMA BeginKeepsReads ==
  ASSUME TypeOK, ReadsHold, NEW w \in Writers, NEW new, Begin(w, new),
         rows' = rows, starting' = starting, starting => w = "reconcile",
         cycle' \in {cycle, "idle"}, w = "reconcile" => cycle' = "idle",
         \A v \in Writers : v # w /\ v \notin outdated' => v \notin outdated,
         w \notin outdated' => Settled /\ Sound(new)
  PROVE  ReadsHold'
<1>1. pending' = [pending EXCEPT ![w] = new] /\ writing' = writing \cup {w}
  BY DEF Begin
<1>2. pending \in [Writers -> SUBSET Row]
  BY DEF TypeOK
<1>3. \A v \in Writers \ writing' : pending'[v] = {}
  BY <1>1, <1>2 DEF ReadsHold
<1>4. ASSUME NEW v \in Writers, v \notin outdated' PROVE Settled' /\ Sound(pending[v])'
  <2>1. Settled /\ Sound(pending'[v])
    <3>1. CASE v = w
      BY <1>1, <1>2, <1>4, <3>1
    <3>2. CASE v # w
      BY <1>1, <1>2, <1>4, <3>2 DEF ReadsHold
    <3> QED
      BY <3>1, <3>2
  <2> QED
    BY <2>1, SameRows
<1>5. /\ starting' => cycle' = "idle" /\ writing' \subseteq {"reconcile"}
      /\ "reconcile" \in writing' => cycle' = "idle"
  BY <1>1 DEF ReadsHold
<1>6. "reconcile" \notin outdated' =>
          /\ cycle' = "closed" => "open" \notin Answers'
          /\ cycle' = "open" => "closed" \notin Answers'
  BY SameRows DEF ReadsHold, Writers
<1> QED
  BY <1>3, <1>4, <1>5, <1>6 DEF ReadsHold

LEMMA CommitKeepsReads ==
  ASSUME Typed, ReadsHold, NEW w \in Writers, Commit(w)
  PROVE  ReadsHold'
<1> TypeOK /\ pending \in [Writers -> SUBSET Row]
  BY DEF Typed, TypeOK
<1>1. /\ pending' = [pending EXCEPT ![w] = {}] /\ writing' = writing \ {w}
      /\ starting' = FALSE /\ cycle' = cycle /\ w \in writing
  BY DEF Commit
<1>2. \A v \in Writers \ writing' : pending'[v] = {}
  BY <1>1 DEF ReadsHold
<1>3. ASSUME NEW v \in Writers, v \notin outdated'
      PROVE  Settled' /\ Sound(pending[v])'
  <2>1. CASE pending[w] = {}
    <3>1. rows' = rows /\ outdated' = outdated
      BY <2>1 DEF Commit
    <3>2. pending'[v] = pending[v]
      BY <1>1, <2>1
    <3> QED
      BY <1>3, <3>1, <3>2, SameRows DEF ReadsHold
  <2>2. CASE pending[w] # {}
    <3>1. v = w /\ w \notin outdated
      BY <1>3, <2>2 DEF Commit
    <3>2. Settled /\ Sound(pending[w])
      BY <3>1 DEF ReadsHold
    <3>3. Settled'
      BY <3>2, SoundCommit
    <3>4. pending'[v] = {}
      BY <1>1, <3>1
    <3> QED
      BY <3>3, <3>4 DEF Sound
  <2> QED
    BY <2>1, <2>2
<1>4. "reconcile" \notin outdated' =>
          /\ cycle' = "closed" => "open" \notin Answers'
          /\ cycle' = "open" => "closed" \notin Answers'
  <2>1. CASE pending[w] = {}
    <3>1. rows' = rows /\ outdated' = outdated
      BY <2>1 DEF Commit
    <3> QED
      BY <1>1, <3>1, SameRows DEF ReadsHold
  <2>2. CASE pending[w] # {}
    <3>1. "reconcile" \notin outdated' => w = "reconcile"
      BY <2>2 DEF Commit, Writers
    <3> QED
      BY <1>1, <3>1 DEF ReadsHold
  <2> QED
    BY <2>1, <2>2
<1> QED
  BY <1>1, <1>2, <1>3, <1>4 DEF ReadsHold

LEMMA MergeKeepsReads ==
  ASSUME Typed, ReadsHold, Merge
  PROVE  ReadsHold'
<1>1. /\ rows' \subseteq rows /\ Firings' = Firings /\ Answers' \subseteq Answers
      /\ UNCHANGED <<pending, writing, cycle, starting, outdated>>
  BY MergeShrinks, MergeKeepsAnswers DEF Merge
<1>2. Settled => Settled'
  BY <1>1 DEF Settled
<1>3. \A w \in Writers : Sound(pending[w]) => Sound(pending[w])'
  BY <1>1 DEF Sound, RowsOf
<1> QED
  BY <1>1, <1>2, <1>3 DEF ReadsHold

LEMMA AgeingKeepsReads ==
  ASSUME Typed, ReadsHold, RowsAge
  PROVE  ReadsHold'
<1>1. \A r \in rows' : \E s \in rows : /\ r.created = s.created /\ r.version = s.version
                                      /\ r.resolved = s.resolved
  <2>1. \A s \in rows : LET r == [s EXCEPT !.aged = TRUE]
                       IN  /\ r.created = s.created /\ r.version = s.version
                           /\ r.resolved = s.resolved
    BY DEF Typed, TypeOK, Row
  <2> QED
    BY <2>1 DEF RowsAge
<1>2. /\ writing' = {} /\ cycle' = "idle" /\ outdated' = outdated
      /\ \A w \in Writers : pending'[w] = {}
  BY DEF RowsAge, ReadsHold
<1>3. Settled => Settled'
  BY <1>1 DEF Settled
<1>4. \A w \in Writers : Sound(pending[w])'
  BY <1>2 DEF Sound
<1> QED
  BY <1>2, <1>3, <1>4 DEF ReadsHold

(* A read that meets one answer holds, any other leaves its writer outdated.*)
LEMMA NextKeepsReads == Typed /\ ReadsHold /\ [Next]_vars => ReadsHold'
<1> SUFFICES ASSUME Typed, ReadsHold, [Next]_vars PROVE ReadsHold'
  OBVIOUS
<1> TypeOK /\ pending \in [Writers -> SUBSET Row] /\ rows \subseteq Row
  BY DEF Typed, TypeOK
<1>1. ASSUME NEW w \in Writers, Commit(w) PROVE ReadsHold'
  BY <1>1, CommitKeepsReads
<1>2. ASSUME NEW w \in Writers, Fail(w) PROVE ReadsHold'
  <2>1. /\ pending' = [pending EXCEPT ![w] = {}] /\ writing' = writing \ {w} /\ starting' = FALSE
        /\ UNCHANGED <<rows, cycle, outdated>>
    BY <1>2 DEF Fail
  <2>2. \A v \in Writers \ outdated : Settled /\ Sound(pending'[v])
    BY <2>1, SoundEmpty DEF ReadsHold
  <2> QED
    BY <2>1, <2>2, SameRows DEF ReadsHold
<1>3. CASE Snapshot
  <2>1. UNCHANGED <<rows, pending, writing, starting>> /\ "reconcile" \notin writing /\ ~starting
    BY <1>3 DEF Snapshot
  <2>2. \A v \in Writers \ outdated' : Settled /\ Sound(pending'[v])
    BY <1>3, <2>1, SoundEmpty DEF Snapshot, Reads, ReadsHold
  <2>3. ASSUME "reconcile" \notin outdated'
        PROVE  /\ cycle' = "closed" => "open" \notin Answers
               /\ cycle' = "open" => "closed" \notin Answers
    <3>1. Settled /\ cycle' \in Answers
      BY <1>3, <2>3 DEF Snapshot, Reads
    <3>2. CASE rows = {}
      BY <3>1, <3>2 DEF Answers
    <3>3. CASE rows # {}
      BY <3>1, <3>3, AnswersOfNewest, SettledLatest
    <3> QED
      BY <3>2, <3>3
  <2> QED
    BY <2>1, <2>2, <2>3, SameRows DEF ReadsHold
<1>4. CASE Skip
  <2>1. UNCHANGED <<rows, pending, writing, starting, outdated>> /\ cycle' = "idle"
    BY <1>4 DEF Skip
  <2> QED
    BY <2>1, SameRows DEF ReadsHold
<1>5. CASE InsertAlert
  <2>1. /\ UNCHANGED <<rows, starting, outdated>> /\ cycle' = "idle" /\ cycle = "closed"
    BY <1>5 DEF InsertAlert
  <2>2. PICK n : Begin("reconcile", {NewFiring(n)})
    BY <1>5 DEF InsertAlert
  <2>3. "reconcile" \notin outdated' => Settled /\ Sound({NewFiring(n)})
    BY <2>1, SoundInsert DEF ReadsHold, Writers
  <2> QED
    BY <2>1, <2>2, <2>3, BeginKeepsReads DEF Writers
<1>6. CASE BulkRefreshAlerts
  <2>1. /\ UNCHANGED <<rows, starting, outdated>> /\ cycle' = "idle" /\ cycle = "open"
    BY <1>6 DEF BulkRefreshAlerts
  <2>2. ASSUME NEW r \in Refreshable, Begin("reconcile", {Refreshed(r)}) PROVE ReadsHold'
    <3>1. "reconcile" \notin outdated' => Settled /\ Sound({Refreshed(r)})
      BY <2>1, SoundRefresh DEF ReadsHold, Writers
    <3> QED
      BY <2>1, <2>2, <3>1, BeginKeepsReads DEF Writers
  <2>3. ASSUME Begin("reconcile", {}) PROVE ReadsHold'
    <3>1. "reconcile" \notin outdated' => Settled /\ Sound({})
      BY <2>1, SoundEmpty DEF ReadsHold, Writers
    <3> QED
      BY <2>1, <2>3, <3>1, BeginKeepsReads DEF Writers
  <2> QED
    BY <1>6, <2>2, <2>3 DEF BulkRefreshAlerts
<1>7. ASSUME NEW w \in Writers, NEW read, \A r \in read : r \in rows /\ r \in Latest(r.created),
             Begin(w, {Resolving(r) : r \in read}), Reads(w), UNCHANGED <<rows, starting>>,
             starting => w = "reconcile", cycle' \in {cycle, "idle"},
             w = "reconcile" => cycle' = "idle"
      PROVE  ReadsHold'
  <2> DEFINE new == {Resolving(r) : r \in read}
  <2>1. \A r \in read : LET p == Resolving(r)
                       IN  p.resolved /\ p.created = r.created /\ p.version = r.version + 1
    BY <1>7 DEF Resolving, Row
  <2>2. \A p \in new : p.resolved /\ \E r \in Latest(p.created) : p.version = r.version + 1
    BY <1>7, <2>1
  <2> HIDE DEF new
  <2>3. Sound(new)
    BY <2>2, SoundResolves
  <2>4. (w \notin outdated' => Settled) /\ \A v \in Writers : v # w /\ v \notin outdated' => v \notin outdated
    BY <1>7 DEF Reads
  <2>5. Begin(w, new)
    BY <1>7 DEF new
  <2> QED
    BY <1>7, <2>3, <2>4, <2>5, BeginKeepsReads
<1>8. ASSUME NEW pick \in Readings PROVE \A r \in Open(pick) : r \in rows /\ r \in Latest(r.created)
  BY PickedAreLatest DEF Open
<1>9. CASE ResolveAlert
  <2>1. PICK pick \in Readings : Begin("reconcile", {Resolving(r) : r \in Open(pick)})
    BY <1>9 DEF ResolveAlert
  <2> QED
    BY <1>7, <1>8, <1>9, <2>1 DEF ResolveAlert, Writers
<1>10. CASE ResolveFromDashboard
  <2>1. PICK pick \in Readings : Begin("dashboard", {Resolving(r) : r \in Open(pick)})
    BY <1>10 DEF ResolveFromDashboard
  <2> QED
    BY <1>7, <1>8, <1>10, <2>1 DEF ResolveFromDashboard, Writers
<1>11. CASE SweepStale
  <2> DEFINE swept == {r \in {Final(c) : c \in Firings} : ~r.resolved /\ r.aged}
  <2>1. \A r \in swept : r \in rows /\ r \in Latest(r.created)
    BY FinalIsLatest DEF Latest, RowsOf
  <2>2. Begin("heartbeat", {Resolving(r) : r \in swept})
    BY <1>11 DEF SweepStale
  <2> HIDE DEF swept
  <2> QED
    BY <1>7, <1>11, <2>1, <2>2 DEF SweepStale, Writers
<1>12. CASE Cleanup
  <2>1. starting /\ UNCHANGED <<rows, cycle, starting>> /\ cycle = "idle"
    BY <1>12 DEF Cleanup, ReadsHold
  <2>2. ASSUME NEW pick \in Readings, Reads("reconcile"),
               Begin("reconcile", {[r EXCEPT !.version = @ + 1, !.resolved = TRUE,
                                             !.aged = FALSE] : r \in Ghosts(Open(pick))})
        PROVE  ReadsHold'
    <3> DEFINE new == {[r EXCEPT !.version = @ + 1, !.resolved = TRUE,
                                 !.aged = FALSE] : r \in Ghosts(Open(pick))}
    <3>1. \A r \in Ghosts(Open(pick)) : r \in Row /\ r \in Latest(r.created)
      BY <1>8 DEF Ghosts
    <3>2. \A p \in new : p.resolved /\ \E r \in Latest(p.created) : p.version = r.version + 1
      BY <3>1 DEF Row
    <3>3. Begin("reconcile", new)
      BY <2>2
    <3> HIDE DEF new
    <3>4. Sound(new)
      BY <3>2, SoundResolves
    <3>5. /\ "reconcile" \notin outdated' => Settled
          /\ \A v \in Writers : v # "reconcile" /\ v \notin outdated' => v \notin outdated
      BY <2>2 DEF Reads
    <3> QED
      BY <2>1, <3>3, <3>4, <3>5, BeginKeepsReads DEF Writers
  <2>3. ASSUME Begin("reconcile", {}), outdated' = outdated \cup {"reconcile"} PROVE ReadsHold'
    BY <2>1, <2>3, BeginKeepsReads DEF Writers
  <2> QED
    BY <1>12, <2>2, <2>3 DEF Cleanup
<1>13. CASE Restart
  BY <1>13 DEF Restart, ReadsHold, Writers
<1>14. CASE Merge
  BY <1>14, MergeKeepsReads
<1>15. CASE RowsAge
  BY <1>15, AgeingKeepsReads
<1>16. CASE UNCHANGED vars
  BY <1>16, SameRows DEF vars, ReadsHold
<1>17. CASE Trigger
  <2>1. /\ Begin("trigger", {NewFiring(1)}) /\ ~starting /\ outdated' = outdated \cup {"trigger"}
        /\ UNCHANGED <<rows, cycle, starting>>
    BY <1>17 DEF Trigger
  <2> QED
    BY <2>1, BeginKeepsReads DEF Writers
<1> QED
  BY <1>1, <1>2, <1>3, <1>4, <1>5, <1>6, <1>9, <1>10, <1>11, <1>12, <1>13, <1>14, <1>15, <1>16,
     <1>17 DEF Next

LEMMA ReadsInvariance == Spec => [](Typed /\ ReadsHold)
<1>1. Init => ReadsHold
  BY DEF Init, ReadsHold, Sound, Settled
<1> QED
  BY <1>1, NextKeepsReads, TypeInvariance, PTL DEF Spec

(* The table stays coherent under every race, failure, restart and merge,   *)
(* but for a commit that rests on an outdated read or, written by hand, on  *)
(* none: no lock is needed for anything else.                               *)
THEOREM OnlyRacesUpset == Spec => CoherentWithoutRaces
<1> DEFINE Upset == Coherent /\ ~Coherent' => \E w \in writing \cap outdated : Commit(w)
<1>1. Typed /\ ReadsHold /\ [Next]_vars => [Upset]_vars
  <2> SUFFICES ASSUME Typed, ReadsHold, [Next]_vars, Coherent, ~Coherent'
               PROVE  \E w \in writing \cap outdated : Commit(w)
    OBVIOUS
  <2> TypeOK
    BY DEF Typed
  <2>1. ASSUME rows' = rows PROVE FALSE
    <3>1. (\A c : Latest(c)' = Latest(c)) /\ Firings' = Firings /\ Settled' = Settled
      BY <2>1 DEF Latest, RowsOf, Firings, Settled
    <3> QED
      BY <3>1 DEF Coherent, OpenFirings
  <2>2. ASSUME NEW w \in Writers, Commit(w) PROVE w \in writing \cap outdated
    <3>1. w \in writing
      BY <2>2 DEF Commit
    <3>2. ASSUME w \notin outdated PROVE FALSE
      BY <2>2, <3>2, SoundCommit DEF ReadsHold
    <3> QED
      BY <3>1, <3>2
  <2>3. ASSUME Merge PROVE FALSE
    <3>1. (\A c : Latest(c)' \subseteq Latest(c)) /\ Firings' = Firings /\ rows' \subseteq rows
      BY <2>3, MergeShrinks
    <3>2. Settled' /\ OpenFirings' \subseteq OpenFirings
      BY <3>1 DEF Coherent, OpenFirings, Settled
    <3> QED
      BY <3>1, <3>2 DEF Coherent
  <2>4. ASSUME RowsAge PROVE FALSE
    <3>1. /\ \A r \in rows : \E s \in rows' : /\ r.created = s.created /\ r.version = s.version
                                              /\ r.resolved = s.resolved
          /\ \A s \in rows' : \E r \in rows : /\ r.created = s.created /\ r.version = s.version
                                              /\ r.resolved = s.resolved
      <4>1. \A s \in rows : LET r == [s EXCEPT !.aged = TRUE]
                            IN  /\ r.created = s.created /\ r.version = s.version
                                /\ r.resolved = s.resolved
        BY DEF TypeOK, Row
      <4> QED
        BY <2>4, <4>1 DEF RowsAge
    <3>2. Firings' = Firings /\ Settled'
      BY <3>1 DEF Firings, Coherent, Settled
    <3>3. ASSUME NEW c, NEW s \in Latest(c)' PROVE \E r \in Latest(c) : r.resolved = s.resolved
      <4>1. PICK r \in rows : r.created = s.created /\ r.version = s.version
                              /\ r.resolved = s.resolved
        BY <3>1, <3>3 DEF Latest, RowsOf
      <4>2. r.created = c /\ \A t \in rows' : t.created = c => t.version <= s.version
        BY <3>3, <4>1 DEF Latest, RowsOf
      <4>3. \A t \in rows : t.created = c => t.version <= r.version
        BY <3>1, <4>1, <4>2
      <4> QED
        BY <4>1, <4>2, <4>3 DEF Latest, RowsOf
    <3>4. OpenFirings' \subseteq OpenFirings
      BY <3>2, <3>3 DEF OpenFirings
    <3> QED
      BY <3>2, <3>4 DEF Coherent
  <2>5. \/ rows' = rows
        \/ Merge \/ RowsAge
        \/ \E w \in Writers : Commit(w)
    BY DEF Next, vars, Fail, Snapshot, Skip, InsertAlert, BulkRefreshAlerts, ResolveAlert,
           ResolveFromDashboard, SweepStale, Trigger, Cleanup, Restart
  <2> QED
    BY <2>1, <2>2, <2>3, <2>4, <2>5
<1>2. Spec => [][Upset]_vars
  BY <1>1, ReadsInvariance, PTL DEF Spec
<1> QED
  BY <1>2 DEF CoherentWithoutRaces

-----------------------------------------------------------------------------
(* The clean-up of a start                                                  *)

(* What a clean-up that read well is about to append: it resolves every     *)
(* open firing but the newest of them.                                      *)
CleanupPlan ==
    starting /\ "reconcile" \in writing \ outdated =>
        /\ \A p \in pending["reconcile"] :
              p.resolved /\ \E d \in Firings : p.created < d
        /\ \A c, d \in OpenFirings : c < d => \E p \in pending["reconcile"] : p.created = c

LEMMA PicksCoverFirings ==
  ASSUME TypeOK, Settled, NEW pick \in Readings, NEW c \in OpenFirings
  PROVE  \E r \in Open(pick) : r.created = c
<1>1. c \in Firings /\ \E r \in Latest(c) : ~r.resolved
  BY DEF OpenFirings
<1>2. Cardinality(pick \cap RowsOf(c)) = 1
  BY <1>1 DEF Readings
<1>3. pick \cap RowsOf(c) # {}
  BY <1>2, FS_EmptySet
<1>4. PICK r \in pick : r.created = c
  BY <1>3 DEF RowsOf
<1>5. r \in Latest(c)
  BY <1>4, PickedAreLatest
<1>6. ~r.resolved
  BY <1>1, <1>5, SettledLatest
<1> QED
  BY <1>4, <1>6 DEF Open

LEMMA PlanKept ==
  ASSUME Typed, ReadsHold, CleanupPlan, [Next]_vars
  PROVE  CleanupPlan'
<1> TypeOK /\ pending \in [Writers -> SUBSET Row] /\ rows \subseteq Row
  BY DEF Typed, TypeOK
<1>1. CASE Cleanup
  <2> SUFFICES ASSUME "reconcile" \notin outdated'
               PROVE  CleanupPlan'
    BY DEF CleanupPlan
  <2>1. Settled /\ rows' = rows
    BY <1>1 DEF Cleanup, Reads
  <2>2. PICK pick \in Readings :
           Begin("reconcile", {[r EXCEPT !.version = @ + 1, !.resolved = TRUE,
                                         !.aged = FALSE] : r \in Ghosts(Open(pick))})
    BY <1>1 DEF Cleanup
  <2> DEFINE new == {[r EXCEPT !.version = @ + 1, !.resolved = TRUE,
                               !.aged = FALSE] : r \in Ghosts(Open(pick))}
  <2>3. pending'["reconcile"] = new
    BY <2>2 DEF Begin, Writers
  <2>4. \A r \in Ghosts(Open(pick)) :
           LET p == [r EXCEPT !.version = @ + 1, !.resolved = TRUE, !.aged = FALSE]
           IN  /\ p.resolved /\ p.created = r.created
               /\ r.created \in Firings /\ \E d \in Firings : r.created < d
    <3>1. \A r \in Open(pick) : r \in Row /\ r.created \in Firings
      BY PickedAreLatest DEF Open
    <3>2. \A r \in Ghosts(Open(pick)) : r \in Open(pick) /\ \E s \in Open(pick) : s.created > r.created
      BY DEF Ghosts
    <3>3. ASSUME NEW r \in Ghosts(Open(pick)) PROVE \E d \in Firings : r.created < d
      <4>1. PICK s \in Open(pick) : s.created > r.created
        BY <3>2
      <4> QED
        BY <3>1, <3>2, <4>1, RowFields
    <3> QED
      BY <3>1, <3>2, <3>3 DEF Row
  <2>5. \A p \in new : p.resolved /\ \E d \in Firings : p.created < d
    BY <2>4
  <2>6. ASSUME NEW c \in OpenFirings, NEW d \in OpenFirings, c < d
        PROVE  \E p \in new : p.created = c
    <3>1. PICK r \in Open(pick) : r.created = c
      BY <2>1, PicksCoverFirings
    <3>2. PICK s \in Open(pick) : s.created = d
      BY <2>1, PicksCoverFirings
    <3>3. r \in Ghosts(Open(pick))
      <4>1. r.created \in Nat /\ s.created \in Nat
        BY PickedAreLatest, RowFields DEF Open
      <4> QED
        BY <2>6, <3>1, <3>2, <4>1 DEF Ghosts
    <3> QED
      BY <2>4, <3>1, <3>3
  <2> HIDE DEF new
  <2>7. Firings' = Firings /\ OpenFirings' = OpenFirings
    BY <2>1 DEF Firings, OpenFirings, Latest, RowsOf
  <2> QED
    BY <2>3, <2>5, <2>6, <2>7 DEF CleanupPlan
<1>2. CASE Merge
  <2>1. (\A c : Latest(c)' \subseteq Latest(c)) /\ Firings' = Firings
        /\ UNCHANGED <<pending, writing, starting, outdated>>
    BY <1>2, MergeShrinks DEF Merge
  <2>2. OpenFirings' \subseteq OpenFirings
    BY <2>1 DEF OpenFirings
  <2> QED
    BY <2>1, <2>2 DEF CleanupPlan
<1>3. ASSUME starting', "reconcile" \in writing', ~Cleanup, ~Merge
      PROVE  UNCHANGED <<rows, pending, writing, starting, outdated>>
  <2>1. \A w \in Writers : ~Commit(w) /\ ~Fail(w)
    BY <1>3 DEF Commit, Fail
  <2>2. ~RowsAge /\ ~Restart
    BY <1>3 DEF RowsAge, Restart
  <2>3. ~Snapshot /\ ~ResolveFromDashboard /\ ~SweepStale /\ ~Trigger
    BY <1>3 DEF Snapshot, ResolveFromDashboard, SweepStale, Trigger
  <2>4. ~InsertAlert /\ ~BulkRefreshAlerts /\ ~ResolveAlert
    BY <1>3 DEF InsertAlert, BulkRefreshAlerts, ResolveAlert, ReadsHold
  <2> QED
    BY <1>3, <2>1, <2>2, <2>3, <2>4 DEF Next, Skip, vars
<1>4. CASE UNCHANGED <<rows, pending, writing, starting, outdated>>
  BY <1>4 DEF CleanupPlan, Firings, OpenFirings, Latest, RowsOf
<1> QED
  BY <1>1, <1>2, <1>3, <1>4 DEF CleanupPlan

LEMMA CleanupCommit ==
  ASSUME Typed, ReadsHold, CleanupPlan, starting, Commit("reconcile"),
         "reconcile" \notin outdated
  PROVE  Cardinality(OpenFirings') <= 1 /\ Answers' = Answers
<1> DEFINE new == pending["reconcile"]
<1> TypeOK /\ "reconcile" \in Writers /\ new \subseteq Row /\ rows \subseteq Row
  BY DEF Typed, TypeOK, Writers
<1>1. /\ rows \subseteq rows'
      /\ \A r \in rows' \ rows : \E p \in new :
            r.created = p.created /\ r.version = p.version /\ r.resolved = p.resolved
      /\ \A p \in new : \E r \in rows' : r.created = p.created /\ r.version = p.version
  BY CommitRows
<1>2. /\ \A p \in new : p.resolved /\ \E d \in Firings : p.created < d
      /\ \A c, d \in OpenFirings : c < d => \E p \in new : p.created = c
      /\ Sound(new) /\ Settled
  BY DEF CleanupPlan, ReadsHold, Commit
<1> HIDE DEF new
<1>3. Firings' = Firings
  BY <1>1, <1>2 DEF Firings, Sound
<1>4. ASSUME NEW c, \A p \in new : p.created # c
      PROVE  Latest(c)' = Latest(c)
  <2>1. RowsOf(c)' = RowsOf(c)
    BY <1>1, <1>4 DEF RowsOf
  <2> QED
    BY <2>1 DEF Latest
<1>5. ASSUME NEW p \in new, NEW r \in Latest(p.created)' PROVE r.resolved
  <2>1. PICK s \in rows' : s.created = p.created /\ s.version = p.version
    BY <1>1
  <2>2. r \in rows' /\ r.created = p.created /\ p.version <= r.version
    BY <1>5, <2>1 DEF Latest, RowsOf
  <2>3. CASE r \in rows
    <3>1. r.version < p.version
      BY <1>2, <2>2, <2>3 DEF Sound, RowsOf
    <3> QED
      BY <2>2, <2>3, <3>1, RowFields
  <2>4. CASE r \notin rows
    BY <1>1, <1>2, <2>2, <2>4
  <2> QED
    BY <2>3, <2>4
<1>6. \A c \in OpenFirings' : c \in OpenFirings /\ \A p \in new : p.created # c
  BY <1>3, <1>4, <1>5 DEF OpenFirings
<1>7. \A c, d \in OpenFirings' : c = d
  <2> SUFFICES ASSUME NEW c \in OpenFirings', NEW d \in OpenFirings', c # d PROVE FALSE
    OBVIOUS
  <2>1. c \in Nat /\ d \in Nat
    BY <1>6, RowFields DEF OpenFirings, Firings
  <2>2. c < d \/ d < c
    BY <2>1
  <2> QED
    BY <1>2, <1>6, <2>2
<1>8. Cardinality(OpenFirings') <= 1
  <2>1. CASE OpenFirings' = {}
    BY <2>1, FS_EmptySet
  <2>2. CASE OpenFirings' # {}
    <3>1. PICK c \in OpenFirings' : TRUE
      BY <2>2
    <3>2. OpenFirings' = {c}
      BY <1>7, <3>1
    <3>3. Cardinality({c}) = 1
      BY FS_Singleton
    <3> QED
      BY <3>2, <3>3
  <2> QED
    BY <2>1, <2>2
<1>9. Answers' = Answers
  <2>1. CASE rows = {}
    <3>1. new = {} /\ Firings = {}
      BY <1>2, <2>1 DEF Firings
    <3>2. rows' = {}
      BY <1>1, <2>1, <3>1
    <3> QED
      BY <2>1, <3>2 DEF Answers
  <2>2. CASE rows # {}
    <3>1. /\ Max(Firings) \in Firings /\ Firings \in SUBSET Nat
          /\ \A c \in Firings : Max(Firings) >= c
      BY <2>2, FiringsHaveMax
    <3>2. \A p \in new : p.created # Max(Firings)
      BY <1>2, <3>1, RowFields
    <3>3. Latest(Max(Firings))' = Latest(Max(Firings)) /\ rows' # {}
      BY <1>1, <1>3, <1>4, <2>2, <3>2
    <3> QED
      BY <2>2, <3>3 DEF Answers
  <2> QED
    BY <2>1, <2>2
<1> QED
  BY <1>8, <1>9

(* A clean-up whose read was good leaves at most one firing open and        *)
(* changes no answer, whatever races and crashes left in the table.         *)
THEOREM CleanupIsComplete == Spec => CleanupLeavesOne
<1> DEFINE LeavesOne == starting /\ Commit("reconcile") /\ "reconcile" \notin outdated =>
                            /\ Cardinality(OpenFirings') <= 1
                            /\ Answers' = Answers
<1>1. Init => CleanupPlan
  BY DEF Init, CleanupPlan
<1>2. Typed /\ ReadsHold /\ CleanupPlan /\ [Next]_vars => CleanupPlan'
  BY PlanKept
<1>3. Typed /\ ReadsHold /\ CleanupPlan /\ [Next]_vars => [LeavesOne]_vars
  BY CleanupCommit
<1>4. Spec => [][LeavesOne]_vars
  BY <1>1, <1>2, <1>3, ReadsInvariance, PTL DEF Spec
<1> QED
  BY <1>4 DEF CleanupLeavesOne

-----------------------------------------------------------------------------
(* Every firing is counted                                                  *)

Rank(c) == Cardinality({d \in Firings : d <= c})

(* A statement under way counts as many firings as there are up to its own, *)
(* and one that resolves at most as many; or it is the poll loop's next     *)
(* firing.                                                                  *)
CountsRight(w, new) ==
    \A p \in new :
        \/ /\ p.created \in Firings
           /\ p.fireCount <= Rank(p.created)
           /\ ~p.resolved => p.fireCount = Rank(p.created)
        \/ /\ w = "reconcile" /\ new = {p} /\ ~p.resolved
           /\ p.fireCount = Cardinality(Firings) + 1
           /\ \A d \in Firings : d < p.created

(* As nothing is merged, the row a firing began with is there to be counted *)
(* from.                                                                    *)
CountsAdvance ==
    /\ FireCountAdvances
    /\ \A r \in rows : r.fireCount <= Rank(r.created)
    /\ \A c \in Firings : \E r \in rows : r.created = c /\ ~r.resolved
    /\ \A w \in Writers : CountsRight(w, pending[w])

LEMMA RankBounds ==
  ASSUME TypeOK
  PROVE  /\ IsFiniteSet(Firings) /\ Cardinality(Firings) \in Nat /\ Firings \in SUBSET Nat
         /\ \A c : Rank(c) \in Nat /\ Rank(c) <= Cardinality(Firings)
         /\ \A c \in Firings : 1 <= Rank(c)
<1>1. Firings \subseteq 1 .. MaxFirings /\ Firings \in SUBSET Nat
  BY RowFields DEF TypeOK, Firings
<1>2. IsFiniteSet(Firings)
  <2>1. IsFiniteSet(1 .. MaxFirings) /\ Firings \in SUBSET (1 .. MaxFirings)
    BY <1>1, FS_Interval, BoundsAssumption
  <2> QED
    BY <2>1, FS_Subset
<1>3. Cardinality(Firings) \in Nat
  BY <1>2, FS_CardinalityType
<1>4. ASSUME NEW c
      PROVE  /\ Rank(c) \in Nat /\ Rank(c) <= Cardinality(Firings)
             /\ c \in Firings => 1 <= Rank(c)
  <2> DEFINE upTo == {d \in Firings : d <= c}
  <2>1. IsFiniteSet(upTo) /\ Cardinality(upTo) <= Cardinality(Firings)
    BY <1>2, FS_Subset
  <2>2. Cardinality(upTo) \in Nat
    BY <2>1, FS_CardinalityType
  <2>3. c \in Firings => c \in upTo
    BY <1>1
  <2>4. c \in Firings => Cardinality(upTo) # 0
    BY <2>1, <2>3, FS_EmptySet
  <2> QED
    BY <2>1, <2>2, <2>4 DEF Rank
<1> QED
  BY <1>1, <1>2, <1>3, <1>4

LEMMA PriorFireCountIsAll ==
  ASSUME TypeOK, CountsAdvance
  PROVE  PriorFireCount = Cardinality(Firings)
<1>1. CASE rows = {}
  <2>1. Firings = {}
    BY <1>1 DEF Firings
  <2> QED
    BY <1>1, <2>1, FS_EmptySet DEF PriorFireCount
<1>2. CASE rows # {}
  <2> DEFINE counts == {r.fireCount : r \in rows}
             newest == Max(Firings)
  <2>1. newest \in Firings /\ \A d \in Firings : d <= newest
    BY <1>2, FiringsHaveMax
  <2>2. {d \in Firings : d <= newest} = Firings
    BY <2>1
  <2>3. Rank(newest) = Cardinality(Firings)
    BY <2>2 DEF Rank
  <2> HIDE DEF newest
  <2>4. PICK r \in rows : r.created = newest /\ ~r.resolved
    BY <2>1 DEF CountsAdvance
  <2>5. r.fireCount = Cardinality(Firings)
    BY <2>3, <2>4 DEF CountsAdvance, FireCountAdvances, Rank
  <2>6. \A s \in rows : s.fireCount \in Nat /\ r.fireCount >= s.fireCount
    <3> TAKE s \in rows
    <3>1. s.fireCount \in Nat /\ s.fireCount <= Rank(s.created)
      BY RowFields DEF TypeOK, CountsAdvance
    <3>2. Rank(s.created) \in Nat /\ Rank(s.created) <= Cardinality(Firings)
          /\ Cardinality(Firings) \in Nat
      BY RankBounds
    <3> QED
      BY <2>5, <3>1, <3>2
  <2>7. counts \in SUBSET Nat /\ r.fireCount \in counts /\ \A n \in counts : r.fireCount >= n
    BY <2>6
  <2>8. Max(counts) = r.fireCount
    BY <2>7, MaxIs
  <2> QED
    BY <1>2, <2>5, <2>8 DEF PriorFireCount
<1> QED
  BY <1>1, <1>2

LEMMA SameRanks ==
  ASSUME rows' = rows
  PROVE  /\ Firings' = Firings /\ FireCountAdvances' = FireCountAdvances
         /\ \A c : Rank(c)' = Rank(c)
         /\ \A w \in Writers : CountsRight(w, pending'[w]) => CountsRight(w, pending[w])'
<1>1. Firings' = Firings
  BY DEF Firings
<1>2. \A c : Rank(c)' = Rank(c)
  BY <1>1 DEF Rank
<1>3. FireCountAdvances' = FireCountAdvances
  BY <1>1 DEF FireCountAdvances
<1> QED
  BY <1>1, <1>2, <1>3 DEF CountsRight

LEMMA BeginKeepsCounts ==
  ASSUME TypeOK, CountsAdvance, NEW w \in Writers, NEW new, Begin(w, new), rows' = rows,
         CountsRight(w, new)
  PROVE  CountsAdvance'
<1>1. pending' = [pending EXCEPT ![w] = new] /\ pending \in [Writers -> SUBSET Row]
  BY DEF Begin, TypeOK
<1>2. \A v \in Writers : CountsRight(v, pending'[v])
  BY <1>1 DEF CountsAdvance
<1> QED
  BY <1>2, SameRanks DEF CountsAdvance

(* A commit either adds rows to the firings there are, or the next firing.  *)
LEMMA CommitKeepsCounts ==
  ASSUME TypeOK, CountsAdvance, NEW w \in Writers, Commit(w)
  PROVE  CountsAdvance'
<1> DEFINE new == pending[w]
<1> rows \subseteq Row /\ new \subseteq Row /\ pending \in [Writers -> SUBSET Row]
  BY DEF TypeOK
<1>1. /\ rows \subseteq rows'
      /\ \A r \in rows' \ rows : \E p \in new :
            r.created = p.created /\ r.resolved = p.resolved /\ r.fireCount = p.fireCount
      /\ \A p \in new : \E r \in rows' :
            r.created = p.created /\ r.resolved = p.resolved /\ r.fireCount = p.fireCount
  BY CommitRows
<1>2. CountsRight(w, new) /\ pending' = [pending EXCEPT ![w] = {}]
  BY DEF CountsAdvance, Commit
<1>3. /\ IsFiniteSet(Firings) /\ Cardinality(Firings) \in Nat /\ Firings \in SUBSET Nat
      /\ \A c : Rank(c) \in Nat /\ Rank(c) <= Cardinality(Firings)
  BY RankBounds
<1> HIDE DEF new
<1>4. CASE \A p \in new : p.created \in Firings
  <2>1. \A p \in new : /\ p.fireCount <= Rank(p.created)
                       /\ ~p.resolved => p.fireCount = Rank(p.created)
    <3> TAKE p \in new
    <3>1. p.created \in Firings /\ p.created \in Nat
      BY <1>3, <1>4
    <3>2. ~\A d \in Firings : d < p.created
      BY <3>1
    <3> QED
      BY <1>2, <3>2 DEF CountsRight
  <2>2. Firings' = Firings
    BY <1>1, <1>4 DEF Firings
  <2>3. \A c : Rank(c)' = Rank(c)
    BY <2>2 DEF Rank
  <2>4. \A r \in rows' : /\ r.fireCount <= Rank(r.created)
                         /\ ~r.resolved => r.fireCount = Rank(r.created)
    BY <1>1, <2>1 DEF CountsAdvance, FireCountAdvances, Rank
  <2>5. FireCountAdvances' /\ \A r \in rows' : r.fireCount <= Rank(r.created)'
    BY <2>2, <2>3, <2>4 DEF FireCountAdvances, Rank
  <2>6. \A c \in Firings' : \E r \in rows' : r.created = c /\ ~r.resolved
    BY <1>1, <2>2 DEF CountsAdvance
  <2>7. \A v \in Writers : CountsRight(v, pending[v])'
    <3> TAKE v \in Writers
    <3>1. CountsRight(v, pending'[v])
      BY <1>2 DEF CountsAdvance, CountsRight
    <3> QED
      BY <2>2, <2>3, <3>1 DEF CountsRight
  <2> QED
    BY <2>5, <2>6, <2>7 DEF CountsAdvance
<1>5. CASE \E p \in new : p.created \notin Firings
  <2>1. PICK p \in new : p.created \notin Firings
    BY <1>5
  <2>2. /\ w = "reconcile" /\ new = {p} /\ ~p.resolved
        /\ p.fireCount = Cardinality(Firings) + 1
        /\ \A d \in Firings : d < p.created
    BY <1>2, <2>1 DEF CountsRight
  <2>3. Firings' = Firings \cup {p.created} /\ p.created \in Nat
    BY <1>1, <2>2, RowFields DEF Firings
  <2>4. ASSUME NEW c \in Firings PROVE Rank(c)' = Rank(c)
    <3>1. {d \in Firings' : d <= c} = {d \in Firings : d <= c}
      BY <1>3, <2>2, <2>3, <2>4
    <3> QED
      BY <3>1 DEF Rank
  <2>5. Rank(p.created)' = Cardinality(Firings) + 1
    <3>1. {d \in Firings' : d <= p.created} = Firings \cup {p.created}
      <4>1. \A d \in Firings' : d <= p.created
        <5> TAKE d \in Firings'
        <5>1. CASE d = p.created
          BY <2>3, <5>1
        <5>2. CASE d \in Firings
          <6>1. d < p.created /\ d \in Nat
            BY <1>3, <2>2, <5>2
          <6> QED
            BY <2>3, <6>1
        <5> QED
          BY <2>3, <5>1, <5>2
      <4> QED
        BY <2>3, <4>1
    <3>2. Cardinality(Firings \cup {p.created}) = Cardinality(Firings) + 1
      BY <1>3, <2>1, FS_AddElement
    <3> QED
      BY <3>1, <3>2 DEF Rank
  <2>6. \A r \in rows' : /\ r.fireCount <= Rank(r.created)'
                         /\ ~r.resolved => r.fireCount = Rank(r.created)'
    <3> TAKE r \in rows'
    <3>1. CASE r \in rows
      <4>1. r.created \in Firings
        BY <3>1 DEF Firings
      <4>2. r.fireCount <= Rank(r.created) /\ (~r.resolved => r.fireCount = Rank(r.created))
        BY <3>1 DEF CountsAdvance, FireCountAdvances, Rank
      <4> QED
        BY <2>4, <4>1, <4>2
    <3>2. CASE r \notin rows
      <4>1. r.created = p.created /\ r.fireCount = Cardinality(Firings) + 1
        BY <1>1, <2>2, <3>2
      <4>2. Rank(r.created)' = Rank(p.created)'
        BY <4>1
      <4> QED
        BY <1>3, <2>5, <4>1, <4>2
    <3> QED
      BY <3>1, <3>2
  <2>7. FireCountAdvances'
    BY <2>6 DEF FireCountAdvances, Rank
  <2>8. \A c \in Firings' : \E r \in rows' : r.created = c /\ ~r.resolved
    BY <1>1, <2>2, <2>3 DEF CountsAdvance
  <2>9. \A v \in Writers : CountsRight(v, pending[v])'
    <3> TAKE v \in Writers
    <3>1. CASE v = w
      BY <1>2, <3>1 DEF CountsRight
    <3>2. CASE v # w
      <4>1. CountsRight(v, pending[v]) /\ pending'[v] = pending[v] /\ v # "reconcile"
        BY <1>2, <2>2, <3>2 DEF CountsAdvance
      <4>2. \A q \in pending[v] : /\ q.created \in Firings /\ q.fireCount <= Rank(q.created)
                                  /\ ~q.resolved => q.fireCount = Rank(q.created)
        BY <4>1 DEF CountsRight
      <4>3. \A q \in pending'[v] : /\ q.created \in Firings' /\ q.fireCount <= Rank(q.created)'
                                   /\ ~q.resolved => q.fireCount = Rank(q.created)'
        BY <2>3, <2>4, <4>1, <4>2
      <4> QED
        BY <4>3 DEF CountsRight
    <3> QED
      BY <3>1, <3>2
  <2> QED
    BY <2>6, <2>7, <2>8, <2>9 DEF CountsAdvance
<1> QED
  BY <1>4, <1>5

Unmerged == {"merge", "stats", "trigger"} \cap environment = {}

LEMMA NextKeepsCounts == Typed /\ Unmerged /\ CountsAdvance /\ [Next]_vars => CountsAdvance'
<1> SUFFICES ASSUME Typed, Unmerged, CountsAdvance, [Next]_vars PROVE CountsAdvance'
  OBVIOUS
<1> TypeOK /\ pending \in [Writers -> SUBSET Row] /\ rows \subseteq Row
  BY DEF Typed, TypeOK
<1>1. ASSUME NEW w \in Writers, Commit(w) PROVE CountsAdvance'
  BY <1>1, CommitKeepsCounts
<1>2. ASSUME rows' = rows, \A w \in Writers : pending'[w] \in {pending[w], {}}
      PROVE  CountsAdvance'
  <2>1. \A w \in Writers : CountsRight(w, pending'[w])
    BY <1>2 DEF CountsAdvance, CountsRight
  <2> QED
    BY <1>2, <2>1, SameRanks DEF CountsAdvance
<1>3. ASSUME NEW w \in Writers, Fail(w) PROVE CountsAdvance'
  BY <1>2, <1>3 DEF Fail
<1>4. CASE Snapshot \/ Skip \/ Restart \/ UNCHANGED vars
  BY <1>2, <1>4 DEF Snapshot, Skip, Restart, vars
<1>5. CASE InsertAlert
  <2>1. rows' = rows /\ Begin("reconcile", {NewFiring(PriorFireCount + 1)})
    BY <1>5 DEF InsertAlert, Unmerged
  <2> DEFINE p == NewFiring(PriorFireCount + 1)
  <2>2. p.created = fired + 1 /\ p.resolved = FALSE /\ p.fireCount = Cardinality(Firings) + 1
    BY PriorFireCountIsAll DEF NewFiring
  <2>3. \A d \in Firings : d < fired + 1
    <3> TAKE d \in Firings
    <3>1. PICK r \in rows : d = r.created
      BY DEF Firings
    <3>2. r.created \in Nat /\ r.created <= fired /\ fired \in Nat
      BY RowFields, BoundsAssumption DEF Typed, TypeOK, Bounded
    <3> QED
      BY <3>1, <3>2
  <2>4. Begin("reconcile", {p})
    BY <2>1
  <2> HIDE DEF p
  <2>5. CountsRight("reconcile", {p})
    BY <2>2, <2>3 DEF CountsRight
  <2> QED
    BY <2>1, <2>4, <2>5, BeginKeepsCounts DEF Writers
<1>6. ASSUME NEW r \in rows
      PROVE  /\ r.created \in Firings /\ 1 <= Rank(r.created) /\ r.fireCount <= Rank(r.created)
             /\ ~r.resolved => r.fireCount = Rank(r.created)
  <2>1. r.created \in Firings
    BY DEF Firings
  <2> QED
    BY <2>1, RankBounds DEF CountsAdvance, FireCountAdvances, Rank
<1>7. CASE BulkRefreshAlerts
  <2>1. rows' = rows
    BY <1>7 DEF BulkRefreshAlerts
  <2>2. ASSUME NEW r \in Refreshable, Begin("reconcile", {Refreshed(r)}) PROVE CountsAdvance'
    <3>1. r \in rows /\ ~r.resolved
      BY DEF Refreshable, Open
    <3>2. Refreshed(r).created = r.created /\ Refreshed(r).fireCount = r.fireCount
      BY <3>1 DEF Refreshed, Row
    <3>3. CountsRight("reconcile", {Refreshed(r)})
      BY <1>6, <3>1, <3>2 DEF CountsRight
    <3> QED
      BY <2>1, <2>2, <3>3, BeginKeepsCounts DEF Writers
  <2>3. ASSUME Begin("reconcile", {}) PROVE CountsAdvance'
    BY <2>1, <2>3, BeginKeepsCounts DEF Writers, CountsRight
  <2> QED
    BY <1>7, <2>2, <2>3 DEF BulkRefreshAlerts
<1>8. ASSUME NEW w \in Writers, NEW read \in SUBSET rows,
             Begin(w, {Resolving(r) : r \in read}), rows' = rows
      PROVE  CountsAdvance'
  <2>1. \A r \in read : LET p == Resolving(r)
                       IN  p.resolved /\ p.created = r.created /\ p.fireCount = 1
    BY DEF Resolving, Row
  <2>2. CountsRight(w, {Resolving(r) : r \in read})
    BY <1>6, <2>1 DEF CountsRight
  <2> QED
    BY <1>8, <2>2, BeginKeepsCounts
<1>9. ASSUME NEW pick \in Readings PROVE Open(pick) \in SUBSET rows
  BY PickedAreLatest DEF Open
<1>10. CASE ResolveAlert
  BY <1>8, <1>9, <1>10 DEF ResolveAlert, Writers
<1>11. CASE ResolveFromDashboard
  BY <1>8, <1>9, <1>11 DEF ResolveFromDashboard, Writers
<1>12. CASE SweepStale
  <2> DEFINE swept == {r \in {Final(c) : c \in Firings} : ~r.resolved /\ r.aged}
  <2>1. swept \in SUBSET rows
    BY FinalIsLatest DEF Latest, RowsOf
  <2>2. Begin("heartbeat", {Resolving(r) : r \in swept}) /\ rows' = rows
    BY <1>12 DEF SweepStale
  <2> HIDE DEF swept
  <2> QED
    BY <1>8, <2>1, <2>2 DEF Writers
<1>13. CASE Cleanup
  <2>1. rows' = rows
    BY <1>13 DEF Cleanup
  <2>2. ASSUME NEW pick \in Readings,
               Begin("reconcile", {[r EXCEPT !.version = @ + 1, !.resolved = TRUE,
                                             !.aged = FALSE] : r \in Ghosts(Open(pick))})
        PROVE  CountsAdvance'
    <3> DEFINE new == {[r EXCEPT !.version = @ + 1, !.resolved = TRUE,
                                 !.aged = FALSE] : r \in Ghosts(Open(pick))}
    <3>1. Ghosts(Open(pick)) \subseteq rows
      BY <1>9 DEF Ghosts
    <3>2. \A p \in new : \E r \in rows :
             p.resolved /\ p.created = r.created /\ p.fireCount = r.fireCount
      BY <3>1 DEF Row
    <3>3. Begin("reconcile", new)
      BY <2>2
    <3> HIDE DEF new
    <3>4. CountsRight("reconcile", new)
      BY <1>6, <3>2 DEF CountsRight
    <3> QED
      BY <2>1, <3>3, <3>4, BeginKeepsCounts DEF Writers
  <2>3. ASSUME Begin("reconcile", {}) PROVE CountsAdvance'
    BY <2>1, <2>3, BeginKeepsCounts DEF Writers, CountsRight
  <2> QED
    BY <1>13, <2>2, <2>3 DEF Cleanup
<1>14. CASE RowsAge
  <2>1. /\ \A r \in rows : \E s \in rows' : /\ r.created = s.created /\ r.resolved = s.resolved
                                            /\ r.fireCount = s.fireCount
        /\ \A s \in rows' : \E r \in rows : /\ r.created = s.created /\ r.resolved = s.resolved
                                            /\ r.fireCount = s.fireCount
    <3>1. \A s \in rows : LET r == [s EXCEPT !.aged = TRUE]
                          IN  /\ r.created = s.created /\ r.resolved = s.resolved
                              /\ r.fireCount = s.fireCount
      BY DEF Row
    <3> QED
      BY <1>14, <3>1 DEF RowsAge
  <2>2. Firings' = Firings /\ pending' = pending
    <3>1. \A c : c \in Firings' <=> c \in Firings
      BY <2>1 DEF Firings
    <3> QED
      BY <1>14, <3>1 DEF RowsAge
  <2>3. \A c : Rank(c)' = Rank(c)
    BY <2>2 DEF Rank
  <2>4. FireCountAdvances' /\ \A r \in rows' : r.fireCount <= Rank(r.created)'
    <3>1. \A s \in rows' : /\ s.fireCount <= Rank(s.created)
                           /\ ~s.resolved => s.fireCount = Rank(s.created)
      BY <1>6, <2>1
    <3> QED
      BY <2>2, <2>3, <3>1 DEF FireCountAdvances, Rank
  <2>5. \A c \in Firings' : \E r \in rows' : r.created = c /\ ~r.resolved
    BY <2>1, <2>2 DEF CountsAdvance
  <2>6. \A w \in Writers : CountsRight(w, pending[w])'
    BY <2>2, <2>3 DEF CountsAdvance, CountsRight
  <2> QED
    BY <2>4, <2>5, <2>6 DEF CountsAdvance
<1>15. ~Merge /\ ~Trigger
  BY DEF Merge, Trigger, Unmerged
<1> QED
  BY <1>1, <1>3, <1>4, <1>5, <1>7, <1>10, <1>11, <1>12, <1>13, <1>14, <1>15 DEF Next

(* If nothing is merged, every lookup of earlier firings succeeds and no    *)
(* alert is written by hand, the open row of a firing counts all firings up *)
(* to it, through every race, failed write, restart and clean-up.           *)
THEOREM CountsAreCarried == Spec => []FireCountAdvancesUnmerged
<1>1. Init => CountsAdvance
  BY DEF Init, CountsAdvance, FireCountAdvances, Firings, CountsRight
<1>2. ~Unmerged /\ [Next]_vars => ~Unmerged'
  BY DEF Unmerged, Next, vars, Commit, Fail, Snapshot, Skip, InsertAlert, BulkRefreshAlerts,
         ResolveAlert, ResolveFromDashboard, SweepStale, Trigger, Cleanup, Restart, Merge,
         RowsAge
<1>3. Typed /\ (Unmerged => CountsAdvance) /\ [Next]_vars => (Unmerged => CountsAdvance)'
  BY <1>2, NextKeepsCounts
<1>4. (Unmerged => CountsAdvance) => FireCountAdvancesUnmerged
  BY DEF Unmerged, CountsAdvance, FireCountAdvancesUnmerged
<1> QED
  BY <1>1, <1>3, <1>4, TypeInvariance, PTL DEF Spec

-----------------------------------------------------------------------------
(* One row                                                                  *)

(* Also after a step.                                                       *)
LEMMA LatestExistsNext == TypeOK' => \A c \in Firings' : Latest(c)' # {}
<1> DEFINE AllExist == \A c \in Firings : Latest(c) # {}
<1>1. TypeOK => AllExist
  BY LatestExists
<1> HIDE DEF AllExist
<1>2. TypeOK' => AllExist'
  BY <1>1, PTL
<1> QED
  BY <1>2 DEF AllExist

(* What readers see of a firing that was written to is what was written.    *)
LEMMA WrittenIsLatest ==
  ASSUME TypeOK, TypeOK', NEW w \in Writers, Commit(w), Sound(pending[w]),
         NEW p \in pending[w]
  PROVE  /\ p.created \in Firings'
         /\ Latest(p.created)' # {}
         /\ \A r \in Latest(p.created)' : r.resolved = p.resolved
<1> rows \subseteq Row /\ pending[w] \subseteq Row /\ rows' \subseteq Row
  BY DEF TypeOK
<1>1. /\ rows \subseteq rows'
      /\ \A r \in rows' \ rows : \E q \in pending[w] :
            r.created = q.created /\ r.version = q.version /\ r.resolved = q.resolved
      /\ \A q \in pending[w] : \E r \in rows' : r.created = q.created /\ r.version = q.version
  BY CommitRows
<1>2. PICK s \in rows' : s.created = p.created /\ s.version = p.version
  BY <1>1
<1>3. p.created \in Firings'
  BY <1>2 DEF Firings
<1>4. Latest(p.created)' # {}
  BY <1>3, LatestExistsNext
<1>5. ASSUME NEW r \in Latest(p.created)' PROVE r.resolved = p.resolved
  <2>1. r \in rows' /\ r.created = p.created /\ p.version <= r.version
    BY <1>2, <1>5 DEF Latest, RowsOf
  <2>2. r \notin rows
    <3>1. r \in rows => r.version < p.version
      BY <2>1 DEF Sound, RowsOf
    <3> QED
      BY <2>1, <3>1, RowFields
  <2> QED
    BY <1>1, <2>1, <2>2 DEF Sound
<1> QED
  BY <1>3, <1>4, <1>5

LEMMA StatusIs ==
  /\ Status \in R!Statuses
  /\ Coherent => Status # "upset"
  BY DEF Status, R!Statuses

LEMMA SameRowsRead == rows' = rows => R!Read
<1> SUFFICES ASSUME rows' = rows PROVE R!Read
  OBVIOUS
<1>1. (\A c : Latest(c)' = Latest(c)) /\ Firings' = Firings /\ Settled' = Settled
  BY DEF Latest, RowsOf, Firings, Settled
<1>2. Coherent' = Coherent /\ Answers' = Answers
  BY <1>1, SameRows DEF Coherent, OpenFirings
<1>3. Newest' = Newest
  BY <1>1 DEF Newest
<1> QED
  BY <1>2, <1>3 DEF Status, R!Read

LEMMA NewestInNat ==
  ASSUME TypeOK
  PROVE  Newest \in Nat /\ (\A c \in Firings : c <= Newest) /\ Firings \in SUBSET Nat
<1>1. CASE rows = {}
  BY <1>1 DEF Newest, Firings
<1>2. CASE rows # {}
  BY <1>2, FiringsHaveMax DEF Newest
<1> QED
  BY <1>1, <1>2

(* A write on the strength of a good read does to the row what it is for.   *)
LEMMA SoundWriteIsRowStep ==
  ASSUME TypeOK, TypeOK', NEW w \in Writers, Commit(w), Sound(pending[w]), Coherent
  PROVE  R!Fire \/ R!Resolve \/ R!Read
<1> rows \subseteq Row /\ pending[w] \subseteq Row /\ rows' \subseteq Row
  BY DEF TypeOK
<1>1. /\ rows \subseteq rows'
      /\ \A r \in rows' \ rows : \E q \in pending[w] :
            r.created = q.created /\ r.version = q.version /\ r.resolved = q.resolved
      /\ \A q \in pending[w] : \E r \in rows' : r.created = q.created /\ r.version = q.version
  BY CommitRows
<1>2. Firings' = Firings \cup {q.created : q \in pending[w]}
  BY <1>1 DEF Firings
<1>3. Coherent' /\ Settled
  BY SoundCommit DEF Coherent
<1>4. CASE pending[w] = {}
  <2>1. rows' = rows
    BY <1>4 DEF Commit
  <2> QED
    BY <2>1, SameRowsRead
<1>5. ASSUME NEW p \in pending[w], ~p.resolved PROVE R!Fire \/ R!Read
  <2>1. /\ Firings' = Firings \cup {p.created} /\ p.created \in Nat /\ rows' # {}
        /\ \A c \in Firings : c <= p.created
    BY <1>1, <1>2, <1>5, RowFields DEF Sound
  <2>2. Firings' \in SUBSET Nat /\ \A c \in Firings' : p.created >= c
    BY <2>1, NewestInNat
  <2>3. Max(Firings') = p.created
    BY <2>1, <2>2, MaxIs
  <2>4. Newest' = p.created
    BY <2>1, <2>3 DEF Newest
  <2>5. "open" \in Answers'
    <3>1. \E r \in Latest(Max(Firings))' : ~r.resolved
      BY <1>5, <2>3, WrittenIsLatest
    <3> QED
      BY <2>1, <3>1 DEF Answers
  <2>6. Status' = "open"
    BY <1>3, <2>5 DEF Status
  <2>7. CASE p.created \in Firings
    <3>1. "closed" \notin Answers
      BY <1>5, <2>7 DEF Sound
    <3>2. rows # {} /\ Max(Firings) = p.created
      BY <2>1, <2>7, NewestIsMax DEF Firings
    <3>3. Newest = p.created
      BY <3>2 DEF Newest
    <3>4. "open" \in Answers
      BY <2>7, <3>1, <3>2, LatestExists, AnswersOfNewest
    <3> QED
      BY <2>4, <2>6, <3>3, <3>4 DEF Status, R!Read
  <2>8. CASE p.created \notin Firings
    <3>1. "open" \notin Answers
      BY <1>5, <2>8 DEF Sound
    <3>2. Newest < p.created
      <4>1. CASE rows = {}
        <5>1. p.created \in 1 .. MaxFirings
          BY RowFields
        <5> QED
          BY <2>1, <4>1, <5>1, BoundsAssumption DEF Newest
      <4>2. CASE rows # {}
        <5>1. Newest \in Firings
          BY <4>2, FiringsHaveMax DEF Newest
        <5> QED
          BY <2>1, <2>8, <5>1, NewestInNat
      <4> QED
        BY <4>1, <4>2
    <3>3. Status = "closed"
      BY <3>1 DEF Status
    <3> QED
      BY <2>1, <2>4, <2>6, <3>2, <3>3, NewestInNat DEF R!Fire
  <2> QED
    BY <2>7, <2>8
<1>6. ASSUME pending[w] # {}, \A p \in pending[w] : p.resolved PROVE R!Resolve \/ R!Read
  <2>1. Firings' = Firings /\ rows # {} /\ rows' # {}
    BY <1>1, <1>2, <1>6 DEF Sound, Firings
  <2>2. Newest' = Newest /\ Max(Firings)' = Max(Firings)
    BY <2>1 DEF Newest
  <2>3. ASSUME NEW p \in pending[w], p.created = Max(Firings) PROVE Status' = "closed"
    <3>1. \A r \in Latest(Max(Firings))' : r.resolved
      BY <1>6, <2>2, <2>3, WrittenIsLatest
    <3>2. "open" \notin Answers'
      BY <2>1, <3>1 DEF Answers
    <3> QED
      BY <1>3, <3>2 DEF Status
  <2>4. ASSUME \A p \in pending[w] : p.created # Max(Firings) PROVE Status' = Status
    <3>1. \A r \in rows' : r.created = Max(Firings) => r \in rows
      BY <1>1, <2>4
    <3>2. RowsOf(Max(Firings))' = RowsOf(Max(Firings))
      BY <1>1, <2>2, <3>1 DEF RowsOf
    <3>3. Latest(Max(Firings))' = Latest(Max(Firings))
      BY <3>2 DEF Latest
    <3>4. Answers' = Answers
      BY <2>1, <3>3 DEF Answers
    <3> QED
      BY <1>3, <3>4 DEF Status
  <2>5. Status \in {"open", "closed"}
    BY DEF Status
  <2> QED
    BY <2>2, <2>3, <2>4, <2>5 DEF R!Resolve, R!Read
<1> QED
  BY <1>4, <1>5, <1>6

LEMMA NewestInNatNext == TypeOK' => Newest' \in Nat /\ \A c \in Firings' : c <= Newest'
<1> DEFINE Bounds == Newest \in Nat /\ \A c \in Firings : c <= Newest
<1>1. TypeOK => Bounds
  BY NewestInNat
<1> HIDE DEF Bounds
<1>2. TypeOK' => Bounds'
  BY <1>1, PTL
<1> QED
  BY <1>2 DEF Bounds

(* A firing is never forgotten.                                             *)
LEMMA NewestGrows ==
  ASSUME TypeOK, TypeOK', rows \subseteq rows' \/ Firings' = Firings
  PROVE  Newest' >= Newest /\ Newest' \in Nat /\ Newest \in Nat
<1>1. Newest \in Nat
  BY NewestInNat
<1>2. Newest' \in Nat /\ \A c \in Firings' : c <= Newest'
  BY NewestInNatNext
<1>3. CASE rows = {}
  BY <1>1, <1>2, <1>3 DEF Newest
<1>4. CASE rows # {}
  <2>1. Newest \in Firings
    BY <1>4, FiringsHaveMax DEF Newest
  <2>2. Firings \subseteq Firings'
    BY DEF Firings
  <2> QED
    BY <1>1, <1>2, <2>1, <2>2
<1> QED
  BY <1>3, <1>4

(* A merge changes no row that counts, and may settle what readers see.     *)
LEMMA MergeIsRead ==
  ASSUME Typed, Typed', Merge, Coherent
  PROVE  R!Read
<1> TypeOK /\ TypeOK'
  BY DEF Typed
<1>1. /\ rows' \subseteq rows /\ rows # {} /\ rows' # {} /\ Firings' = Firings
      /\ \A c : Latest(c)' \subseteq Latest(c)
  BY MergeShrinks
<1>2. Settled' /\ OpenFirings' \subseteq OpenFirings
  BY <1>1 DEF Coherent, Settled, OpenFirings
<1>3. Coherent' /\ Newest' = Newest
  BY <1>1, <1>2 DEF Coherent, Newest
<1>4. PICK r \in Latest(Max(Firings))' : TRUE
  BY <1>1, FiringsHaveMax, LatestExistsNext
<1>5. "open" \in Answers' <=> ~r.resolved
  <2>1. \A s \in Latest(Max(Firings))' : s.resolved = r.resolved
    BY <1>1, <1>4, SettledLatest DEF Coherent
  <2> QED
    BY <1>1, <1>4, <2>1 DEF Answers
<1>6. "open" \in Answers <=> ~r.resolved
  BY <1>1, <1>4, SettledLatest, AnswersOfNewest DEF Coherent
<1> QED
  BY <1>3, <1>5, <1>6 DEF Status, R!Read

LEMMA AgeingIsRead ==
  ASSUME Typed, RowsAge
  PROVE  R!Read
<1> DEFINE Old(r) == [r EXCEPT !.aged = TRUE]
<1>1. rows' = {Old(r) : r \in rows}
  BY DEF RowsAge
<1>2. \A r \in rows : /\ Old(r).created = r.created /\ Old(r).version = r.version
                      /\ Old(r).resolved = r.resolved
  BY DEF Typed, TypeOK, Row
<1> HIDE DEF Old
<1>3. Firings' = Firings /\ (rows' = {} <=> rows = {})
  BY <1>1, <1>2 DEF Firings
<1>4. \A c : Latest(c)' = {Old(r) : r \in Latest(c)}
  BY <1>1, <1>2 DEF Latest, RowsOf
<1>5. Settled' = Settled
  BY <1>1, <1>2 DEF Settled
<1>6. /\ \A c : \A r \in Latest(c) : \E s \in Latest(c)' : s.resolved = r.resolved
      /\ \A c : \A s \in Latest(c)' : \E r \in Latest(c) : s.resolved = r.resolved
  BY <1>2, <1>4 DEF Latest, RowsOf
<1>7. OpenFirings' = OpenFirings
  BY <1>3, <1>6 DEF OpenFirings
<1>8. Newest' = Newest /\ Coherent' = Coherent
  BY <1>3, <1>5, <1>7 DEF Newest, Coherent
<1>9. "open" \in Answers' <=> "open" \in Answers
  <2>1. CASE rows = {}
    BY <1>3, <2>1 DEF Answers
  <2>2. CASE rows # {}
    BY <1>3, <1>6, <2>2 DEF Answers
  <2> QED
    BY <2>1, <2>2
<1> QED
  BY <1>8, <1>9 DEF Status, R!Read

LEMMA StepIsRowStep ==
  ASSUME Typed, Typed', ReadsHold, [Next]_vars
  PROVE  R!Next
<1> TypeOK /\ TypeOK'
  BY DEF Typed
<1>1. Status' \in R!Statuses /\ Racing' \in BOOLEAN
  BY DEF Status, Racing, R!Statuses
<1>2. Status = "upset" <=> ~Coherent
  BY DEF Status
<1>3. ASSUME rows' = rows PROVE R!Next
  BY <1>1, <1>3, SameRowsRead DEF R!Next
<1>4. ASSUME NEW w \in Writers, Commit(w) PROVE R!Next
  <2>1. Newest' >= Newest
    BY <1>4, CommitRows, NewestGrows
  <2>2. CASE w \in outdated
    <3>1. Racing
      BY <1>4, <2>2 DEF Commit, Racing
    <3> QED
      BY <1>1, <2>1, <3>1 DEF R!Next, R!RacingWrite
  <2>3. CASE w \notin outdated /\ Coherent
    BY <1>1, <1>4, <2>3, SoundWriteIsRowStep DEF ReadsHold, R!Next
  <2>4. CASE ~Coherent
    BY <1>1, <1>2, <2>1, <2>4 DEF R!Next, R!Repair
  <2> QED
    BY <2>2, <2>3, <2>4
<1>5. ASSUME Merge PROVE R!Next
  <2>1. CASE Coherent
    BY <1>1, <1>5, <2>1, MergeIsRead DEF R!Next
  <2>2. CASE ~Coherent
    <3>1. Newest' >= Newest
      BY <1>5, MergeShrinks, NewestGrows
    <3> QED
      BY <1>1, <1>2, <2>2, <3>1 DEF R!Next, R!Repair
  <2> QED
    BY <2>1, <2>2
<1>6. ASSUME RowsAge PROVE R!Next
  BY <1>1, <1>6, AgeingIsRead DEF R!Next
<1>7. \/ rows' = rows
      \/ Merge \/ RowsAge
      \/ \E w \in Writers : Commit(w)
  BY DEF Next, vars, Fail, Snapshot, Skip, InsertAlert, BulkRefreshAlerts, ResolveAlert,
         ResolveFromDashboard, SweepStale, Trigger, Cleanup, Restart
<1> QED
  BY <1>3, <1>4, <1>5, <1>6, <1>7

(* The versioned rows of a key are one row to their readers: firings follow *)
(* one another and stay closed, unless a writer writes on an outdated read  *)
(* or on none, and also then no firing is forgotten.                        *)
THEOREM RowImplemented == Spec => ImplementsAlertRow
<1>1. Init => R!Init
  <2> SUFFICES ASSUME Init PROVE R!Init
    OBVIOUS
  <2>1. rows = {} /\ writing = {} /\ Firings = {} /\ OpenFirings = {}
    BY DEF Init, Firings, OpenFirings
  <2>2. Coherent /\ Answers = {"closed"}
    BY <2>1 DEF Coherent, Settled, Answers
  <2> QED
    BY <2>1, <2>2 DEF R!Init, Newest, Status, Racing
<1>2. Typed /\ Typed' /\ ReadsHold /\ [Next]_vars => [R!Next]_(R!vars)
  BY StepIsRowStep
<1> QED
  BY <1>1, <1>2, ReadsInvariance, PTL DEF Spec, ImplementsAlertRow, R!Spec
=============================================================================
