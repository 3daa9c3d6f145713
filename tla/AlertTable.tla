----------------------------- MODULE AlertTable -----------------------------
(* The alerts table of one ClickHouse node (internal/store/store.go,        *)
(* schema.sql): a ReplacingMergeTree(version) ordered by dedup_key and      *)
(* created_at.  Nothing is updated in place: every write appends rows with  *)
(* a higher version, readers pick the latest version themselves, and merges *)
(* drop superseded versions some time later.                                *)
(*                                                                         *)
(* A write is an INSERT ... SELECT: it appends what it computed from the    *)
(* rows it read, and other writers may append in between.  Every statement  *)
(* works on each dedup key apart, so the module is about one.               *)
EXTENDS Naturals, FiniteSets, FiniteSetsExt

CONSTANTS
    Environments, \* which outside events go together in a model, see Events
    MaxFirings,   \* bound: values of created_at
    MaxVersion    \* bound: versions of a firing

(* "read"   a query fails: the poll loop sees no row, the clean-up no       *)
(*          duplicate                                                       *)
(* "stats"  an insert fails to look up the earlier firings                  *)
(* "write"  a statement fails    "restart"  the process starts again        *)
(* "ui"     dashboard resolves   "sweep"    rows age and are swept          *)
(* "merge"  background merges    "trigger"  an alert is written by hand     *)
Events == {"read", "stats", "write", "merge", "restart", "ui", "sweep", "trigger"}

(* Each has one statement under way at a time.                              *)
Writers == {"reconcile", "dashboard", "heartbeat", "trigger"}

ASSUME EnvironmentsAssumption == Environments \subseteq SUBSET Events
ASSUME BoundsAssumption == MaxFirings \in Nat /\ MaxVersion \in Nat

VARIABLES
    environment, \* the outside events of this behaviour
    rows,       \* the stored rows
    pending,    \* [Writers -> sets of rows]: computed but not yet appended
    writing,    \* writers with a statement under way
    cycle,      \* the poll loop: "idle", or what its snapshot shows
    starting,   \* store.New has not finished its clean-up
    fired,      \* firings inserted so far, the clock of created_at
    outdated    \* history: writers whose last read failed, met two answers, or was
                \* followed by a write of somebody else, and those that read nothing

vars == <<environment, rows, pending, writing, cycle, starting, fired, outdated>>

(* order tells rows of one firing and version apart, the one inserted last  *)
(* has the highest; aged says updated_at is older than the stale threshold; *)
(* fireCount stands for both lifetime statistics, first_seen_at is carried  *)
(* along and lost with it.                                                  *)
Row == [created : 1 .. MaxFirings, version : 1 .. MaxVersion, resolved : BOOLEAN,
        fireCount : 1 .. MaxFirings, aged : BOOLEAN, order : Nat]

TypeOK ==
    /\ environment \in Environments
    /\ rows \subseteq Row
    /\ pending \in [Writers -> SUBSET Row]
    /\ writing \subseteq Writers
    /\ cycle \in {"idle", "open", "closed"}
    /\ starting \in BOOLEAN
    /\ fired \in 0 .. MaxFirings
    /\ outdated \subseteq Writers

Init ==
    /\ environment \in Environments
    /\ rows = {}
    /\ pending = [w \in Writers |-> {}]
    /\ writing = {}
    /\ cycle = "idle"
    /\ starting = FALSE
    /\ fired = 0
    /\ outdated = {}

-----------------------------------------------------------------------------
(* Reading                                                                  *)

Firings == {r.created : r \in rows}
RowsOf(c) == {r \in rows : r.created = c}

LatestAscending(c) ==                                               \* mutant
    {r \in RowsOf(c) : \A s \in RowsOf(c) : s.version >= r.version}

(* LIMIT 1 BY with version DESC, and argMax: any row of the highest version. *)
Latest(c) == {r \in RowsOf(c) : \A s \in RowsOf(c) : s.version <= r.version}

(* FINAL and a merge: among equal versions the row inserted last.           *)
Final(c) == CHOOSE r \in Latest(c) : \A s \in Latest(c) : s.order <= r.order

(* GetActiveAlerts: what the latest version of the latest firing may say.   *)
Answers == IF rows = {} THEN {"closed"}
           ELSE {IF r.resolved THEN "closed" ELSE "open" : r \in Latest(Max(Firings))}

PriorFireCountIfOpen ==                                             \* mutant
    IF \E r \in rows : r \in Latest(Max(Firings)) /\ ~r.resolved
    THEN Max({r.fireCount : r \in rows}) ELSE 0

PriorFireCountOfVersions == Cardinality(rows)                       \* mutant

(* priorFireStats: over every stored row, superseded ones included.         *)
PriorFireCount == IF rows = {} THEN 0 ELSE Max({r.fireCount : r \in rows})

(* Readers agree on every firing; no firing but the latest is open.         *)
Settled == \A r, s \in rows : r.created = s.created /\ r.version = s.version
                                => r.resolved = s.resolved
OpenFirings == {c \in Firings : \E r \in Latest(c) : ~r.resolved}
Coherent == Settled /\ \A c \in OpenFirings : c = Max(Firings)

Reads(w) == outdated' = IF Settled THEN outdated \ {w} ELSE outdated \cup {w}

-----------------------------------------------------------------------------
(* Statements: what they append, given what they read                       *)

(* created_at is in seconds; two inserts in the same one are left out.      *)
NewFiring(fireCount) ==
    [created |-> fired + 1, version |-> 1, resolved |-> FALSE, fireCount |-> fireCount,
     aged |-> FALSE, order |-> 0]

(* A resolving version names neither first_seen_at nor fire_count: the      *)
(* columns take the defaults of the schema, created_at and 1.               *)
Resolving(r) == [r EXCEPT !.version = @ + 1, !.resolved = TRUE, !.fireCount = 1]

Refreshed(r) == [r EXCEPT !.version = @ + 1, !.resolved = FALSE, !.aged = FALSE]

Open(readings) == {r \in readings : ~r.resolved}

(* One row read for every firing, as LIMIT 1 BY (dedup_key, created_at).    *)
Readings ==
    {pick \in SUBSET UNION {Latest(c) : c \in Firings} :
        \A c \in Firings : Cardinality(pick \cap RowsOf(c)) = 1}

Begin(w, new) ==
    /\ w \notin writing
    /\ \A r \in new : r.version <= MaxVersion
    /\ pending' = [pending EXCEPT ![w] = new]
    /\ writing' = writing \cup {w}

(* The rows are appended, a write the other writers have not seen.          *)
NextOrder(r) ==
    LET equal == {s \in RowsOf(r.created) : s.version = r.version}
    IN 1 + Max({0} \cup {s.order : s \in equal})

Commit(w) ==
    /\ w \in writing
    /\ rows' = rows \cup {[r EXCEPT !.order = NextOrder(r)] : r \in pending[w]}
    /\ pending' = [pending EXCEPT ![w] = {}]
    /\ writing' = writing \ {w}
    /\ outdated' = outdated \cup (IF pending[w] = {} THEN {} ELSE Writers \ {w})
    /\ starting' = FALSE
    /\ UNCHANGED <<environment, cycle, fired>>

(* It times out or is refused.  The error is logged, at start-up too.       *)
Fail(w) ==
    /\ "write" \in environment
    /\ w \in writing
    /\ pending' = [pending EXCEPT ![w] = {}]
    /\ writing' = writing \ {w}
    /\ starting' = FALSE
    /\ UNCHANGED <<environment, rows, cycle, fired, outdated>>

-----------------------------------------------------------------------------
(* The poll loop: a snapshot, then at most one write for the key.           *)

Snapshot ==
    /\ ~starting
    /\ cycle = "idle"
    /\ "reconcile" \notin writing
    /\ \/ cycle' \in Answers /\ Reads("reconcile")
       \/ /\ "read" \in environment
          /\ cycle' = "closed"
          /\ outdated' = outdated \cup {"reconcile"}
    /\ UNCHANGED <<environment, rows, pending, writing, starting, fired>>

(* Observed or not, a cycle need not write: the touch is rate-limited, a    *)
(* resolve waits for enough clean checks, maintenance drops new firings.    *)
Skip ==
    /\ cycle # "idle"
    /\ cycle' = "idle"
    /\ UNCHANGED <<environment, rows, pending, writing, starting, fired, outdated>>

(* InsertAlert: the statistics are looked up, then the row is inserted.     *)
InsertAlert ==
    /\ cycle = "closed"
    /\ fired < MaxFirings
    /\ \/ Begin("reconcile", {NewFiring(PriorFireCount + 1)})
       \/ "stats" \in environment /\ Begin("reconcile", {NewFiring(1)})
    /\ fired' = fired + 1
    /\ cycle' = "idle"
    /\ UNCHANGED <<environment, rows, starting, outdated>>

(* BulkRefreshAlerts: the latest of the rows, not of the versions, that is  *)
(* not resolved.                                                            *)
Refreshable == {r \in Open(rows) : \A s \in Open(rows) :
                   \/ s.created < r.created
                   \/ s.created = r.created /\ s.version <= r.version}

BulkRefreshAll ==                                                   \* mutant
    /\ cycle # "idle"
    /\ \/ \E r \in Refreshable : Begin("reconcile", {Refreshed(r)})
       \/ Refreshable = {} /\ Begin("reconcile", {})
    /\ cycle' = "idle"
    /\ UNCHANGED <<environment, rows, starting, fired, outdated>>

BulkRefreshAlerts ==
    /\ cycle = "open"
    /\ \/ \E r \in Refreshable : Begin("reconcile", {Refreshed(r)})
       \/ Refreshable = {} /\ Begin("reconcile", {})
    /\ cycle' = "idle"
    /\ UNCHANGED <<environment, rows, starting, fired, outdated>>

(* ResolveAlert: every firing whose latest version is open.                 *)
ResolveAlert ==
    /\ cycle = "open"
    /\ \E pick \in Readings :
          Begin("reconcile", {Resolving(r) : r \in Open(pick)})
    /\ Reads("reconcile")
    /\ cycle' = "idle"
    /\ UNCHANGED <<environment, rows, starting, fired>>

-----------------------------------------------------------------------------
(* The other writers                                                        *)

ResolveFromDashboard ==
    /\ "ui" \in environment
    /\ ~starting
    /\ \E pick \in Readings :
          Begin("dashboard", {Resolving(r) : r \in Open(pick)})
    /\ Reads("dashboard")
    /\ UNCHANGED <<environment, rows, cycle, starting, fired>>

(* BulkResolveStale                                                         *)
SweepStale ==
    /\ "sweep" \in environment
    /\ ~starting
    /\ LET stale == {r \in {Final(c) : c \in Firings} : ~r.resolved /\ r.aged}
       IN stale # {} /\ Begin("heartbeat", {Resolving(r) : r \in stale})
    /\ Reads("heartbeat")
    /\ UNCHANGED <<environment, rows, cycle, starting, fired>>

(* handleTriggerAlert: an insert that looks for no open row, and that names *)
(* both statistics, so that nothing is carried forward.                     *)
Trigger ==
    /\ "trigger" \in environment
    /\ ~starting
    /\ fired < MaxFirings
    /\ Begin("trigger", {NewFiring(1)})
    /\ fired' = fired + 1
    /\ outdated' = outdated \cup {"trigger"}
    /\ UNCHANGED <<environment, rows, cycle, starting>>

GhostsKeepingFirst(open) ==                                         \* mutant
    {r \in open : \E s \in open : s.created < r.created}

(* If several firings are open, all but the latest of them.                 *)
Ghosts(open) == {r \in open : \E s \in open : s.created > r.created}

(* cleanupDuplicateActiveAlerts: the ghosts are resolved, and their         *)
(* statistics kept.                                                         *)
Cleanup ==
    /\ starting
    /\ \/ /\ \E pick \in Readings :
                Begin("reconcile", {[r EXCEPT !.version = @ + 1, !.resolved = TRUE,
                                              !.aged = FALSE] : r \in Ghosts(Open(pick))})
          /\ Reads("reconcile")
       \/ /\ "read" \in environment
          /\ Begin("reconcile", {})
          /\ outdated' = outdated \cup {"reconcile"}
    /\ UNCHANGED <<environment, rows, cycle, starting, fired>>

(* A statement under way has been executed before, or never will be.        *)
Restart ==
    /\ "restart" \in environment
    /\ pending' = [w \in Writers |-> {}]
    /\ writing' = {}
    /\ cycle' = "idle"
    /\ outdated' = Writers
    /\ starting' = TRUE
    /\ UNCHANGED <<environment, rows, fired>>

-----------------------------------------------------------------------------
(* ClickHouse and time                                                      *)

(* A background merge keeps the higher version, the later row of equal      *)
(* ones.  Any two rows may be merged, also with others between their parts. *)
Supersedes(r, s) == r.version > s.version \/ (r.version = s.version /\ r.order > s.order)

Merge ==
    /\ "merge" \in environment
    /\ \E r \in rows, s \in rows :
          /\ r.created = s.created
          /\ Supersedes(r, s)
          /\ rows' = rows \ {s}
    /\ UNCHANGED <<environment, pending, writing, cycle, starting, fired, outdated>>

(* Statements time out within seconds, rows age over hours.                 *)
RowsAge ==
    /\ "sweep" \in environment
    /\ writing = {} /\ cycle = "idle"
    /\ \E r \in rows : ~r.aged
    /\ rows' = {[r EXCEPT !.aged = TRUE] : r \in rows}
    /\ UNCHANGED <<environment, pending, writing, cycle, starting, fired, outdated>>

-----------------------------------------------------------------------------
Next ==
    \/ \E w \in Writers : Commit(w) \/ Fail(w)
    \/ Snapshot
    \/ Skip
    \/ InsertAlert
    \/ BulkRefreshAlerts
    \/ ResolveAlert
    \/ ResolveFromDashboard
    \/ SweepStale
    \/ Trigger
    \/ Cleanup
    \/ Restart
    \/ Merge
    \/ RowsAge

Spec == Init /\ [][Next]_vars

-----------------------------------------------------------------------------
(* Properties                                                               *)

(* Versions without a lock: the table stays coherent unless a writer writes *)
(* on the strength of an outdated read, or of none.                         *)
CoherentWithoutRaces ==
    [][Coherent /\ ~Coherent' =>
          \E w \in writing \cap outdated : Commit(w)]_vars

(* Readers need no FINAL: a merge, whenever it comes, changes no answer of  *)
(* GetActiveAlerts, it can only settle which of two equal versions counts.  *)
MergesAreInvisible ==
    [][Merge => Answers' \subseteq Answers]_vars

(* After a start with nobody else writing, at most one firing is open, and  *)
(* an alert that was shown is still shown.                                  *)
CleanupLeavesOne ==
    [][starting /\ Commit("reconcile") /\ "reconcile" \notin outdated =>
          /\ Cardinality(OpenFirings') <= 1
          /\ Answers' = Answers]_vars

(* The one row that the versions stand for, as readers see it.              *)
Newest == IF rows = {} THEN 0 ELSE Max(Firings)
Status == IF ~Coherent THEN "upset" ELSE IF "open" \in Answers THEN "open" ELSE "closed"
Racing == writing \cap outdated # {}

(* Unless a writer writes on an outdated read, or an alert is written by    *)
(* hand, the versioned rows are one row of which firings come one after the *)
(* other and a closed one is not opened again, whatever fails, restarts, is *)
(* swept or merged.                                                         *)
R == INSTANCE AlertRow WITH firing <- Newest, status <- Status, racing <- Racing
ImplementsAlertRow == R!Spec

(* Lifetime statistics are carried forward: every firing is counted.        *)
FireCountAdvances ==
    \A r \in rows : ~r.resolved =>
        r.fireCount = Cardinality({c \in Firings : c <= r.created})

(* They are as long as nothing is merged, no lookup fails and no firing is  *)
(* written by hand, which counts as the first one.                          *)
FireCountAdvancesUnmerged ==
    {"merge", "stats", "trigger"} \cap environment = {} => FireCountAdvances
=============================================================================
