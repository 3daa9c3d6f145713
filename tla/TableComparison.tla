--------------------------- MODULE TableComparison ---------------------------
(***************************************************************************)
(* The comparison of tables across instances (web/frontend/src/views/       *)
(* Compare.tsx, TablesView and NodeSelector; internal/web/compare.go,       *)
(* handleCompareTables): which nodes are compared, what counts as a         *)
(* difference, and the banner that says there is none.  The order of the    *)
(* rows is left out.                                                        *)
(***************************************************************************)
EXTENDS Integers, Sequences, SequencesExt, FiniteSets, FiniteSetsExt, Functions

CONSTANTS
    Instances,
    Tables,
    Copies \* what a node may hold of a table: [rows, partition, sorting, columns, s3]

(* The percentage of the bytes on S3 is not known without disk data, and    *)
(* the columns when their query failed.                                     *)
Unknown == 101
Absent == [rows |-> 0, partition |-> "", sorting |-> "", columns |-> "", s3 |-> Unknown]

ConstantsOK ==
    /\ Instances # {} /\ IsFiniteSet(Instances)
    /\ Absent \notin Copies /\ \A c \in Copies : c.rows \in Nat /\ c.s3 \in 0 .. Unknown

VARIABLES
    held,     \* the copies that the instances hold
    unread,   \* instances whose queries failed in the last load
    loaded,   \* the view is mounted, over the answer of the server
    selected, \* selectedNodes, in the order of the clicks
    stored,   \* compare-selected-nodes in localStorage
    search    \* tables that match the search

vars == <<held, unread, loaded, selected, stored, search>>

TypeOK ==
    /\ held \in [Tables -> [Instances -> Copies \cup {Absent}]]
    /\ unread \subseteq Instances /\ loaded \in BOOLEAN
    /\ \A s \in {selected, stored} : Range(s) \subseteq Instances /\ IsInjective(s)
    /\ search \subseteq Tables

AllNodes == SetToSeq(Instances)

(* The answer, handleCompareTables: an instance whose queries failed lacks  *)
(* every table; a table nobody is known to hold is not in it.               *)
Node(t, n) == IF n \in unread THEN Absent ELSE held[t][n]
missing_on(t) == {n \in Instances : Node(t, n) = Absent}
Answered == {t \in Tables : missing_on(t) # Instances}

(* disk_discrepancy, over every instance that has disk data, selected or    *)
(* not.                                                                     *)
disk_discrepancy(t) ==
    LET known == {Node(t, n).s3 : n \in Instances} \ {Unknown} IN
    known # {} /\ Max(known) - Min(known) > 20

-----------------------------------------------------------------------------
activeNodes == IF selected = <<>> THEN AllNodes ELSE selected

(* The compared nodes that hold the table, and the first of them.           *)
Present(t) == Range(activeNodes) \ missing_on(t)
ref(t) == activeNodes[SelectInSeq(activeNodes, LAMBDA n : n \in Present(t))]

isRowMissing(t) == \E n \in Range(activeNodes) : n \in missing_on(t)

(* rowDrift over 1%                                                         *)
Drifts(t) ==
    LET rows == {Node(t, n).rows : n \in Present(t)} IN
    Cardinality(Present(t)) >= 2 /\ (Max(rows) - Min(rows)) * 100 > Max(rows)

Divergent(t) == ~isRowMissing(t) /\ Drifts(t)

(* computeNodeDDL: every node against the first one.                        *)
DDLDiffers(t) ==
    \E n \in Present(t) :
        LET first == Node(t, ref(t))
            node == Node(t, n)
        IN  \/ first.partition # node.partition \/ first.sorting # node.sorting
            \/ first.columns # "" /\ node.columns # "" /\ first.columns # node.columns

baseRows == {t \in Answered \cap search : Present(t) # {}}

filtered(rowFilter) ==
    CASE rowFilter = "all" -> baseRows
      [] rowFilter = "missing" -> {t \in baseRows : isRowMissing(t)}
      [] rowFilter = "divergent" -> {t \in baseRows : Divergent(t)}
      [] rowFilter = "ddl" -> {t \in baseRows : DDLDiffers(t)}
      [] rowFilter = "disk" -> {t \in baseRows : disk_discrepancy(t)}

AllIdentical ==
    loaded /\ Answered # {} /\ \A f \in {"missing", "divergent", "ddl", "disk"} : filtered(f) = {}

-----------------------------------------------------------------------------
Init ==
    /\ held \in [Tables -> [Instances -> Copies \cup {Absent}]]
    /\ unread = {} /\ loaded = FALSE
    /\ selected = <<>> /\ stored = <<>> /\ search = Tables

(* The answer mounts the view, which takes the stored nodes, or all.        *)
Load ==
    /\ ~loaded /\ loaded' = TRUE
    /\ unread' \in {s \in SUBSET Instances : Cardinality(s) <= 1}
    /\ selected' = IF stored = <<>> THEN AllNodes ELSE stored
    /\ search' = Tables
    /\ UNCHANGED <<held, stored>>

(* Another range or tab unmounts it.                                        *)
Leave == loaded /\ loaded' = FALSE /\ UNCHANGED <<held, unread, selected, stored, search>>

handleSetNodes(nodes) ==
    /\ loaded
    /\ selected' = nodes /\ stored' = nodes
    /\ UNCHANGED <<held, unread, loaded, search>>

(* A node is selected once, so the filter removes one place.                *)
toggle(n) ==
    \/ \E i \in DOMAIN activeNodes :
          activeNodes[i] = n /\ Len(activeNodes) > 1 /\ handleSetNodes(RemoveAt(activeNodes, i))
    \/ n \notin Range(activeNodes) /\ handleSetNodes(Append(activeNodes, n))

SelectAll == handleSetNodes(AllNodes)
ResetNodes == Len(AllNodes) > 1 /\ handleSetNodes(SubSeq(AllNodes, 1, 1))

Search ==
    /\ loaded
    /\ search' \in {Tables} \cup {{t} : t \in Tables}
    /\ UNCHANGED <<held, unread, loaded, selected, stored>>

Next ==
    \/ Load \/ Leave
    \/ (\E n \in Instances : toggle(n)) \/ SelectAll \/ ResetNodes
    \/ Search

Spec == Init /\ [][Next]_vars

-----------------------------------------------------------------------------
Known(columns) == columns # ""

(* The two copies are the same as far as this view compares them.           *)
Same(a, b) ==
    /\ (a = Absent) = (b = Absent)
    /\ Max({a.rows, b.rows}) * 99 <= Min({a.rows, b.rows}) * 100
    /\ a.partition = b.partition /\ a.sorting = b.sorting
    /\ Known(a.columns) /\ Known(b.columns) => a.columns = b.columns
    /\ Unknown \notin {a.s3, b.s3} => a.s3 - b.s3 \in -20 .. 20

(* "All nodes identical" is shown only over nodes that, two by two and in   *)
(* whatever order they were chosen, hold the same tables, as long as the    *)
(* search hides none, every instance was read, and all the columns of a     *)
(* table are known or none are.                                             *)
AllIdenticalIsTrue ==
    /\ AllIdentical /\ search = Tables
    /\ Range(activeNodes) \cap unread = {}
    /\ \A t \in Tables : \A n, k \in Present(t) :
          Known(Node(t, n).columns) = Known(Node(t, k).columns)
    => \A t \in Tables : \A n, k \in Range(activeNodes) : Same(held[t][n], held[t][k])

(* The nodes compared are what the next visit compares, and never none.     *)
NodesAreKept ==
    /\ loaded /\ stored # <<>> => activeNodes = stored
    /\ activeNodes # <<>>
=============================================================================
