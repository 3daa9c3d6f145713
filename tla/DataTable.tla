------------------------------ MODULE DataTable ------------------------------
(***************************************************************************)
(* The table of the dashboard (components/DataTable.tsx): rows sorted by a  *)
(* column, in pages, with a row that has the focus of the keyboard.  The    *)
(* sort of a table with a storageKey is kept in localStorage.               *)
(***************************************************************************)
EXTENDS Integers, Sequences, SequencesExt

CONSTANTS
    Columns,
    Cells,     \* values of a cell: Null, or a number
    PageSize,
    MaxRows    \* bound: rows of the data

Null == -1
Unsorted == "unsorted"

ConstantsOK ==
    /\ Unsorted \notin Columns /\ Cells \subseteq Int
    /\ PageSize \in Nat \ {0} /\ MaxRows \in Nat

VARIABLES
    source,       \* the rows, in the order of the answer
    sortKey, sortAsc,
    storedSort,   \* localStorage
    page, focusedRow

vars == <<source, sortKey, sortAsc, storedSort, page, focusedRow>>

Row == [Columns -> Cells]
Sort == [col : Columns \cup {Unsorted}, asc : BOOLEAN]
Nowhere == -1

TypeOK ==
    /\ source \in Seq(Row)
    /\ sortKey \in Columns \cup {Unsorted} /\ sortAsc \in BOOLEAN
    /\ storedSort \in Sort
    /\ page \in Nat /\ focusedRow \in {Nowhere} \cup Nat

-----------------------------------------------------------------------------
(* The comparator: null comes last, whichever way the numbers go.           *)
Before(a, b) ==
    LET av == a[sortKey] bv == b[sortKey]
    IN CASE av = Null -> FALSE
         [] bv = Null -> av # Null
         [] OTHER     -> IF sortAsc THEN av < bv ELSE av > bv

(* A stable sort: where equals stay in the order of the data.               *)
Rank(i) ==
    Cardinality({j \in DOMAIN source :
        Before(source[j], source[i]) \/ (j <= i /\ ~Before(source[i], source[j]))})

sorted ==
    IF sortKey = Unsorted THEN source
    ELSE [k \in DOMAIN source |-> source[CHOOSE i \in DOMAIN source : Rank(i) = k]]

CeilDiv(n, d) == (n + d - 1) \div d
totalPages == CeilDiv(Len(source), PageSize)
clampedPage == Min({page, Max({0, totalPages - 1})})
visible == SubSeq(sorted, clampedPage * PageSize + 1, Min({(clampedPage + 1) * PageSize, Len(source)}))

-----------------------------------------------------------------------------
(* The mount restores the sort.                                             *)
Mount ==
    /\ sortKey = storedSort.col
    /\ sortAsc = storedSort.asc
    /\ page = 0 /\ focusedRow = Nowhere

Init ==
    /\ source = <<>>
    /\ storedSort = [col |-> Unsorted, asc |-> TRUE]
    /\ Mount

(* The data is loaded again; page and focus stay.                           *)
Load(rows) ==
    /\ source' = rows
    /\ UNCHANGED <<sortKey, sortAsc, storedSort, page, focusedRow>>

(* The table is mounted again, on another visit of its view.                *)
Remount ==
    /\ sortKey' = storedSort.col /\ sortAsc' = storedSort.asc
    /\ page' = 0 /\ focusedRow' = Nowhere
    /\ UNCHANGED <<source, storedSort>>

handleSort(col) ==
    /\ source # <<>>
    /\ page' = 0
    /\ sortKey' = col
    /\ sortAsc' = (col = sortKey => ~sortAsc)
    /\ storedSort' = [col |-> col, asc |-> sortAsc']
    /\ UNCHANGED <<source, focusedRow>>

(* The two buttons of the pages; they step from page, which the data may    *)
(* have left behind.                                                        *)
TurnTo(p) ==
    /\ page' = p
    /\ UNCHANGED <<source, sortKey, sortAsc, storedSort, focusedRow>>

PreviousPage == totalPages > 1 /\ clampedPage > 0 /\ TurnTo(Max({0, page - 1}))
NextPage == clampedPage < totalPages - 1 /\ TurnTo(Min({totalPages - 1, page + 1}))

(* j and k, the focus of the table, or a click on a row.                    *)
Focus(i) ==
    /\ source # <<>>
    /\ focusedRow' = i
    /\ UNCHANGED <<source, sortKey, sortAsc, storedSort, page>>

Down == Focus(IF focusedRow = Nowhere THEN 0 ELSE Min({Len(visible) - 1, focusedRow + 1}))
Up == Focus(IF focusedRow = Nowhere THEN 0 ELSE Max({0, focusedRow - 1}))
Click(i) == i < Len(visible) /\ Focus(i)

Next ==
    \/ \E n \in 0 .. MaxRows : \E rows \in [1 .. n -> Row] : Load(rows)
    \/ Remount
    \/ \E col \in Columns : handleSort(col)
    \/ PreviousPage \/ NextPage
    \/ Down \/ Up \/ \E i \in 0 .. PageSize - 1 : Click(i)

Spec == Init /\ [][Next]_vars

-----------------------------------------------------------------------------
Occurrences(row, s) == Cardinality({i \in DOMAIN s : s[i] = row})

(* A table with data shows rows, also when the data has shrunk below the    *)
(* page it was turned to; the pages hold each row once; and the values come *)
(* before the nulls in either direction.                                    *)
PagesShowTheData ==
    /\ source # <<>> => visible # <<>>
    /\ \A row \in Range(source) : Occurrences(row, sorted) = Occurrences(row, source)
    /\ sortKey # Unsorted =>
          \A i, j \in DOMAIN sorted : sorted[i][sortKey] = Null /\ i < j => sorted[j][sortKey] = Null
=============================================================================
