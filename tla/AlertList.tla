------------------------------ MODULE AlertList ------------------------------
(***************************************************************************)
(* The list of the alerts view (views/Alerts.tsx): what the filters, the    *)
(* search text and the time range leave of the alerts that were loaded, in  *)
(* groups, on a time line, or flat and in pages with a cursor for the       *)
(* keyboard; and the counters above it.  The filters by severity, category  *)
(* and type act as the one by instance does.                                *)
(***************************************************************************)
EXTENDS Integers, FiniteSets

CONSTANTS
    Catalog,   \* the alerts there may be
    PageSize   \* FLAT_PAGE_SIZE

AlertType ==
    [ id : Nat, instance : STRING, category : STRING, status : {"firing", "stale", "resolved"},
      inRange : BOOLEAN, \* created in the custom time range
      hit     : BOOLEAN ] \* contains the search text

ConstantsOK ==
    /\ Catalog \subseteq AlertType /\ IsFiniteSet(Catalog) /\ PageSize \in Nat \ {0}
    /\ \A a, b \in Catalog : a.id = b.id => a = b

VARIABLES
    allAlerts,     \* in the order of the answer, which nothing here depends on
    filters,       \* filterInstance, filterStatus
    search,        \* searchText is not empty
    range,         \* customFrom and customTo are set
    viewMode, cursorIdx, flatPage

list == <<allAlerts, filters, search, range>>
vars == <<list, viewMode, cursorIdx, flatPage>>

ValuesOf(field) == {"all"} \cup {a[field] : a \in Catalog}
Filters == [instance : ValuesOf("instance"), status : ValuesOf("status")]
Firings == [instance |-> "all", status |-> "firing"]

TypeOK ==
    /\ allAlerts \subseteq Catalog
    /\ filters \in Filters
    /\ search \in BOOLEAN /\ range \in BOOLEAN
    /\ viewMode \in {"grouped", "flat", "timeline"}
    /\ cursorIdx \in -1 .. Cardinality(Catalog) /\ flatPage \in 0 .. Cardinality(Catalog)

-----------------------------------------------------------------------------
Firing(a) == a.status = "firing"

(* The predicate of the list.  An alert that fires is shown whatever the    *)
(* time range is.                                                           *)
Passes(a) ==
    /\ \A field \in DOMAIN filters : filters[field] \in {"all", a[field]}
    /\ range => a.inRange \/ Firing(a)
    /\ search => a.hit

filtered == {a \in allAlerts : Passes(a)}
count == Cardinality(filtered)

(* The cards above the list count what is loaded, not what is filtered.     *)
Counter(status) == Cardinality({a \in allAlerts : a.status = status})

(* The groups of the first view mode: instance and category.                *)
Group(a) == <<a.instance, a.category>>
groups == {Group(a) : a \in filtered}
GroupAlerts(g) == {a \in filtered : Group(a) = g}

-----------------------------------------------------------------------------
(* The mount: the instance of the preset, if there is one, else the filter  *)
(* kept in localStorage, where every change puts it.                        *)
Init ==
    /\ allAlerts = Catalog
    /\ filters \in {f \in Filters : f.status = "firing"}
    /\ search = FALSE /\ range = FALSE
    /\ viewMode = "grouped" /\ cursorIdx = -1 /\ flatPage = 0

(* The effect on `filtered`, which every change of the list runs.           *)
ResetCursor == cursorIdx' = -1

(* A load or a resolve sets the alerts; the page stays.                     *)
Loaded(alerts) ==
    /\ allAlerts' = alerts
    /\ ResetCursor
    /\ UNCHANGED <<filters, search, range, viewMode, flatPage>>

(* A filter is chosen, a saved view is applied, or the filters are cleared; *)
(* the page is reset when the key of the filters changes.                   *)
SetFilters(f) ==
    /\ filters' = f
    /\ flatPage' = IF f = filters THEN flatPage ELSE 0
    /\ ResetCursor
    /\ UNCHANGED <<allAlerts, search, range, viewMode>>

(* handleSearchChange: a token sets its filter, the rest is the text, which *)
(* is not part of that key.                                                 *)
Search(text, token) ==
    /\ search' = text
    /\ filters' = [filters EXCEPT !.instance = IF token = "all" THEN @ ELSE token]
    /\ flatPage' = IF filters' = filters THEN flatPage ELSE 0
    /\ ResetCursor
    /\ UNCHANGED <<allAlerts, range, viewMode>>

SetRange ==
    /\ range' = ~range
    /\ ResetCursor
    /\ UNCHANGED <<allAlerts, filters, search, viewMode, flatPage>>

SetViewMode(mode) ==
    /\ mode # viewMode /\ viewMode' = mode
    /\ ResetCursor
    /\ UNCHANGED <<list, flatPage>>

-----------------------------------------------------------------------------
(* j and k; the effect turns to the page of the cursor.                     *)
MoveTo(i) ==
    /\ viewMode = "flat"
    /\ cursorIdx' = i
    /\ flatPage' = IF i < 0 THEN flatPage ELSE i \div PageSize
    /\ UNCHANGED <<list, viewMode>>

Down == MoveTo(IF cursorIdx < 0 THEN 0 ELSE IF cursorIdx + 1 < count THEN cursorIdx + 1 ELSE count - 1)
Up == MoveTo(IF cursorIdx < 0 THEN 0 ELSE IF cursorIdx > 0 THEN cursorIdx - 1 ELSE 0)

Escape ==
    /\ viewMode = "flat"
    /\ cursorIdx' = -1
    /\ UNCHANGED <<list, viewMode, flatPage>>

(* The buttons below a flat list of more than one page.                     *)
TurnPage(p) ==
    /\ viewMode = "flat" /\ count > PageSize
    /\ \/ flatPage > 0 /\ p = flatPage - 1
       \/ (flatPage + 1) * PageSize < count /\ p = flatPage + 1
    /\ flatPage' = p
    /\ UNCHANGED <<list, viewMode, cursorIdx>>

Next ==
    \/ \E alerts \in SUBSET Catalog : Loaded(alerts)
    \/ \E f \in Filters : SetFilters(f)
    \/ \E text \in BOOLEAN, token \in ValuesOf("instance") : Search(text, token)
    \/ SetRange
    \/ \E mode \in {"grouped", "flat", "timeline"} : SetViewMode(mode)
    \/ Down \/ Up \/ Escape
    \/ \E p \in 0 .. Cardinality(Catalog) : TurnPage(p)

Spec == Init /\ [][Next]_vars

-----------------------------------------------------------------------------
(* From the comment in the list's predicate: excluding alerts there "would  *)
(* make the list count disagree with the Firing stat card".  With no filter *)
(* but "firing" the list is the card's count, in any time range, and the    *)
(* groups hold each of its alerts once.                                     *)
ListAgreesWithCards ==
    /\ filters = Firings /\ ~search => count = Counter("firing")
    /\ \A a \in filtered : {g \in groups : a \in GroupAlerts(g)} = {Group(a)}
    /\ Counter("firing") + Counter("stale") + Counter("resolved") = Cardinality(allAlerts)

(* The cursor of the keyboard stands on a row of the list, or nowhere,      *)
(* whatever loads, filters and searches come between two keys: Enter opens  *)
(* the alert that is marked.                                                *)
CursorIsOnARow == cursorIdx >= 0 /\ filtered # {} => cursorIdx < count
=============================================================================
