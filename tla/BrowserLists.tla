---------------------------- MODULE BrowserLists ----------------------------
(***************************************************************************)
(* The parts of the dashboard that make something of the rows they have:    *)
(* the comparisons of tables and of settings, the list of alerts, the pages *)
(* of the query log and of the tables, the widgets of the overview.         *)
(***************************************************************************)

CONSTANTS
    Compared, ComparedTables, Copies, Settings, SettingValues,
    Catalog, PageSize,                    \* of the list of alerts and of the tables
    LogPage, PerSecond, MaxQueries, MaxReloads,   \* of the query log
    Columns, Cells, MaxRows,
    Types, MaxBuilds

VARIABLES
    (* TableComparison *)
    held, unread, loaded, selected, tcStored, tcSearch,
    (* SettingsComparison *)
    set, scUnread, scLoaded, baseline, diffsOnly,
    (* AlertList *)
    allAlerts, filters, search, alRange, viewMode, cursorIdx, flatPage,
    (* QueryLog *)
    log, copied, retained, status, firstPage, pagesBelow, length, reload, more, qlLoading,
    loadingMore, exhausted, error, reloads, crossed, pagesOf,
    (* DataTable *)
    source, sortKey, sortAsc, storedSort, page, focusedRow,
    (* WidgetLayout *)
    build, widgets, wlStored

tcVars ==
    <<held, unread, loaded, selected, tcStored, tcSearch>>
scVars ==
    <<set, scUnread, scLoaded, baseline, diffsOnly>>
alVars ==
    <<allAlerts, filters, search, alRange, viewMode, cursorIdx, flatPage>>
qlVars ==
    <<log, copied, retained, status, firstPage, pagesBelow, length, reload, more, qlLoading,
      loadingMore, exhausted, error, reloads, crossed, pagesOf>>
dtVars ==
    <<source, sortKey, sortAsc, storedSort, page, focusedRow>>
wlVars ==
    <<build, widgets, wlStored>>

TC == INSTANCE TableComparison WITH
    Instances <- Compared, Tables <- ComparedTables, stored <- tcStored, search <- tcSearch
SC == INSTANCE SettingsComparison WITH
    Instances <- Compared, Values <- SettingValues, unread <- scUnread, loaded <- scLoaded
AL == INSTANCE AlertList WITH range <- alRange
QL == INSTANCE QueryLog WITH
    PageSize <- LogPage, MaxRows <- MaxQueries, loading <- qlLoading
DT == INSTANCE DataTable
WL == INSTANCE WidgetLayout WITH stored <- wlStored

ASSUME ListsFit ==
    /\ TC!ConstantsOK /\ SC!ConstantsOK /\ AL!ConstantsOK /\ QL!ConstantsOK
    /\ DT!ConstantsOK /\ WL!ConstantsOK

=============================================================================
