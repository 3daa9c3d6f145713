---------------------------- MODULE BrowserProofs ----------------------------
(* What the dashboard of MCBrowser keeps, for every value of its constants: *)
(* the invariants of ViewProofs and BrowserPartsProofs together.            *)
EXTENDS MCBrowser, ViewProofs, BrowserPartsProofs

(* The part that runs takes a step of its own, and the loaders take one or  *)
(* rest.                                                                    *)
LEMMA OnePartSteps ==
  ASSUME [BrowserNext]_browserVars
  PROVE  /\ part' = part
         /\ [Next]_vars
         /\ part = "links" => [NAV!Next]_(NAV!vars)
         /\ part = "chat" => [CHAT!Next]_(CHAT!vars)
         /\ part = "alerts" => [AS!Next]_(AS!vars)
         /\ part = "login" => [RE!Next]_(RE!vars)
         /\ part = "terminal" => [TERM!Next]_(TERM!vars)
         /\ part = "collectors" => [RC!Next]_(RC!vars)
         /\ part = "tables" => [TC!Next]_(TC!vars)
         /\ part = "settings" => [SC!Next]_(SC!vars)
         /\ part = "list" => [AL!Next]_(AL!vars)
         /\ part = "query log" => [QL!Next]_(QL!vars)
         /\ part = "scanner" => [TS!Next]_(TS!vars)
         /\ part = "table" => [DT!Next]_(DT!vars)
         /\ part = "lists" => [SL!Next]_(SL!vars)
         /\ part = "layout" => [WL!Next]_(WL!vars)
<1>1. CASE UNCHANGED browserVars
  <2>1. UNCHANGED <<part, vars, navVars, chatVars, asVars, reVars, termVars, rcVars, tcVars, scVars,
                    alVars, qlVars, tsVars, dtVars, slVars, wlVars>>
    BY <1>1 DEF browserVars
  <2>2. UNCHANGED NAV!vars
    BY <2>1 DEF navVars, NAV!vars, NAV!store, NAV!browser
  <2>3. UNCHANGED CHAT!vars
    BY <2>1 DEF chatVars, CHAT!vars, CHAT!pageVars, CHAT!history
  <2>4. UNCHANGED AS!vars
    BY <2>1 DEF asVars, AS!vars, AS!screen, AS!past
  <2>5. UNCHANGED RE!vars
    BY <2>1 DEF reVars, RE!vars, RE!session, RE!modal
  <2>6. UNCHANGED TERM!vars
    BY <2>1 DEF termVars, TERM!vars, TERM!store, TERM!results
  <2>7. UNCHANGED RC!vars
    BY <2>1 DEF rcVars, RC!vars, RC!mounted, RC!triggering
  <2>8. UNCHANGED TC!vars /\ UNCHANGED SC!vars
    BY <2>1 DEF tcVars, TC!vars, scVars, SC!vars
  <2>9. UNCHANGED AL!vars
    BY <2>1 DEF alVars, AL!vars, AL!list
  <2>10. UNCHANGED QL!vars
    BY <2>1 DEF qlVars, QL!vars, QL!state, QL!sources
  <2>11. UNCHANGED TS!vars
    BY <2>1 DEF tsVars, TS!vars, TS!controls
  <2>12. UNCHANGED DT!vars
    BY <2>1 DEF dtVars, DT!vars
  <2>13. UNCHANGED SL!vars /\ UNCHANGED WL!vars
    BY <2>1 DEF slVars, SL!vars, wlVars, WL!vars
  <2> QED
    BY <2>1, <2>2, <2>3, <2>4, <2>5, <2>6, <2>7, <2>8, <2>9, <2>10, <2>11, <2>12, <2>13
<1>2. CASE BrowserNext
  BY <1>2 DEF BrowserNext, Resting
<1> QED
  BY <1>1, <1>2

BrowserInv ==
    /\ part = "links" => NavInv
    /\ part = "chat" => ChatInv /\ CopiesTyped
    /\ part = "alerts" => AsInv
    /\ part = "login" => ReInv
    /\ part = "terminal" => TermInv /\ TermFlags
    /\ part = "collectors" => RcInv
    /\ part = "tables" => TcInv
    /\ part = "settings" => ScInv
    /\ part = "list" => AlInv
    /\ part = "query log" => QlInv
    /\ part = "scanner" => TsInv
    /\ part = "table" => DT!TypeOK
    /\ part = "lists" => SlInv
    /\ part = "layout" => WlInv

LEMMA BrowserInvariance == BrowserSpec => []BrowserInv
<1>1. BrowserInit => BrowserInv
  <2> SUFFICES ASSUME BrowserInit PROVE BrowserInv
    OBVIOUS
  <2>1. /\ part = "links" => NavInv
        /\ part = "chat" => ChatInv /\ CopiesTyped
        /\ part = "alerts" => AsInv
        /\ part = "login" => ReInv
        /\ part = "terminal" => TermInv /\ TermFlags
    BY NavStarts, ChatStarts, CopiesTypedStart, AsStarts, ReStarts, TermStarts, TermFlagsStart DEF BrowserInit
  <2>2. /\ part = "collectors" => RcInv
        /\ part = "scanner" => TsInv
        /\ part = "lists" => SlInv
        /\ part = "tables" => TcInv
        /\ part = "settings" => ScInv
    BY RcStarts, TsStarts, SlStarts, TcStarts, ScStarts DEF BrowserInit
  <2>3. /\ part = "list" => AlInv
        /\ part = "query log" => QlInv
        /\ part = "table" => DT!TypeOK
        /\ part = "layout" => WlInv
    BY AlStarts, QlStarts, DtStarts, WlStarts DEF BrowserInit
  <2> QED
    BY <2>1, <2>2, <2>3 DEF BrowserInv
<1>2. BrowserInv /\ [BrowserNext]_browserVars => BrowserInv'
  <2> SUFFICES ASSUME BrowserInv, [BrowserNext]_browserVars PROVE BrowserInv'
    OBVIOUS
  <2>1. /\ part' = "links" => NavInv'
        /\ part' = "chat" => ChatInv' /\ CopiesTyped'
        /\ part' = "alerts" => AsInv'
        /\ part' = "login" => ReInv'
        /\ part' = "terminal" => TermInv' /\ TermFlags'
    BY OnePartSteps, NavKept, ChatKept, CopiesTypedKept, AsKept, ReKept, TermKept, TermFlagsKept DEF BrowserInv
  <2>2. /\ part' = "collectors" => RcInv'
        /\ part' = "scanner" => TsInv'
        /\ part' = "lists" => SlInv'
        /\ part' = "tables" => TcInv'
        /\ part' = "settings" => ScInv'
    BY OnePartSteps, RcKept, TsKept, SlKept, TcKept, ScKept DEF BrowserInv
  <2>3. /\ part' = "list" => AlInv'
        /\ part' = "query log" => QlInv'
        /\ part' = "table" => DT!TypeOK'
        /\ part' = "layout" => WlInv'
    BY OnePartSteps, AlKept, QlKept, DtKept, WlKept DEF BrowserInv
  <2> QED
    BY <2>1, <2>2, <2>3 DEF BrowserInv
<1> QED
  BY <1>1, <1>2, PTL DEF BrowserSpec

LEMMA LoadersAreThere == BrowserSpec => Spec
<1>1. BrowserInit => Init
  BY DEF BrowserInit
<1>2. [BrowserNext]_browserVars => [Next]_vars
  BY OnePartSteps
<1> QED
  BY <1>1, <1>2, PTL DEF BrowserSpec, Spec

-----------------------------------------------------------------------------
(* useStore.tsx: the URL of the screen, loaded anew, opens the same screen, *)
(* and the dashboard's back button never leads to the view it is pressed    *)
(* on; for any number of instances and entries of the browser's history.    *)
THEOREM LinksAndBackHold == BrowserSpec => []NavigationHolds
<1>1. NavInv => NAV!LinkOpensThis /\ NAV!BackLeadsAway
  <2> SUFFICES ASSUME NavInv PROVE NAV!BackLeadsAway
    BY DEF NavInv
  <2> QED
    BY DEF NavInv, StackChanges, NAV!BackLeadsAway
<1>2. BrowserInv => NavigationHolds
  BY <1>1 DEF BrowserInv, NavigationHolds
<1> QED
  BY <1>2, BrowserInvariance, PTL

(* Whatever turns, is disabled or is kept waiting has something under way   *)
(* that ends it: a request of the loader, of the alerts, of the terminal    *)
(* (Terminal.tsx), of the buttons that run collectors (RunCheck.tsx), the   *)
(* check behind the lock button and the modal (useReAuth.ts), the stream of *)
(* an answer (ChatAnalyzer.tsx, useAIAnalysis.ts).                          *)
THEOREM NothingWaitsInVain == BrowserSpec => []NothingHangs
<1>1. SpinnerEnds /\ BrowserInv => NothingHangs
  BY DEF BrowserInv, NothingHangs, AsInv, ReInv, ChatInv, TermInv, RcInv, RunsInv
<1> QED
  BY <1>1, BrowserInvariance, LoadersAreThere, SpinnersHaveRequests, PTL

(* A resolved alert does not fire again on the screen when an older answer  *)
(* comes (Alerts.tsx), the rows in the terminal's panes are of its last     *)
(* query and its history is in their order, the results of a check are      *)
(* those of its last run, and the nodes compared are those that were kept.  *)
THEOREM ScreensAreCurrent == BrowserSpec => []AnswersAreCurrent
<1>1. BrowserInv => AnswersAreCurrent
  BY NodesStay DEF BrowserInv, AnswersAreCurrent, AsInv, TermInv, RcInv, RunsInv
<1> QED
  BY <1>1, BrowserInvariance, PTL

(* "Resolved", "no conditions met", "all nodes identical", a setting left   *)
(* out of the differences, "analysis finished" and "analysis failed": each  *)
(* is said only when it is so.                                              *)
THEOREM WhatIsSaidIsTrue == BrowserSpec => []ClaimsAreTrue
<1>1. BrowserInv => ClaimsAreTrue
  BY AllClear, IdenticalIsTrue, DifferencesAreShown, PanelNotifies DEF BrowserInv, ClaimsAreTrue, AsInv, RcInv
<1> QED
  BY <1>1, BrowserInvariance, PTL

(* No list of the dashboard loses an entry: the pages of the query log      *)
(* (Explore.tsx) as far as they came from one of its two sources, each      *)
(* being that source's page, and none was answered after a reload; those of *)
(* the tables (DataTable.tsx), the tables of the database chosen            *)
(* (TableScanner.tsx), the alerts with counters and cursor (Alerts.tsx),    *)
(* the notifications (notify.ts) and, while one page alone writes them,     *)
(* bookmarks and saved views, the widgets of the overview (Overview.tsx).   *)
(* What is triggered by hand from a dry run (RunCheck.tsx) is one row of    *)
(* the alerts table, unless triggers overlap or an answer is lost.  For any *)
(* number of rows, of pages and of requests under way.                      *)
THEOREM ListsLoseNothing == BrowserSpec => []ListsAreWhole
<1>1. BrowserInv => ListsAreWhole
  <2> SUFFICES ASSUME BrowserInv PROVE ListsAreWhole
    OBVIOUS
  <2>1. /\ part = "query log" => QL!NothingSkipped
        /\ part = "table" => DT!PagesShowTheData
        /\ part = "list" => AL!ListAgreesWithCards /\ AL!CursorIsOnARow
        /\ part = "layout" => WL!LayoutIsWhole
    BY NothingIsSkipped, PagesAreRight, ListAgrees, LayoutStays DEF BrowserInv, AlInv
  <2>2. /\ part = "scanner" => TS!ChosenDbIsComplete
        /\ part = "lists" => SL!EntriesLast
        /\ part = "collectors" => RC!TriggersWriteOnce
    BY ChosenDbIsWhole, EntriesStay, WrittenOnce DEF BrowserInv, RcInv
  <2> QED
    BY <2>1, <2>2 DEF ListsAreWhole
<1> QED
  BY <1>1, BrowserInvariance, PTL

(* Every variable of the dashboard's views keeps to its type: no request,   *)
(* answer, cursor, page or entry that the model reads is one that it cannot *)
(* be in, for every part and every value of the constants.                  *)
THEOREM BrowserTypeCorrect == BrowserSpec => []BrowserTypeOK
<1>1. TypeOK /\ BrowserInv => BrowserTypeOK
  <2> SUFFICES ASSUME TypeOK, BrowserInv PROVE BrowserTypeOK
    OBVIOUS
  <2>1. /\ part = "links" => NAV!TypeOK
        /\ part = "chat" => CHAT!TypeOK
        /\ part = "alerts" => AS!TypeOK
        /\ part = "login" => RE!TypeOK
        /\ part = "terminal" => TERM!TypeOK
    BY ChatTyped, ReTyped, TermTyped DEF BrowserInv, NavInv, AsInv
  <2>2. /\ part = "collectors" => RC!TypeOK
        /\ part = "scanner" => TS!TypeOK
        /\ part = "lists" => SL!TypeOK
    BY RcTyped DEF BrowserInv, TsInv, SlInv
  <2>3. /\ part = "tables" => TC!TypeOK
        /\ part = "settings" => SC!TypeOK
        /\ part = "list" => AL!TypeOK
        /\ part = "query log" => QL!TypeOK
        /\ part = "table" => DT!TypeOK
        /\ part = "layout" => WL!TypeOK
    BY TcTyped DEF BrowserInv, ScInv, AlInv, QlInv, QlTypes, WlInv
  <2> QED
    BY <2>1, <2>2, <2>3 DEF BrowserTypeOK
<1>2. IInv => TypeOK
  BY DEF IInv
<1> QED
  BY <1>1, <1>2, BrowserInvariance, LoadersAreThere, LoaderInvariant, PTL
=============================================================================
