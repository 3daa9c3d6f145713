----------------------------- MODULE MCBrowser ------------------------------
(***************************************************************************)
(* The dashboard in the browser: the modules that model its views, side by  *)
(* side.  They share no state, so one of them runs in a behaviour, `part`;  *)
(* ViewLoaders rests in its initial state otherwise.                        *)
(***************************************************************************)
EXTENDS ViewLoaders, LoaderCatalog, BrowserParts, BrowserLists, Integers

VARIABLE part

-----------------------------------------------------------------------------
(* Firing, resolved and stale alerts of two instances, recent ones and old  *)
(* ones, some of which the search finds.                                    *)
SomeAlerts ==
    LET alert(n, i, status_, recent, match) ==
            [id |-> n, instance |-> i, category |-> "c", status |-> status_,
             inRange |-> recent, hit |-> match]
    IN {alert(1, "i1", "firing", TRUE, TRUE), alert(2, "i2", "resolved", FALSE, TRUE),
         alert(3, "i1", "firing", FALSE, FALSE), alert(4, "i1", "stale", FALSE, FALSE)}

(* In each database an idle table, and an active one with findings.         *)
SomeTables ==
    {[instance |-> p[1], database |-> p[2], active |-> b, issues |-> b] :
        p \in {<<"i1", "d1">>, <<"i1", "d2">>, <<"i2", "d2">>}, b \in BOOLEAN}

(* No value (DataTable's Null), and two numbers.                            *)
SomeCells == {-1, 1, 2}

(* Copies that differ in the rows by more than a percent, in the key, in    *)
(* the columns, or in how much of them is on S3.                            *)
SomeCopies ==
    {[rows |-> c[1], partition |-> "p", sorting |-> c[2], columns |-> c[3], s3 |-> c[4]] :
        c \in {<<100, "s1", "c1", 0>>, <<102, "s1", "c1", 0>>, <<100, "s2", "c1", 0>>,
               <<100, "s1", "c2", 0>>, <<100, "s1", "c1", 80>>}}

(* The widgets of the overview, oldest first.                               *)
SomeWidgets == <<"health", "alerts", "disk", "errors">>

-----------------------------------------------------------------------------
Parts ==
    {"loaders", "links", "chat", "alerts", "list", "query log", "scanner", "login", "table",
     "terminal", "collectors", "lists", "tables", "settings", "layout"}

(* The value of a variable whose module does not run.                        *)
Off == 0

BrowserInit ==
    /\ part \in Parts
    /\ Init
    /\ part # "loaders" => /\ loader = CHOOSE l \in Loaders : TRUE
                           /\ selection = CHOOSE s \in Selections : TRUE
    /\ IF part = "links" THEN NAV!Init ELSE
          /\ view = Off /\ instance = Off /\ range = Off /\ tab = Off /\ back = Off
          /\ entries = Off /\ at = Off /\ unrecorded = Off /\ popped = Off
    /\ IF part = "chat" THEN CHAT!Init ELSE
          /\ sessions = Off /\ storage = Off /\ events = Off /\ active = Off /\ running = Off
          /\ current = Off /\ stream = Off /\ abandoned = Off /\ synced = Off
    /\ IF part = "alerts" THEN AS!Init ELSE
          /\ server = Off /\ asActive = Off /\ asHistory = Off /\ load = Off /\ ops = Off
          /\ begun = Off /\ busy = Off /\ resolvingRef = Off /\ skipped = Off /\ settled = Off
          /\ asOvertaken = Off /\ told = Off
    /\ IF part = "list" THEN AL!Init ELSE
          /\ allAlerts = Off /\ filters = Off /\ search = Off /\ alRange = Off
          /\ viewMode = Off /\ cursorIdx = Off /\ flatPage = Off
    /\ IF part = "query log" THEN QL!Init ELSE
          /\ log = Off /\ copied = Off /\ retained = Off /\ status = Off /\ firstPage = Off
          /\ pagesBelow = Off /\ length = Off /\ reload = Off /\ more = Off /\ qlLoading = Off
          /\ loadingMore = Off /\ exhausted = Off /\ error = Off /\ reloads = Off
          /\ crossed = Off /\ pagesOf = Off
    /\ IF part = "scanner" THEN TS!Init ELSE
          /\ tsInstance = Off /\ selectedInstance = Off /\ includeSystem = Off
          /\ selectedDb = Off /\ rowFilter = Off /\ result = Off /\ loads = Off
          /\ tsLoading = Off /\ tsError = Off /\ sent = Off /\ tsApplied = Off
          /\ tsOvertaken = Off /\ between = Off
    /\ IF part = "login" THEN RE!Init ELSE
          /\ authExpired = Off /\ refreshing = Off /\ showReAuth = Off /\ refreshes = Off
          /\ checks = Off /\ opened = Off /\ pasteState = Off /\ pastes = Off /\ state = Off
          /\ loginUrl = Off /\ errorLine = Off /\ login = Off /\ timers = Off
          /\ dismissed = Off
    /\ IF part = "table" THEN DT!Init ELSE
          /\ source = Off /\ sortKey = Off /\ sortAsc = Off /\ storedSort = Off /\ page = Off
          /\ focusedRow = Off
    /\ IF part = "terminal" THEN TERM!Init ELSE
          /\ inst = Off /\ splitInstances = Off /\ termSelectedInstance = Off
          /\ terminalInstance = Off /\ nodeResults = Off /\ termRunning = Off
          /\ controller = Off /\ termRequests = Off /\ succeeded = Off /\ executions = Off
          /\ queryHistory = Off
    /\ IF part = "collectors" THEN RC!Init ELSE
          /\ collectorMetas = Off /\ instanceList = Off /\ initError = Off /\ tabs = Off
          /\ rcRequests = Off /\ runs = Off /\ condition = Off /\ triggeringKey = Off
          /\ triggeredKeys = Off /\ triggers = Off /\ pressed = Off /\ rcRows = Off
          /\ written = Off /\ rcCrossed = Off
    /\ IF part = "lists" THEN SL!Init ELSE
          /\ list = Off /\ stored = Off /\ copies = Off /\ made = Off /\ aged = Off
          /\ flashes = Off /\ names = Off /\ removed = Off /\ writers = Off
    /\ IF part = "tables" THEN TC!Init ELSE
          /\ held = Off /\ unread = Off /\ loaded = Off /\ selected = Off /\ tcStored = Off
          /\ tcSearch = Off
    /\ IF part = "settings" THEN SC!Init ELSE
          /\ set = Off /\ scUnread = Off /\ scLoaded = Off /\ baseline = Off /\ diffsOnly = Off
    /\ IF part = "layout" THEN WL!Init ELSE
          /\ build = Off /\ widgets = Off /\ wlStored = Off

Resting ==
    /\ UNCHANGED part
    /\ IF part = "loaders" THEN TRUE ELSE UNCHANGED vars
    /\ IF part = "links" THEN TRUE ELSE UNCHANGED navVars
    /\ IF part = "chat" THEN TRUE ELSE UNCHANGED chatVars
    /\ IF part = "alerts" THEN TRUE ELSE UNCHANGED asVars
    /\ IF part = "list" THEN TRUE ELSE UNCHANGED alVars
    /\ IF part = "query log" THEN TRUE ELSE UNCHANGED qlVars
    /\ IF part = "scanner" THEN TRUE ELSE UNCHANGED tsVars
    /\ IF part = "login" THEN TRUE ELSE UNCHANGED reVars
    /\ IF part = "table" THEN TRUE ELSE UNCHANGED dtVars
    /\ IF part = "terminal" THEN TRUE ELSE UNCHANGED termVars
    /\ IF part = "collectors" THEN TRUE ELSE UNCHANGED rcVars
    /\ IF part = "lists" THEN TRUE ELSE UNCHANGED slVars
    /\ IF part = "tables" THEN TRUE ELSE UNCHANGED tcVars
    /\ IF part = "settings" THEN TRUE ELSE UNCHANGED scVars
    /\ IF part = "layout" THEN TRUE ELSE UNCHANGED wlVars

BrowserNext ==
    \/ part = "loaders" /\ Next /\ Resting
    \/ part = "links" /\ NAV!Next /\ Resting
    \/ part = "chat" /\ CHAT!Next /\ Resting
    \/ part = "alerts" /\ AS!Next /\ Resting
    \/ part = "list" /\ AL!Next /\ Resting
    \/ part = "query log" /\ QL!Next /\ Resting
    \/ part = "scanner" /\ TS!Next /\ Resting
    \/ part = "login" /\ RE!Next /\ Resting
    \/ part = "table" /\ DT!Next /\ Resting
    \/ part = "terminal" /\ TERM!Next /\ Resting
    \/ part = "collectors" /\ RC!Next /\ Resting
    \/ part = "lists" /\ SL!Next /\ Resting
    \/ part = "tables" /\ TC!Next /\ Resting
    \/ part = "settings" /\ SC!Next /\ Resting
    \/ part = "layout" /\ WL!Next /\ Resting

browserVars ==
    <<part, vars, navVars, chatVars, asVars, alVars, qlVars, tsVars, reVars, dtVars, termVars,
      rcVars, slVars, tcVars, scVars, wlVars>>

BrowserSpec == BrowserInit /\ [][BrowserNext]_browserVars

-----------------------------------------------------------------------------
(* Properties.  Each part has its state space to itself.                    *)

BrowserTypeOK ==
    /\ TypeOK
    /\ part = "links" => NAV!TypeOK
    /\ part = "chat" => CHAT!TypeOK
    /\ part = "alerts" => AS!TypeOK
    /\ part = "list" => AL!TypeOK
    /\ part = "query log" => QL!TypeOK
    /\ part = "scanner" => TS!TypeOK
    /\ part = "login" => RE!TypeOK
    /\ part = "table" => DT!TypeOK
    /\ part = "terminal" => TERM!TypeOK
    /\ part = "collectors" => RC!TypeOK
    /\ part = "lists" => SL!TypeOK
    /\ part = "tables" => TC!TypeOK
    /\ part = "settings" => SC!TypeOK
    /\ part = "layout" => WL!TypeOK

(* Nothing turns, is disabled or is kept waiting without something under    *)
(* way that will end it: the spinners of the views and of the alerts, the   *)
(* lock button and the modal of an expired session, the input field of the  *)
(* chat and the messages it shows as being answered, the terminal's panes,  *)
(* the buttons that run collectors.                                         *)
NothingHangs ==
    /\ SpinnerEnds
    /\ part = "alerts" => AS!RefreshingEnds
    /\ part = "login" => RE!LockButtonReturns /\ RE!ExpiryIsHandled
    /\ part = "chat" => CHAT!InputIsFreed /\ CHAT!SpinningIsAnswered
    /\ part = "terminal" => TERM!RunningEnds
    /\ part = "collectors" => RC!ButtonsReturn

(* What is on the screen is the outcome of what was asked last, also when   *)
(* answers come late: a resolved alert does not fire again, rows are of the *)
(* last query, results of the last run, nodes those that were selected.     *)
AnswersAreCurrent ==
    /\ part = "alerts" => AS!ResolvedStaysOff
    /\ part = "terminal" => TERM!RowsAreOfLastQuery /\ TERM!HistoryIsOrdered
    /\ part = "collectors" => RC!ResultsAreOfLastRun
    /\ part = "tables" => TC!NodesAreKept

(* What the dashboard says in so many words is so: resolved, no conditions  *)
(* met, all nodes identical, finished or failed.                            *)
ClaimsAreTrue ==
    /\ part = "alerts" => AS!ToldIsDone
    /\ part = "collectors" => RC!AllClearIsTrue
    /\ part = "tables" => TC!AllIdenticalIsTrue
    /\ part = "settings" => SC!ChangedDifferencesAreShown
    /\ part = "chat" => CHAT!PanelNotifiesTheOutcome

(* No list loses an entry: pages of the query log that came from one of its *)
(* two sources and of tables, the tables of a database, the alerts with     *)
(* their counters, groups and cursor, what is saved in the browser, the     *)
(* widgets of the overview; tables and widgets                              *)
(* double none either, and an alert triggered by hand from a dry run is one *)
(* row of the table.  Each as far as its module says.                       *)
ListsAreWhole ==
    /\ part = "query log" => QL!NothingSkipped
    /\ part = "scanner" => TS!ChosenDbIsComplete
    /\ part = "table" => DT!PagesShowTheData
    /\ part = "list" => AL!ListAgreesWithCards /\ AL!CursorIsOnARow
    /\ part = "lists" => SL!EntriesLast
    /\ part = "layout" => WL!LayoutIsWhole
    /\ part = "collectors" => RC!TriggersWriteOnce

(* A link shows what the screen shows, and the back button leads away.      *)
NavigationHolds == part = "links" => NAV!LinkOpensThis /\ NAV!BackLeadsAway

=============================================================================
