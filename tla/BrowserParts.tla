---------------------------- MODULE BrowserParts ----------------------------
(***************************************************************************)
(* The parts of the dashboard whose state is made of what comes in some     *)
(* order: links and history, chat, alerts, login, terminal, the collectors' *)
(* runs, the scanner, what several tabs save.  MCBrowser runs them, and     *)
(* those of BrowserLists.                                                   *)
(***************************************************************************)

CONSTANTS
    Instances,                            \* that links and collectors are about
    Nodes,                                \* of the terminal and of the scanner
    Views, Ranges, DefaultRange, Tabs, MaxBack, MaxEntries,
    Pages, Askers, MaxQuestions, MaxSessions, MaxEvents,
    Alerts, MaxResolves,
    MaxChecks, MaxOpened, MaxPastes,
    MaxExecutions, HistoryLimit,
    Collectors, Reporting, MaxRuns, MaxTriggers,
    Databases, Tables, MaxLoads,          \* of the scanner
    SavedNames, Cap, MaxSaved             \* of the saved lists

VARIABLES
    (* Navigation *)
    view, instance, range, tab, back, entries, at, unrecorded, popped,
    (* ChatSessions *)
    sessions, storage, events, active, running, current, stream, abandoned, synced,
    (* AlertScreen *)
    server, asActive, asHistory, load, ops, begun, busy, resolvingRef, skipped, settled,
    asOvertaken, told,
    (* Reauthentication *)
    authExpired, refreshing, showReAuth, refreshes, checks, opened, pasteState, pastes, state,
    loginUrl, errorLine, login, timers, dismissed,
    (* Terminal *)
    inst, splitInstances, termSelectedInstance, terminalInstance, nodeResults, termRunning,
    controller, termRequests, succeeded, executions, queryHistory,
    (* RunCheck *)
    collectorMetas, instanceList, initError, tabs, rcRequests, runs, condition, triggeringKey,
    triggeredKeys, triggers, pressed, rcRows, written, rcCrossed,
    (* TableScanner *)
    tsInstance, selectedInstance, includeSystem, selectedDb, rowFilter, result, loads,
    tsLoading, tsError, sent, tsApplied, tsOvertaken, between,
    (* SavedLists *)
    list, stored, copies, made, aged, flashes, names, removed, writers

navVars ==
    <<view, instance, range, tab, back, entries, at, unrecorded, popped>>
chatVars ==
    <<sessions, storage, events, active, running, current, stream, abandoned, synced>>
asVars ==
    <<server, asActive, asHistory, load, ops, begun, busy, resolvingRef, skipped, settled,
      asOvertaken, told>>
reVars ==
    <<authExpired, refreshing, showReAuth, refreshes, checks, opened, pasteState, pastes,
      state, loginUrl, errorLine, login, timers, dismissed>>
termVars ==
    <<inst, splitInstances, termSelectedInstance, terminalInstance, nodeResults, termRunning,
      controller, termRequests, succeeded, executions, queryHistory>>
rcVars ==
    <<collectorMetas, instanceList, initError, tabs, rcRequests, runs, condition,
      triggeringKey, triggeredKeys, triggers, pressed, rcRows, written, rcCrossed>>
tsVars ==
    <<tsInstance, selectedInstance, includeSystem, selectedDb, rowFilter, result, loads,
      tsLoading, tsError, sent, tsApplied, tsOvertaken, between>>
slVars ==
    <<list, stored, copies, made, aged, flashes, names, removed, writers>>

NAV == INSTANCE Navigation
CHAT == INSTANCE ChatSessions
AS == INSTANCE AlertScreen WITH
    active <- asActive, history <- asHistory, overtaken <- asOvertaken
RE == INSTANCE Reauthentication
TERM == INSTANCE Terminal WITH
    Instances <- Nodes, selectedInstance <- termSelectedInstance, running <- termRunning,
    requests <- termRequests
RC == INSTANCE RunCheck WITH requests <- rcRequests, rows <- rcRows, crossed <- rcCrossed
TS == INSTANCE TableScanner WITH
    Instances <- Nodes, instance <- tsInstance, loading <- tsLoading, error <- tsError,
    applied <- tsApplied, overtaken <- tsOvertaken
SL == INSTANCE SavedLists WITH Names <- SavedNames, MaxEntries <- MaxSaved

ASSUME PartsFit ==
    /\ NAV!ConstantsOK /\ CHAT!ConstantsOK /\ AS!ConstantsOK /\ RE!ConstantsOK
    /\ TERM!ConstantsOK /\ RC!ConstantsOK /\ TS!ConstantsOK /\ SL!ConstantsOK

=============================================================================
