--------------------------- MODULE MCServerParts ----------------------------
(***************************************************************************)
(* What the server keeps: the alerts table, the stores of the operators'    *)
(* decisions, and the schedules, thresholds, maintenance windows,           *)
(* acknowledgments and snoozes with the views that change them.  They share *)
(* no state, so one of them runs in a behaviour, `part`; AlertTable rests   *)
(* in its initial state otherwise.                                          *)
(***************************************************************************)
EXTENDS AlertTable

CONSTANTS
    Kinds, Entries, Savers, Inodes,   \* of the stores
    ScheduleIds,
    Pages, Critical, Default,         \* of the thresholds
    MaxSaves, MaxRestarts,            \* bounds of theirs
    MaxWindows, MaxTime,              \* bounds of the maintenance windows
    Keys, MaxEntries,                 \* of the alert panel
    MaxRequests                       \* bound: requests of a view

VARIABLES
    part,
    (* PersistentStore *)
    kind, mem, late, dir, content, pc, snap, fd, durable, failed,
    (* Schedules *)
    entries, elapsed, due, run, schedules, requests, asked, schedLoading, stale, srOutdated,
    (* ThresholdSettings *)
    thresholds, override, collectors, pages, posts, saves, restarts, overlapped, author, unsure,
    (* MaintenanceView *)
    now, ends, windows, created, mvRequests, mvAsked, loading, refreshing, submitting,
    extending, confirmDeleteId, told, mvOutdated,
    (* AlertPanel *)
    apKind, store, made, alert, found, applied, reloads, changes, apAsked, apOutdated

psVars ==
    <<kind, mem, late, dir, content, pc, snap, fd, durable, failed>>
srVars ==
    <<entries, elapsed, due, run, schedules, requests, asked, schedLoading, stale, srOutdated>>
thVars ==
    <<thresholds, override, collectors, pages, posts, saves, restarts, overlapped, author, unsure>>
mvVars ==
    <<now, ends, windows, created, mvRequests, mvAsked, loading, refreshing, submitting,
      extending, confirmDeleteId, told, mvOutdated>>
apVars ==
    <<apKind, store, made, alert, found, applied, reloads, changes, apAsked, apOutdated>>

-----------------------------------------------------------------------------
(* Writers race, crash and fail; or an alert is written by hand among them; *)
(* or merges run among the main ones.                                       *)
RacesAndMerges ==
    {Events \ {"merge", "stats", "trigger"}, {"trigger", "ui", "write", "restart", "read"},
     {"merge", "trigger"}, {"merge", "ui"}, {"merge", "stats", "read"}}

PS == INSTANCE PersistentStore WITH Writers <- Savers, DiskFails <- TRUE
SR == INSTANCE Schedules WITH Ids <- ScheduleIds, outdated <- srOutdated
TH == INSTANCE ThresholdSettings
MV == INSTANCE MaintenanceView WITH
    requests <- mvRequests, asked <- mvAsked, outdated <- mvOutdated
AP == INSTANCE AlertPanel WITH kind <- apKind, asked <- apAsked, outdated <- apOutdated

ASSUME ConstantsFit ==
    /\ PS!ConstantsOK /\ SR!ConstantsOK /\ TH!ConstantsOK /\ MV!ConstantsOK /\ AP!ConstantsOK

-----------------------------------------------------------------------------
Parts ==
    {"table", "stores", "schedules", "thresholds", "windows", "panel"}

(* The value of a variable whose module does not run.                        *)
Off == 0

ServerInit ==
    /\ part \in Parts
    /\ Init
    /\ part # "table" => environment = {"merge", "ui"}
    /\ IF part = "stores" THEN PS!Init ELSE
          /\ kind = Off /\ mem = Off /\ late = Off /\ dir = Off /\ content = Off /\ pc = Off
          /\ snap = Off /\ fd = Off /\ durable = Off /\ failed = Off
    /\ IF part = "schedules" THEN SR!Init ELSE
          /\ entries = Off /\ elapsed = Off /\ due = Off /\ run = Off /\ schedules = Off
          /\ requests = Off /\ asked = Off /\ schedLoading = Off /\ stale = Off
          /\ srOutdated = Off
    /\ IF part = "thresholds" THEN TH!Init ELSE
          /\ thresholds = Off /\ override = Off /\ collectors = Off /\ pages = Off
          /\ posts = Off /\ saves = Off /\ restarts = Off /\ overlapped = Off /\ author = Off
          /\ unsure = Off
    /\ IF part = "windows" THEN MV!Init ELSE
          /\ now = Off /\ ends = Off /\ windows = Off /\ created = Off /\ mvRequests = Off
          /\ mvAsked = Off /\ loading = Off /\ refreshing = Off /\ submitting = Off
          /\ extending = Off /\ confirmDeleteId = Off /\ told = Off /\ mvOutdated = Off
    /\ IF part = "panel" THEN AP!Init ELSE
          /\ apKind = Off /\ store = Off /\ made = Off /\ alert = Off /\ found = Off
          /\ applied = Off /\ reloads = Off /\ changes = Off /\ apAsked = Off
          /\ apOutdated = Off

Resting ==
    /\ UNCHANGED part
    /\ IF part = "table" THEN TRUE ELSE UNCHANGED vars
    /\ IF part = "stores" THEN TRUE ELSE UNCHANGED psVars
    /\ IF part = "schedules" THEN TRUE ELSE UNCHANGED srVars
    /\ IF part = "thresholds" THEN TRUE ELSE UNCHANGED thVars
    /\ IF part = "windows" THEN TRUE ELSE UNCHANGED mvVars
    /\ IF part = "panel" THEN TRUE ELSE UNCHANGED apVars

ServerNext ==
    \/ part = "table" /\ Next /\ Resting
    \/ part = "stores" /\ PS!Next /\ Resting
    \/ part = "schedules" /\ SR!Next /\ Resting
    \/ part = "thresholds" /\ TH!Next /\ Resting
    \/ part = "windows" /\ MV!Next /\ Resting
    \/ part = "panel" /\ AP!Next /\ Resting

serverVars ==
    <<part, vars, psVars, srVars, thVars, mvVars, apVars>>

ServerSpec == ServerInit /\ [][ServerNext]_serverVars

-----------------------------------------------------------------------------
(* Properties.  Each part has its state space to itself.                    *)

ServerTypeOK ==
    /\ TypeOK
    /\ part = "stores" => PS!TypeOK
    /\ part = "schedules" => SR!TypeOK
    /\ part = "thresholds" => TH!TypeOK
    /\ part = "windows" => MV!TypeOK
    /\ part = "panel" => AP!TypeOK

(* The file of each store, and the override file of the thresholds, hold    *)
(* what is in memory when no save is under way.                             *)
FilesMatchMemory ==
    /\ part = "stores" => PS!FileMatchesMemory
    /\ part = "thresholds" => TH!FileFollowsCopy

(* What the views show once their requests are answered is what the server  *)
(* has: schedules, windows, acknowledgments and snoozes in its stores, and   *)
(* thresholds in its configuration, which the poll loop does not read again.*)
ViewsShowTheServer ==
    /\ part = "schedules" => SR!ListShowsTheStore
    /\ part = "thresholds" => TH!ShownIsConfigured
    /\ part = "windows" => MV!ListIsInForce
    /\ part = "panel" => AP!PanelShowsTheStore

(* No button of these views is disabled without a request that ends it.     *)
ButtonsReturn ==
    /\ part = "schedules" => SR!AddButtonReturns
    /\ part = "thresholds" => TH!EditorIsFreed
    /\ part = "windows" => MV!ViewIsFreed

(* A restart brings back the entries of the last save that succeeded.       *)
RestartLosesNoSave == [][part = "stores" => PS!KeepsLastSave]_psVars

(* A schedule is run only when it is due, and not while it is running.      *)
RunsAreDue == [][part = "schedules" => SR!StartsAreDue]_srVars

=============================================================================
