---------------------------- MODULE LoaderCatalog ----------------------------
(***************************************************************************)
(* The loaders of the dashboard's views, one record of ViewLoaders' type    *)
(* for each: what makes it ask, what it asks for, what it does to an answer *)
(* that is late, and what one sees while it loads and after a failure.  A   *)
(* selected node, table, alert or metric counts as a "filter".              *)
(***************************************************************************)

(* ---- the tabs of Explore ------------------------------------------------*)

(* The form most tabs share: a `c` flag, a skeleton instead of data while   *)
(* loading, the error instead of data after a failure.                      *)
UsersTab ==
    [ deps |-> {"instance", "range", "refresh"}, uses |-> {"instance", "range"},
      blanks |-> {}, start |-> "effect", cleanup |-> TRUE, poll |-> "none",
      failure |-> "keep", clears |-> TRUE, spinner |-> TRUE, banner |-> TRUE ]

TablesTab == UsersTab
FailuresTab == UsersTab
MergesTab == UsersTab
MVTab == UsersTab
S3Tab == UsersTab
InsertsTab == UsersTab
SystemMetricsTab == UsersTab
DiskIOTab == UsersTab

(* No `c` flag.                                                             *)
PartsAgeTab ==
    [UsersTab EXCEPT !.deps = {"instance", "refresh"}, !.uses = {"instance"}, !.cleanup = FALSE]

(* The error is shown only while there are no patterns yet.                 *)
QueryPatternsTab ==
    [UsersTab EXCEPT !.deps = @ \cup {"filter"}, !.uses = @ \cup {"filter"}, !.banner = FALSE]

(* The panels below the patterns: no error, an empty list instead.          *)
PatternTimeline ==
    [UsersTab EXCEPT !.deps = {"instance", "range", "filter"}, !.uses = {"instance", "range", "filter"},
                     !.failure = "empty", !.banner = FALSE]
PatternFailTimeline == [PatternTimeline EXCEPT !.spinner = FALSE]
PatternFailures == PatternTimeline

SamplesTab == [UsersTab EXCEPT !.deps = @ \cup {"filter"}, !.uses = @ \cup {"filter"}]
SamplesFailTimeline == PatternFailTimeline

(* Every five seconds, the loading flag and the error only before there is  *)
(* anything to show; no cleanup but that of the interval.                   *)
ConnectionsTab ==
    [ deps |-> {"instance"}, uses |-> {"instance"}, blanks |-> {}, start |-> "effect",
      cleanup |-> FALSE, poll |-> "silent", failure |-> "keep", clears |-> FALSE,
      spinner |-> FALSE, banner |-> FALSE ]
ConnectionsHistory == [UsersTab EXCEPT !.failure = "empty", !.spinner = FALSE, !.banner = FALSE]
ClientHistory == ConnectionsHistory
ConnectionSessions == ConnectionsHistory

LiveTab == [ConnectionsTab EXCEPT !.spinner = TRUE, !.banner = TRUE]

(* Its two halves ask, load and fail alike; the button can be pressed again *)
(* at any time, and the findings of another instance stay.                  *)
AntiPatternsTab ==
    [PartsAgeTab EXCEPT !.deps = {"refresh"}, !.start = "button"]

(* ---- Overview -----------------------------------------------------------*)

(* A widget turns its icon and hides its data while loading; a failure is   *)
(* an empty list.                                                           *)
ActiveAlertsWidget ==
    [ deps |-> {"refresh"}, uses |-> {}, blanks |-> {}, start |-> "effect",
      cleanup |-> FALSE, poll |-> "none", failure |-> "empty", clears |-> TRUE,
      spinner |-> TRUE, banner |-> FALSE ]
HealthScoresWidget == ActiveAlertsWidget
ErrorRateWidget == ActiveAlertsWidget
SlowQueriesWidget ==
    [ActiveAlertsWidget EXCEPT !.deps = {"instance", "range", "refresh"}, !.uses = {"instance", "range"}]

(* "instance" is the list of instances here; each instance's failure is     *)
(* caught and its row left empty.                                           *)
SLOOverviewWidget ==
    [ActiveAlertsWidget EXCEPT !.deps = {"instance", "refresh"}, !.uses = {"instance"}]
UptimeWidget == SLOOverviewWidget
LiveQueriesWidget == [SLOOverviewWidget EXCEPT !.cleanup = TRUE, !.poll = "loud"]

AlertActivityStrip ==
    [ActiveAlertsWidget EXCEPT !.deps = {}, !.failure = "keep", !.spinner = FALSE]

(* doLoad returns its cleanup only once it has finished: it cancels         *)
(* nothing.  The error is never cleared, and seen only without instances.   *)
OverviewLoad ==
    [ActiveAlertsWidget EXCEPT !.failure = "keep", !.clears = FALSE]

(* ---- Detail, and the components on several views ------------------------*)

(* Another instance drops everything first; each request's failure is an    *)
(* empty list.                                                              *)
DetailLoad ==
    [ deps |-> {"instance", "refresh"}, uses |-> {"instance"}, blanks |-> {"instance"},
      start |-> "effect", cleanup |-> TRUE, poll |-> "none", failure |-> "empty",
      clears |-> TRUE, spinner |-> TRUE, banner |-> FALSE ]
DetailHistory ==
    [DetailLoad EXCEPT !.deps = {"instance", "range"}, !.uses = {"instance", "range"}]
DetailSLO ==
    [DetailLoad EXCEPT !.deps = {"instance", "filter"}, !.uses = {"instance", "filter"},
                       !.cleanup = FALSE, !.spinner = FALSE]

MetricChart ==
    [PatternTimeline EXCEPT !.deps = {"instance", "range", "filter"}]
HealthChecklist == [DetailLoad EXCEPT !.blanks = {}]
CompatibilityChip ==
    [DetailLoad EXCEPT !.deps = {"instance"}, !.failure = "keep", !.spinner = FALSE]
TableDetail ==
    [UsersTab EXCEPT !.deps = {"instance", "filter"}, !.uses = {"instance", "filter"}]

(* The card of an instance: sparklines, trend, and the running queries      *)
(* while they are unfolded.                                                 *)
NodeSparklines ==
    [CompatibilityChip EXCEPT !.blanks = {}]
NodeHealthTrend == [NodeSparklines EXCEPT !.cleanup = FALSE]
NodeLiveQueries ==
    [LiveQueriesWidget EXCEPT !.deps = {"instance", "filter"}]

SidebarInstances ==
    [ActiveAlertsWidget EXCEPT !.deps = {}, !.poll = "silent", !.spinner = FALSE]

(* ---- Compare ------------------------------------------------------------*)

TableDiffLeft ==
    [ActiveAlertsWidget EXCEPT !.deps = {"filter"}, !.uses = {"filter"}]
TableDiffRight == TableDiffLeft

(* Asked again with every time range, which the request does not mention.   *)
MetricsView ==
    [PartsAgeTab EXCEPT !.deps = {"range"}, !.uses = {}]
CompareTables == MetricsView
CompareSettings == MetricsView

MemoryView ==
    [PartsAgeTab EXCEPT !.deps = {"instance"}, !.failure = "empty", !.clears = FALSE]

(* Once failed, the error stays for good.                                   *)
CrossQueryView ==
    [UsersTab EXCEPT !.deps = {"range"}, !.uses = {"range"}, !.clears = FALSE]
TimelineView ==
    [UsersTab EXCEPT !.deps = {"range", "filter"}, !.uses = {"range", "filter"}]
CompareQueryStats ==
    [AntiPatternsTab EXCEPT !.uses = {}, !.start = "latch"]

(* ---- the other views ----------------------------------------------------*)

AlertHistory ==
    [ deps |-> {"instance", "range", "refresh"}, uses |-> {"instance", "range"},
      blanks |-> {}, start |-> "effect", cleanup |-> FALSE, poll |-> "none",
      failure |-> "empty", clears |-> TRUE, spinner |-> TRUE, banner |-> TRUE ]
NotifyStatusBanner == AlertActivityStrip
AuditLog ==
    [AlertHistory EXCEPT !.deps = @ \cup {"filter"}, !.uses = @ \cup {"filter"}]
CHLogs == AuditLog
AppLogs == [AlertHistory EXCEPT !.deps = {"refresh"}, !.uses = {}]

InstanceCostDetail == [PartsAgeTab EXCEPT !.deps = {"instance"}]
CostOverviewPanel == [AlertActivityStrip EXCEPT !.spinner = TRUE]

(* Every section is emptied and asked for by the button; another instance   *)
(* leaves the findings of the one before.                                   *)
AdvisorSection ==
    [AntiPatternsTab EXCEPT !.blanks = {"refresh"}, !.failure = "empty"]
AdvisorCardinality == AdvisorSection
RunCheckAdvisor == [AdvisorSection EXCEPT !.start = "latch", !.failure = "keep"]

TerminalSchema ==
    [ActiveAlertsWidget EXCEPT !.deps = {"instance"}, !.uses = {"instance"}, !.cleanup = TRUE,
                               !.spinner = FALSE]

TablePartitions ==
    [PartsAgeTab EXCEPT !.deps = {"instance", "filter", "refresh"}, !.uses = {"instance", "filter"}]
AlertAnomaly ==
    [NodeHealthTrend EXCEPT !.deps = {"instance", "filter"}, !.uses = {"instance", "filter"},
                            !.blanks = {}]
SnoozesAndAcks ==
    [ActiveAlertsWidget EXCEPT !.failure = "keep", !.spinner = FALSE]
SnoozesAndAcksPoll == [SnoozesAndAcks EXCEPT !.deps = {}, !.poll = "silent"]

-----------------------------------------------------------------------------
AllLoaders ==
    { UsersTab, TablesTab, FailuresTab, MergesTab, MVTab, S3Tab, InsertsTab,
      SystemMetricsTab, DiskIOTab, PartsAgeTab, QueryPatternsTab, PatternTimeline,
      PatternFailTimeline, PatternFailures, SamplesTab, SamplesFailTimeline,
      ConnectionsTab, ConnectionsHistory, ClientHistory, ConnectionSessions, LiveTab,
      AntiPatternsTab, ActiveAlertsWidget, HealthScoresWidget, ErrorRateWidget,
      SlowQueriesWidget, SLOOverviewWidget, UptimeWidget, LiveQueriesWidget,
      AlertActivityStrip, OverviewLoad, DetailLoad, DetailHistory, DetailSLO,
      MetricChart, HealthChecklist, CompatibilityChip, TableDetail, NodeSparklines,
      NodeHealthTrend, NodeLiveQueries, SidebarInstances, TableDiffLeft, TableDiffRight,
      MetricsView, CompareTables, CompareSettings, MemoryView, CrossQueryView,
      TimelineView, CompareQueryStats, AlertHistory, NotifyStatusBanner, AuditLog,
      CHLogs, AppLogs, InstanceCostDetail, CostOverviewPanel, AdvisorSection,
      AdvisorCardinality, RunCheckAdvisor, TerminalSchema, TablePartitions, AlertAnomaly, SnoozesAndAcks,
      SnoozesAndAcksPoll }
=============================================================================
