----------------------------- MODULE Navigation -----------------------------
(***************************************************************************)
(* Where the user is in the dashboard: the view, the instance and the time  *)
(* range in the store (hooks/useStore.tsx), the tab of Explore, the page's  *)
(* URL with the browser's session history, and the store's own stack for    *)
(* the sidebar's back button.  Some handlers write the URL of the current   *)
(* history entry (replaceState), some add an entry (pushState), and the     *)
(* browser's back and forward buttons hand an entry's URL back (popstate).  *)
(***************************************************************************)
EXTENDS Integers, Sequences

CONSTANTS
    Views,        \* the views under study
    Instances,
    Ranges,       \* time windows one can select
    DefaultRange, \* the last hour, used when the URL has no window
    Tabs,         \* the tabs of Explore under study
    MaxBack,      \* viewHistory keeps so many views (20 in the code)
    MaxEntries    \* the browser keeps so many entries of its history

None == "none"

VALID_VIEWS ==
    { "overview", "detail", "alerts", "history", "explore", "compare", "advisor", "terminal",
      "logs", "chlogs", "analyzer", "scanner", "cost", "maintenance", "runcheck", "audit",
      "thresholds", "guide" }

(* Explore's tabs; those a URL may name lack two of them.                   *)
TABS ==
    { "antipatterns", "patterns", "samples", "querylog", "live", "connections", "users",
      "tables", "failures", "merges", "partsage", "mvs", "s3", "inserts", "metrics", "diskio" }
ValidTabs == TABS \ {"querylog", "connections"}

ConstantsOK ==
    /\ Views \subseteq VALID_VIEWS /\ {"overview", "detail", "explore", "scanner"} \subseteq Views
    /\ Tabs \subseteq TABS /\ "patterns" \in Tabs
    /\ DefaultRange \in Ranges /\ None \notin Ranges
    /\ MaxBack \in Nat \ {0} /\ MaxEntries \in Nat \ {0}

VARIABLES
    view, instance, range,  \* of the store; no instance is None
    tab,                    \* Explore's own state, None while it is not mounted
    back,                   \* viewHistory
    entries, at,            \* the browser's history: URLs, and the current one
    unrecorded,             \* history: what the last change of did not go to the URL
    popped                  \* history: the browser has moved among its entries

store == <<view, instance, range>>
browser == <<entries, at>>
vars == <<store, tab, back, browser, unrecorded, popped>>

Fields == {"view", "instance", "range", "tab"}

(* The query parameters; None for one that is absent.                       *)
URL ==
    [ view     : Views \cup {None, "dashboard"},  \* the name of a view that was removed
      instance : Instances \cup {None},
      range    : Ranges \cup {None},
      tab      : Tabs \cup {None} ]

TypeOK ==
    /\ view \in Views /\ instance \in Instances \cup {None} /\ range \in Ranges
    /\ tab \in Tabs \cup {None} /\ (tab = None <=> view # "explore")
    /\ back \in Seq(Views) /\ Len(back) <= MaxBack
    /\ entries \in Seq(URL) /\ at \in 1 .. Len(entries)
    /\ unrecorded \subseteq Fields /\ popped \in BOOLEAN

url == entries[at]

resolveView(raw) == IF raw \in VALID_VIEWS THEN raw ELSE "overview"

(* Explore reads its tab when it is mounted.                                *)
ExploreTab(u) == IF u.tab \in ValidTabs THEN u.tab ELSE "patterns"

(* What a page opened with this URL shows.                                  *)
Opened(u) ==
    LET v == resolveView(u.view) IN
    [ view     |-> v,
      instance |-> u.instance,
      range    |-> IF u.range = None THEN DefaultRange ELSE u.range,
      tab      |-> IF v = "explore" THEN ExploreTab(u) ELSE None ]

Shown == [view |-> view, instance |-> instance, range |-> range, tab |-> tab]

Load(u) ==
    /\ view = Opened(u).view /\ instance = Opened(u).instance
    /\ range = Opened(u).range /\ tab = Opened(u).tab

(* A bookmark, a shared link, or the bare address.                          *)
Init ==
    /\ \E u \in URL : entries = <<u>> /\ Load(u)
    /\ at = 1 /\ back = <<>>
    /\ unrecorded = {} /\ popped = FALSE

-----------------------------------------------------------------------------
(* history.pushState drops what lies ahead of the current entry, and the    *)
(* oldest entry when there are too many.                                    *)
Pushed(seq, u) ==
    LET upto == SubSeq(seq, 1, at) IN Append(IF at < MaxEntries THEN upto ELSE Tail(upto), u)

Push(u) ==
    /\ entries' = Pushed(entries, u)
    /\ at' = Len(entries')
    /\ UNCHANGED popped

(* patchURL: history.replaceState.                                          *)
Replace(u) ==
    /\ entries' = [entries EXCEPT ![at] = u]
    /\ UNCHANGED <<at, popped>>

RememberAll(v) ==                                                   \* mutant
    back' = IF v = view THEN back ELSE Append(back, view)

(* [...h.slice(-(MaxBack - 1)), prev], when the view changes.               *)
Remember(v) ==
    back' = IF v = view THEN back
            ELSE Append(IF Len(back) < MaxBack THEN back ELSE Tail(back), view)

(* Another view is unmounted, Explore reads the URL when it comes.          *)
Enter(v, u) ==
    /\ view' = v
    /\ tab' = IF v # "explore" THEN None ELSE IF view = "explore" THEN tab ELSE ExploreTab(u)

(* A tab only makes sense within Explore.                                   *)
ForView(u, v) == [u EXCEPT !.view = v, !.tab = IF v = "explore" THEN @ ELSE None]

(* What a new URL for view v agrees on with the page; an Explore that stays *)
(* does not look at it.                                                     *)
Written(v) == IF v = "explore" /\ view = "explore" THEN {"view"} ELSE {"view", "tab"}

SetView(v) ==
    LET u == ForView(url, v) IN
    /\ Remember(v) /\ Enter(v, u) /\ Push(u)
    /\ unrecorded' = unrecorded \ Written(v)
    /\ UNCHANGED <<instance, range>>

(* The sidebar's back button, shown while there is something to go back to. *)
GoBack ==
    /\ back # <<>>
    /\ LET prev == back[Len(back)]
           u == ForView(url, prev)
       IN /\ Enter(prev, u) /\ Push(u)
          /\ back' = SubSeq(back, 1, Len(back) - 1)
          /\ unrecorded' = unrecorded \ Written(prev)
    /\ UNCHANGED <<instance, range>>

SetSelectedInstance(i) ==
    /\ instance' = i
    /\ Replace([url EXCEPT !.instance = i])
    /\ unrecorded' = unrecorded \ {"instance"}
    /\ UNCHANGED <<view, range, tab, back>>

(* The time picker; a preset writes the timestamps of its window too.       *)
SetRange(r) ==
    /\ range' = r
    /\ Replace([url EXCEPT !.range = r])
    /\ unrecorded' = unrecorded \ {"range"}
    /\ UNCHANGED <<view, instance, tab, back>>

NavToDetail(i) ==
    LET u == [url EXCEPT !.view = "detail", !.instance = i, !.tab = None] IN
    /\ instance' = i
    /\ Remember("detail") /\ Enter("detail", u) /\ Push(u)
    /\ unrecorded' = unrecorded \ {"view", "instance", "tab"}
    /\ UNCHANGED range

(* From an alert, on a view other than Explore.                             *)
NavToExploreWithRange(i, r) ==
    LET u == [view |-> "explore", instance |-> i, range |-> r, tab |-> None] IN
    /\ view # "explore"
    /\ instance' = i /\ range' = r
    /\ Remember("explore") /\ Enter("explore", u) /\ Push(u)
    /\ unrecorded' = {}

(* It leaves the URL as it is.                                              *)
NavToScanner(i) ==
    /\ instance' = i
    /\ Remember("scanner") /\ Enter("scanner", url)
    /\ unrecorded' = unrecorded \cup {"view", "instance", "tab"}
    /\ UNCHANGED <<range, browser, popped>>

SwitchTab(t) ==
    /\ view = "explore"
    /\ tab' = t
    /\ Replace([url EXCEPT !.tab = t])
    /\ unrecorded' = IF t \in ValidTabs THEN unrecorded \ {"tab"} ELSE unrecorded \cup {"tab"}
    /\ UNCHANGED <<store, back>>

(* An instance's card on Overview: it is selected first, in the entry of    *)
(* the view one leaves; and the way back from Detail.                       *)
GoToInstance(i) ==
    LET left == [url EXCEPT !.instance = i]
        u == ForView(left, "detail")
    IN /\ view = "overview"
       /\ instance' = i
       /\ Remember("detail") /\ Enter("detail", u)
       /\ entries' = Pushed([entries EXCEPT ![at] = left], u) /\ at' = Len(entries')
       /\ unrecorded' = unrecorded \ {"view", "instance", "tab"}
       /\ UNCHANGED <<range, popped>>

LeaveDetail ==
    LET u == [ForView(url, "overview") EXCEPT !.instance = None] IN
    /\ view = "detail"
    /\ instance' = None
    /\ Remember("overview") /\ Enter("overview", u) /\ Push(u)
    /\ unrecorded' = unrecorded \ {"view", "instance", "tab"}
    /\ UNCHANGED range

PopKeepingRange(to) ==                                              \* mutant
    LET u == entries[to]
        v == resolveView(u.view)
    IN /\ to \in 1 .. Len(entries)
       /\ at' = to /\ popped' = TRUE
       /\ Enter(v, u)
       /\ instance' = u.instance
       /\ range' = range
       /\ unrecorded' = (IF u.range = None THEN {"range"} ELSE {})
                        \cup (IF v = "explore" /\ view = "explore" THEN {"tab"} ELSE {})
       /\ UNCHANGED <<back, entries>>

(* popstate: a window that the URL does not name stays, and Explore, when   *)
(* it stays, keeps its tab.                                                 *)
Pop(to) ==
    LET u == entries[to]
        v == resolveView(u.view)
    IN /\ to \in 1 .. Len(entries)
       /\ at' = to /\ popped' = TRUE
       /\ Enter(v, u)
       /\ instance' = u.instance
       /\ range' = IF u.range = None THEN range ELSE u.range
       /\ unrecorded' = (IF u.range = None THEN {"range"} ELSE {})
                        \cup (IF v = "explore" /\ view = "explore" THEN {"tab"} ELSE {})
       /\ UNCHANGED <<back, entries>>

BrowserBack == at > 1 /\ Pop(at - 1)
BrowserForward == at < Len(entries) /\ Pop(at + 1)

Reload ==
    /\ view' = Opened(url).view /\ instance' = Opened(url).instance
    /\ range' = Opened(url).range /\ tab' = Opened(url).tab
    /\ back' = <<>> /\ unrecorded' = {} /\ popped' = FALSE
    /\ UNCHANGED browser

Next ==
    \/ \E v \in Views : SetView(v)
    \/ GoBack
    \/ \E i \in Instances \cup {None} : SetSelectedInstance(i)
    \/ \E r \in Ranges : SetRange(r)
    \/ \E i \in Instances : NavToDetail(i) \/ NavToScanner(i) \/ GoToInstance(i)
    \/ \E i \in Instances, r \in Ranges : NavToExploreWithRange(i, r)
    \/ \E t \in Tabs : SwitchTab(t)
    \/ LeaveDetail
    \/ BrowserBack \/ BrowserForward
    \/ Reload

Spec == Init /\ [][Next]_vars

-----------------------------------------------------------------------------
(* A link one copies, and the page reloaded, shows the view, instance,      *)
(* window and tab on the screen, whatever buttons of the page and of the    *)
(* browser led there; except for what the last handler to change it did not *)
(* write to the URL: the view and the instance after navToScanner, the      *)
(* window after the browser went to an entry that has none, the two tabs a  *)
(* URL cannot name, and the tab when Explore was not unmounted.             *)
LinkOpensThis == \A f \in Fields \ unrecorded : Opened(url)[f] = Shown[f]

(* The sidebar's back button leads away from where one is: the stack never  *)
(* has the current view on top, as long as only the page's own buttons were *)
(* used (the browser's move past the stack).                                *)
BackLeadsAway == back # <<>> /\ ~popped => back[Len(back)] # view
=============================================================================
