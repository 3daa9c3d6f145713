-------------------------- MODULE ServerPartsProofs ---------------------------
(* Proofs about the parts of MCServerParts that operators look at and       *)
(* change: schedules, thresholds, maintenance windows, acknowledgments and  *)
(* snoozes with their views, and the stores' files.  For any number of      *)
(* schedules, pages, windows, keys and requests.                            *)
EXTENDS MCServerParts, AlertTableProofs, TLAPS

-----------------------------------------------------------------------------
(* Schedules                                                                *)

(* A schedule that the runner has read as due is so still, or it is noted   *)
(* that it is not.                                                          *)
DueOrStale == due \subseteq SR!Due \cup stale

(* The list shows the store, or it is going to be read again.               *)
ListIsComing ==
    \/ srOutdated \/ schedules = entries
    \/ \E r \in requests : r.kind \in {"list", "relist"} \/ r.handled

ListsAreRead ==
    \A r \in requests : r.kind \in {"list", "relist"} /\ r.handled => r.answer # SR!NotRead

SchedulesInv ==
    SR!TypeOK /\ DueOrStale /\ ListIsComing /\ ListsAreRead /\ SR!AddButtonReturns

-----------------------------------------------------------------------------
(* Thresholds                                                               *)

Loading(p) == pages[p].load # TH!NoLevel

(* The newest save of the page, known to the server and not yet to the page.*)
AnswerOnItsWay(p) ==
    \E post \in posts : post.page = p /\ post.step = "applied" /\ TH!Awaited(post)

(* A save is waited for by its page, unless it was given up while its file  *)
(* was written; a page that waits for a save is neither loading nor broken. *)
PagesInOrder ==
    /\ \A q, r \in posts : q.nr = r.nr => q = r
    /\ \A q \in posts :
          /\ q.nr <= saves
          /\ TH!Awaited(q) \/ (q.step = "written" /\ q.page \in unsure)
    /\ \A p \in Pages :
          /\ pages[p].saving <= saves
          /\ pages[p].saving # 0 => TH!Editable(p)
          /\ Loading(p) <=> pages[p].loading
          /\ IF pages[p].isDirty THEN pages[p].draft # TH!NoLevel
                                 ELSE pages[p].draft = pages[p].loaded

(* Of the page that saved last: what it has loaded is what the server has,  *)
(* or the answer that says so is on its way.                                *)
AuthorIsRight ==
    \A p \in Pages :
        author = p /\ p \notin unsure =>
            /\ TH!Editable(p)
            /\ ~AnswerOnItsWay(p) => pages[p].loaded = thresholds
            /\ \A q \in posts : q.page = p /\ q.step = "applied" => q.level = thresholds

(* One save at a time is between the file and the configuration.            *)
FileLeads ==
    ~overlapped =>
        /\ \A q, r \in posts : q.step = "written" /\ r.step = "written" => q = r
        /\ \A q \in posts : q.step = "written" => override = q.level

ThresholdsInv ==
    /\ TH!TypeOK /\ PagesInOrder /\ AuthorIsRight /\ FileLeads
    /\ TH!EditorIsFreed /\ TH!FileFollowsCopy

-----------------------------------------------------------------------------
(* Maintenance windows                                                      *)

IsCreation(r) == r.kind \in {"create", "reload"}

(* One creation and one extension at a time.                                *)
OneOfAKind ==
    /\ \A r, s \in mvRequests : IsCreation(r) /\ IsCreation(s) => r = s
    /\ \A r, s \in mvRequests : r.kind = "extend" /\ s.kind = "extend" => r = s

WindowsAgree ==
    \A i \in MV!Ids \ told : windows[i] > now \/ ends[i] > now => windows[i] = ends[i]

WindowsAreComing ==
    \/ mvOutdated \/ WindowsAgree
    \/ \E r \in mvRequests :
          \/ r.kind \in {"load", "reload"}
          \/ r.kind \in {"create", "delete"} /\ r.handled

WindowsAreRead ==
    \A r \in mvRequests :
        /\ r.kind \in {"load", "reload"} /\ r.handled => r.answer # MV!NotRead
        /\ r.kind \in {"delete", "extend"} => r.id # 0

WindowsInv ==
    MV!TypeOK /\ OneOfAKind /\ WindowsAreComing /\ WindowsAreRead /\ MV!ViewIsFreed

-----------------------------------------------------------------------------
(* The alert panel                                                          *)

ShowsStore(f) == \A k \in Keys : (f[k] # AP!None) = (AP!Of(k) # {})

(* A change has been handled that the panel will answer by a new list.      *)
ListDue == \E c \in changes : c.answer = "ok"

(* As long as the panel is told of every change, the newest list it has     *)
(* asked for will be right, and the newest it has got is.                   *)
NewestListIsRight ==
    alert # AP!Closed /\ ~apOutdated =>
        \/ ListDue
        \/ /\ \A r \in reloads : r.seen # AP!NotRead =>
                 \/ ShowsStore(r.seen) \/ applied > r.nr
                 \/ \E s \in reloads : s.nr > r.nr
           /\ ShowsStore(found) \/ \E r \in reloads : r.nr > applied

PanelNumbers ==
    /\ applied <= apAsked /\ \A r \in reloads : r.nr <= apAsked
    /\ \A c \in changes : c.answer # "" => c.waited

PanelInv ==
    AP!TypeOK /\ PanelNumbers /\ NewestListIsRight

-----------------------------------------------------------------------------
(* Steps of the schedules                                                   *)

LEMMA BoundsFit ==
  /\ MaxRequests \in Nat \ {0} /\ MaxSaves \in Nat /\ MaxRestarts \in Nat /\ MaxWindows \in Nat
  /\ MaxTime \in Nat /\ MaxEntries \in Nat
  /\ Critical \in Nat /\ Default \in 1 .. Critical - 1
  BY ConstantsFit DEF SR!ConstantsOK, TH!ConstantsOK, MV!ConstantsOK, AP!ConstantsOK

LEMMA SchedulesStart == SR!Init => SchedulesInv
<1> SUFFICES ASSUME SR!Init PROVE SchedulesInv
  OBVIOUS
<1> USE BoundsFit DEF SR!Init
<1>1. SR!TypeOK
  <2>1. 0 \in 0 .. MaxRequests
    OBVIOUS
  <2>2. run \in [ScheduleIds -> {"idle", "collecting", "recorded"}]
    OBVIOUS
  <2>3. schedules \in [ScheduleIds -> SR!States]
    BY DEF SR!States
  <2> QED
    BY <2>1, <2>2, <2>3 DEF SR!TypeOK
<1> QED
  BY <1>1 DEF SchedulesInv, DueOrStale, ListIsComing, ListsAreRead, SR!AddButtonReturns

(* What a request of the view adds to those under way.                      *)
LEMMA ScheduleAsked ==
  ASSUME SR!TypeOK, NEW open \in SUBSET requests, NEW k \in {"list", "set", "delete", "create", "relist"},
         NEW i \in ScheduleIds, NEW to \in SR!States, SR!Send(open, k, i, to)
  PROVE  /\ asked' \in 0 .. MaxRequests /\ requests' \subseteq SR!Request
         /\ SR!Ask(k, i, to) \in requests' /\ open \subseteq requests'
         /\ \A r \in requests' \ open : r = SR!Ask(k, i, to)
<1>1. asked \in Nat /\ asked + 1 \in 1 .. MaxRequests
  BY BoundsFit DEF SR!Send, SR!TypeOK
<1>2. SR!Ask(k, i, to) \in SR!Request
  BY <1>1 DEF SR!Ask, SR!Request
<1> QED
  BY <1>1, <1>2 DEF SR!Send, SR!TypeOK

LEMMA SchedulesTypeKept ==
  ASSUME SR!TypeOK, ListsAreRead, [SR!Next]_(SR!vars)
  PROVE  SR!TypeOK' /\ ListsAreRead'
<1>1. ASSUME NEW i \in ScheduleIds, NEW open \in SUBSET requests, NEW to \in SR!States,
             NEW k \in {"list", "set", "delete", "create", "relist"}, SR!Send(open, k, i, to)
      PROVE  /\ asked' \in 0 .. MaxRequests /\ requests' \subseteq SR!Request
             /\ \A r \in requests' : r.kind \in {"list", "relist"} /\ r.handled => r.answer # SR!NotRead
  <2>1. SR!Ask(k, i, to).handled = FALSE
    BY DEF SR!Ask
  <2>2. /\ asked' \in 0 .. MaxRequests /\ requests' \subseteq SR!Request
        /\ \A r \in requests' \ open : r = SR!Ask(k, i, to)
    BY <1>1, ScheduleAsked DEF SR!Send
  <2> QED
    BY <2>1, <2>2 DEF ListsAreRead
<1> USE DEF SR!TypeOK, ListsAreRead
<1>2. ASSUME NEW r \in requests PROVE r \in SR!Request
  OBVIOUS
<1>3. CASE SR!Tick
  BY <1>3 DEF SR!Tick, SR!Due, SR!view
<1>4. CASE SR!loadSchedules
  BY <1>1, <1>4 DEF SR!loadSchedules, SR!States, SR!runner
<1>5. ASSUME NEW i \in ScheduleIds, SR!TimePasses(i) \/ SR!Start(i) \/ SR!Record(i) \/ SR!Finish(i)
      PROVE  SR!TypeOK' /\ ListsAreRead'
  BY <1>5 DEF SR!TimePasses, SR!Start, SR!Record, SR!Finish, SR!runner, SR!view
<1>6. ASSUME NEW i \in ScheduleIds, SR!SetEnabled(i) \/ SR!DeleteSchedule(i) \/ SR!Create(i)
      PROVE  SR!TypeOK' /\ ListsAreRead'
  BY <1>1, <1>6 DEF SR!SetEnabled, SR!DeleteSchedule, SR!Create, SR!runner, SR!States
<1>7. ASSUME NEW r \in requests, SR!Handle(r) PROVE SR!TypeOK' /\ ListsAreRead'
  <2>1. r \in SR!Request /\ [r EXCEPT !.handled = TRUE] \in SR!Request
    BY DEF SR!Request
  <2> QED
    BY <1>7, <2>1 DEF SR!Handle, SR!runner, SR!Request
<1>8. ASSUME NEW r \in requests, SR!List(r) PROVE SR!TypeOK' /\ ListsAreRead'
  <2>1. <<entries>> # SR!NotRead
    BY DEF SR!NotRead
  <2>2. [r EXCEPT !.handled = TRUE, !.answer = <<entries>>] \in SR!Request
    BY DEF SR!Request
  <2> QED
    BY <1>8, <2>1, <2>2 DEF SR!List, SR!runner, SR!Request
<1>9. ASSUME NEW r \in requests, SR!Changed(r) PROVE SR!TypeOK' /\ ListsAreRead'
  BY <1>1, <1>2, <1>9 DEF SR!Changed, SR!runner, SR!States, SR!Request
<1>10. ASSUME NEW r \in requests, SR!Listed(r) PROVE SR!TypeOK' /\ ListsAreRead'
  <2>1. r.answer[1] \in [ScheduleIds -> SR!States]
    BY <1>10 DEF SR!Listed, SR!Request, SR!NotRead
  <2> QED
    BY <1>10, <2>1 DEF SR!Listed, SR!runner
<1>11. ASSUME NEW r \in requests, SR!Fails(r) PROVE SR!TypeOK' /\ ListsAreRead'
  BY <1>11 DEF SR!Fails, SR!runner
<1>12. CASE UNCHANGED SR!vars
  BY <1>12 DEF SR!vars, SR!runner, SR!view
<1> QED
  BY <1>3, <1>4, <1>5, <1>6, <1>7, <1>8, <1>9, <1>10, <1>11, <1>12 DEF SR!Next

LEMMA SchedulesKept ==
  ASSUME SchedulesInv, [SR!Next]_(SR!vars)
  PROVE  SchedulesInv'
<1>1. SR!TypeOK /\ SR!TypeOK' /\ ListsAreRead'
  BY SchedulesTypeKept DEF SchedulesInv
<1> SUFFICES DueOrStale' /\ ListIsComing' /\ SR!AddButtonReturns'
  BY <1>1 DEF SchedulesInv
<1> DueOrStale /\ ListIsComing /\ SR!AddButtonReturns
  BY DEF SchedulesInv
<1>2. ASSUME UNCHANGED <<entries, schedules>>, srOutdated => srOutdated',
             requests \subseteq requests'
      PROVE  ListIsComing'
  BY <1>2 DEF ListIsComing
<1>3. ASSUME UNCHANGED schedLoading, requests \subseteq requests'
      PROVE  SR!AddButtonReturns'
  BY <1>3 DEF SR!AddButtonReturns
<1>4. ASSUME UNCHANGED <<entries, elapsed, due, stale>>
      PROVE  DueOrStale'
  BY <1>4 DEF DueOrStale, SR!Due
<1>5. CASE SR!Tick
  <2>1. DueOrStale'
    BY <1>5 DEF SR!Tick, DueOrStale, SR!Due
  <2> QED
    BY <1>2, <1>3, <1>5, <2>1 DEF SR!Tick, SR!view
<1>6. CASE SR!loadSchedules
  BY <1>2, <1>3, <1>4, <1>6 DEF SR!loadSchedules, SR!Send, SR!runner
<1>7. ASSUME NEW i \in ScheduleIds, SR!TimePasses(i) \/ SR!Start(i) \/ SR!Record(i) \/ SR!Finish(i)
      PROVE  DueOrStale' /\ ListIsComing' /\ SR!AddButtonReturns'
  <2>1. DueOrStale'
    BY <1>7 DEF SR!TimePasses, SR!Start, SR!Record, SR!Finish, SR!runner, DueOrStale, SR!Due
  <2>2. UNCHANGED <<entries, schedules, srOutdated, requests, schedLoading>>
    BY <1>7 DEF SR!TimePasses, SR!Start, SR!Record, SR!Finish, SR!view
  <2> QED
    BY <1>2, <1>3, <2>1, <2>2
<1>8. ASSUME NEW i \in ScheduleIds, SR!SetEnabled(i) \/ SR!DeleteSchedule(i) \/ SR!Create(i)
      PROVE  DueOrStale' /\ ListIsComing' /\ SR!AddButtonReturns'
  <2>1. /\ UNCHANGED <<entries, elapsed, due, stale, schedules, srOutdated>>
        /\ requests \subseteq requests'
    BY <1>8 DEF SR!SetEnabled, SR!DeleteSchedule, SR!Create, SR!Send, SR!runner
  <2>2. CASE ~SR!Create(i)
    BY <1>2, <1>3, <1>4, <1>8, <2>1, <2>2 DEF SR!SetEnabled, SR!DeleteSchedule
  <2>3. CASE SR!Create(i)
    <3>1. SR!Ask("create", i, "on").kind = "create"
      BY DEF SR!Ask
    <3>2. SR!Ask("create", i, "on") \in requests'
      BY <2>3 DEF SR!Create, SR!Send
    <3> QED
      BY <1>2, <1>4, <2>1, <3>1, <3>2 DEF SR!AddButtonReturns
  <2> QED
    BY <2>2, <2>3
<1>9. ASSUME NEW r \in requests, SR!Handle(r)
      PROVE  DueOrStale' /\ ListIsComing' /\ SR!AddButtonReturns'
  <2> DEFINE answered == [r EXCEPT !.handled = TRUE]
  <2>1. r \in SR!Request /\ answered.handled /\ answered.kind = r.kind
    BY <1>1 DEF SR!TypeOK, SR!Request
  <2>2. /\ requests' = (requests \ {r}) \cup {answered}
        /\ UNCHANGED <<due, schedules, schedLoading, srOutdated>>
    BY <1>9 DEF SR!Handle, SR!runner
  <2>3. DueOrStale'
    BY <1>1, <1>9, <2>1, <2>2 DEF SR!Handle, DueOrStale, SR!Due, SR!TypeOK, SR!Request
  <2> QED
    BY <2>1, <2>2, <2>3 DEF ListIsComing, SR!AddButtonReturns
<1>10. ASSUME NEW r \in requests, SR!List(r)
       PROVE  DueOrStale' /\ ListIsComing' /\ SR!AddButtonReturns'
  <2> DEFINE answered == [r EXCEPT !.handled = TRUE, !.answer = <<entries>>]
  <2>1. r \in SR!Request /\ answered.handled /\ answered.kind = r.kind
    BY <1>1 DEF SR!TypeOK, SR!Request
  <2>2. /\ requests' = (requests \ {r}) \cup {answered}
        /\ UNCHANGED <<entries, elapsed, due, stale, schedules, schedLoading, srOutdated>>
    BY <1>10 DEF SR!List, SR!runner
  <2> QED
    BY <1>4, <2>1, <2>2 DEF ListIsComing, SR!AddButtonReturns
<1>11. ASSUME NEW r \in requests, SR!Changed(r)
       PROVE  DueOrStale' /\ ListIsComing' /\ SR!AddButtonReturns'
  <2> DEFINE list == SR!Ask(IF r.kind = "create" THEN "relist" ELSE "list", r.id, "absent")
  <2>1. /\ list.kind = IF r.kind = "create" THEN "relist" ELSE "list"
        /\ requests' = (requests \ {r}) \cup {list} /\ r.kind \in {"set", "delete", "create"}
        /\ UNCHANGED <<entries, elapsed, due, stale, schedLoading>>
    BY <1>11 DEF SR!Changed, SR!Send, SR!Ask, SR!runner
  <2> QED
    BY <1>4, <2>1 DEF ListIsComing, SR!AddButtonReturns
<1>12. ASSUME NEW r \in requests, SR!Listed(r)
       PROVE  DueOrStale' /\ ListIsComing' /\ SR!AddButtonReturns'
  <2>1. /\ requests' = requests \ {r} /\ r.kind \in {"list", "relist"}
        /\ schedules' = r.answer[1] /\ srOutdated' = (r.answer[1] # entries)
        /\ schedLoading' = (schedLoading /\ r.kind # "relist")
        /\ UNCHANGED <<entries, elapsed, due, stale>>
    BY <1>12 DEF SR!Listed, SR!runner
  <2> QED
    BY <1>4, <2>1 DEF ListIsComing, SR!AddButtonReturns
<1>13. ASSUME NEW r \in requests, SR!Fails(r)
       PROVE  DueOrStale' /\ ListIsComing' /\ SR!AddButtonReturns'
  <2>1. /\ requests' = requests \ {r}
        /\ schedLoading' = (schedLoading /\ r.kind \notin {"create", "relist"})
        /\ srOutdated' = (srOutdated \/ r.handled \/ r.kind \in {"list", "relist"})
        /\ UNCHANGED <<entries, elapsed, due, stale, schedules>>
    BY <1>13 DEF SR!Fails, SR!runner
  <2> QED
    BY <1>4, <2>1 DEF ListIsComing, SR!AddButtonReturns
<1>14. CASE UNCHANGED SR!vars
  BY <1>2, <1>3, <1>4, <1>14 DEF SR!vars, SR!runner, SR!view
<1> QED
  BY <1>5, <1>6, <1>7, <1>8, <1>9, <1>10, <1>11, <1>12, <1>13, <1>14 DEF SR!Next

(* A run is started of a schedule that is idle, and due or noted.           *)
LEMMA StartsOnlyDue ==
  ASSUME SchedulesInv, [SR!Next]_(SR!vars)
  PROVE  SR!StartsAreDue
<1> USE DEF SR!StartsAreDue, SchedulesInv, SR!TypeOK
<1>1. SUFFICES ASSUME NEW i \in ScheduleIds, run'[i] = "collecting", run[i] # "collecting"
      PROVE  run[i] = "idle" /\ (i \in SR!Due \/ i \in stale)
  OBVIOUS
<1>2. ASSUME NEW j \in ScheduleIds, SR!Start(j)
      PROVE  run[i] = "idle" /\ (i \in SR!Due \/ i \in stale)
  BY <1>1, <1>2 DEF SR!Start, SR!InFlight, DueOrStale
<1>3. ASSUME NEW j \in ScheduleIds, SR!Record(j) \/ SR!Finish(j) PROVE FALSE
  BY <1>1, <1>3 DEF SR!Record, SR!Finish
<1>4. ASSUME UNCHANGED run PROVE FALSE
  BY <1>1, <1>4
<1> QED
  BY <1>2, <1>3, <1>4 DEF SR!Next, SR!vars, SR!runner, SR!view, SR!Tick, SR!loadSchedules,
     SR!TimePasses, SR!SetEnabled, SR!DeleteSchedule, SR!Create, SR!Handle, SR!List, SR!Changed,
     SR!Listed, SR!Fails

(* Once nothing is under way, the list is there.                            *)
LEMMA SchedulesShown == SchedulesInv => SR!ListShowsTheStore /\ SR!AddButtonReturns
  BY DEF SchedulesInv, ListIsComing, SR!ListShowsTheStore

-----------------------------------------------------------------------------
(* Steps of the thresholds                                                  *)

LEMMA LevelsDiffer ==
  /\ TH!NoLevel \in Nat /\ TH!Sent \in Nat /\ TH!NoLevel # TH!Sent
  /\ TH!NoLevel \notin TH!Levels /\ TH!Sent \notin TH!Levels /\ 0 \in TH!Levels /\ Default \in TH!Levels
  BY BoundsFit DEF TH!NoLevel, TH!Sent, TH!Levels

LEMMA ThresholdsStart == TH!Init => ThresholdsInv
<1> SUFFICES ASSUME TH!Init PROVE ThresholdsInv
  OBVIOUS
<1>1. \A p \in Pages : pages[p] =
          [ loaded |-> TH!NoLevel, draft |-> TH!NoLevel, isDirty |-> FALSE, saving |-> 0,
            loading |-> TRUE, error |-> FALSE, load |-> TH!Sent ]
  BY DEF TH!Init
<1> 0 \in 0 .. MaxSaves /\ 0 \in 0 .. MaxRestarts
  BY BoundsFit
<1>2. ASSUME NEW p \in Pages PROVE pages[p] \in TH!Page
  <2>1. [ loaded |-> TH!NoLevel, draft |-> TH!NoLevel, isDirty |-> FALSE, saving |-> 0,
          loading |-> TRUE, error |-> FALSE, load |-> TH!Sent ] \in TH!Page
    BY DEF TH!Page
  <2> QED
    BY <1>1, <2>1
<1>3. TH!TypeOK
  <2>1. pages \in [Pages -> TH!Page]
    BY <1>2 DEF TH!Init
  <2> QED
    BY <2>1, LevelsDiffer DEF TH!Init, TH!TypeOK
<1>4. PagesInOrder
  BY <1>1, LevelsDiffer DEF TH!Init, PagesInOrder, Loading
<1>5. author \notin Pages
  BY ConstantsFit DEF TH!Init, TH!ConstantsOK
<1>6. AuthorIsRight /\ FileLeads
  BY <1>5 DEF TH!Init, AuthorIsRight, FileLeads
<1>7. TH!EditorIsFreed /\ TH!FileFollowsCopy
  BY <1>1, LevelsDiffer DEF TH!Init, TH!EditorIsFreed, TH!FileFollowsCopy
<1> QED
  BY <1>3, <1>4, <1>6, <1>7 DEF ThresholdsInv

(* A step of one editor that leaves its save alone.                         *)
LEMMA PageKeeps ==
  ASSUME ThresholdsInv, NEW p \in Pages, NEW new \in TH!Page,
         pages' = [pages EXCEPT ![p] = new],
         new.saving = pages[p].saving,
         new.loading <=> new.load # TH!NoLevel,
         IF new.isDirty THEN new.draft # TH!NoLevel ELSE new.draft = new.loaded,
         TH!Editable(p) => ~new.loading /\ ~new.error /\ new.loaded = pages[p].loaded,
         UNCHANGED <<thresholds, override, collectors, posts, saves, restarts, overlapped, author, unsure>>
  PROVE  ThresholdsInv'
<1>1. TH!TypeOK /\ TH!TypeOK'
  BY DEF ThresholdsInv, TH!TypeOK
<1>2. \A q \in Pages : /\ pages'[q] = IF q = p THEN new ELSE pages[q]
                       /\ pages'[q].saving = pages[q].saving
  BY <1>1 DEF TH!TypeOK
<1>3. \A q \in posts : q.page \in Pages /\ TH!Awaited(q)' = TH!Awaited(q)
  BY <1>1, <1>2 DEF TH!TypeOK, TH!Post, TH!Awaited
<1>4. PagesInOrder'
  BY <1>2, <1>3 DEF ThresholdsInv, PagesInOrder, TH!Editable, Loading
<1>5. \A q \in Pages : AnswerOnItsWay(q)' = AnswerOnItsWay(q)
  BY <1>3 DEF AnswerOnItsWay
<1>6. \A q \in Pages : TH!Editable(q) => TH!Editable(q)' /\ pages'[q].loaded = pages[q].loaded
  BY <1>2 DEF TH!Editable
<1>7. AuthorIsRight'
  BY <1>5, <1>6 DEF ThresholdsInv, AuthorIsRight
<1>8. TH!EditorIsFreed'
  BY <1>2, <1>3 DEF ThresholdsInv, TH!EditorIsFreed
<1> QED
  BY <1>1, <1>4, <1>7, <1>8 DEF ThresholdsInv, FileLeads, TH!FileFollowsCopy

LEMMA EditorKeeps ==
  ASSUME ThresholdsInv, NEW p \in Pages,
         \/ TH!load(p) \/ TH!ReadForPage(p) \/ TH!Loaded(p) \/ TH!NotLoaded(p) \/ TH!handleReset(p)
         \/ \E level \in TH!Levels : TH!handleChange(p, level)
  PROVE  ThresholdsInv'
<1> pages[p] \in TH!Page /\ thresholds \in TH!Levels /\ pages \in [Pages -> TH!Page]
  BY DEF ThresholdsInv, TH!TypeOK
<1> Loading(p) <=> pages[p].loading
  BY DEF ThresholdsInv, PagesInOrder
<1> IF pages[p].isDirty THEN pages[p].draft # TH!NoLevel ELSE pages[p].draft = pages[p].loaded
  BY DEF ThresholdsInv, PagesInOrder
<1> USE LevelsDiffer DEF TH!Page, TH!Editable, Loading, TH!server, TH!past
<1>1. CASE TH!load(p)
  BY <1>1, PageKeeps DEF TH!load
<1>2. CASE TH!ReadForPage(p)
  BY <1>2, PageKeeps DEF TH!ReadForPage
<1>3. CASE TH!Loaded(p)
  BY <1>3, PageKeeps DEF TH!Loaded
<1>4. CASE TH!NotLoaded(p)
  BY <1>4, PageKeeps DEF TH!NotLoaded
<1>5. CASE TH!handleReset(p)
  BY <1>5, PageKeeps DEF TH!handleReset
<1>6. ASSUME NEW level \in TH!Levels, TH!handleChange(p, level)
      PROVE  ThresholdsInv'
  <2> DEFINE new == [pages[p] EXCEPT !.draft = level, !.isDirty = TRUE]
  <2>1. new \in TH!Page /\ new.isDirty /\ new.draft # TH!NoLevel
        /\ new.saving = pages[p].saving /\ new.loaded = pages[p].loaded
        /\ new.loading = pages[p].loading /\ new.error = pages[p].error /\ new.load = pages[p].load
    OBVIOUS
  <2>2. pages' = [pages EXCEPT ![p] = new]
    BY <1>6 DEF TH!handleChange
  <2>3. UNCHANGED <<thresholds, override, collectors, posts, saves, restarts, overlapped, author, unsure>>
    BY <1>6 DEF TH!handleChange
  <2> HIDE DEF new
  <2> QED
    BY <2>1, <2>2, <2>3, PageKeeps
<1> QED
  BY <1>1, <1>2, <1>3, <1>4, <1>5, <1>6

LEMMA handleSaveKeeps ==
  ASSUME ThresholdsInv, NEW p \in Pages, TH!handleSave(p)
  PROVE  ThresholdsInv'
<1> PICK post : post = [nr |-> saves + 1, page |-> p, level |-> pages[p].draft, step |-> "sent"]
  OBVIOUS
<1> TH!TypeOK /\ PagesInOrder /\ saves \in Nat
  BY BoundsFit DEF ThresholdsInv, TH!TypeOK
<1>1. /\ pages[p].saving = 0 /\ TH!Editable(p) /\ pages[p].isDirty /\ saves' = saves + 1
      /\ saves < MaxSaves
      /\ pages' = [pages EXCEPT ![p].saving = saves + 1] /\ posts' = posts \cup {post}
      /\ UNCHANGED <<thresholds, override, collectors, restarts, overlapped, author, unsure>>
  BY DEF TH!handleSave, TH!server, TH!past
<1>2. saves' \in 1 .. MaxSaves
  BY <1>1, BoundsFit
<1>3. \A q \in Pages :
         /\ pages[q] \in TH!Page
         /\ pages'[q] = IF q = p THEN [pages[p] EXCEPT !.saving = saves + 1] ELSE pages[q]
  BY <1>1 DEF TH!TypeOK
<1>4. post \in TH!Post
  <2>1. pages[p].draft \in TH!Levels
    BY <1>1, <1>3 DEF PagesInOrder, TH!Page
  <2> QED
    BY <1>2, <2>1, <1>1 DEF TH!Post
<1>5. TH!TypeOK'
  <2>1. [pages[p] EXCEPT !.saving = saves + 1] \in TH!Page
    BY <1>1, <1>2, <1>3 DEF TH!Page
  <2>2. pages' \in [Pages -> TH!Page]
    BY <1>1, <2>1 DEF TH!TypeOK
  <2> QED
    BY <1>1, <1>2, <1>4, <2>2 DEF TH!TypeOK
<1>6. /\ post.nr = saves + 1 /\ post.page = p /\ post.step = "sent"
      /\ \A q \in posts : q \in TH!Post /\ q.nr \in Nat /\ q.nr # 0 /\ q.nr <= saves /\ q.nr # post.nr
  BY DEF TH!TypeOK, TH!Post, PagesInOrder
(* The page waited for nothing before.                                      *)
<1>7. /\ \A q \in posts : TH!Awaited(q) => q.page # p /\ TH!Awaited(q)'
      /\ TH!Awaited(post)'
  <2>1. pages'[p].saving = saves + 1
    BY <1>3 DEF TH!Page
  <2>2. ASSUME NEW q \in posts, TH!Awaited(q)
        PROVE  q.page # p /\ TH!Awaited(q)'
    <3>1. q.page \in Pages /\ q.page # p
      BY <1>1, <1>6, <2>2 DEF TH!Awaited, TH!Post
    <3> QED
      BY <1>3, <2>2, <3>1 DEF TH!Awaited
  <2> QED
    BY <1>6, <2>1, <2>2 DEF TH!Awaited
<1>8. PagesInOrder'
  <2>1. \A q, r \in posts' : q.nr = r.nr => q = r
    BY <1>1, <1>6 DEF PagesInOrder
  <2>2. \A q \in posts' : q.nr <= saves' /\ (TH!Awaited(q)' \/ (q.step = "written" /\ q.page \in unsure'))
    BY <1>1, <1>6, <1>7 DEF PagesInOrder
  <2>3. \A q \in Pages : /\ pages'[q].saving <= saves'
                         /\ pages'[q].saving # 0 => TH!Editable(q)'
    BY <1>1, <1>3 DEF PagesInOrder, TH!Editable, TH!Page
  <2>4. \A q \in Pages : /\ Loading(q)' <=> pages'[q].loading
                         /\ IF pages'[q].isDirty THEN pages'[q].draft # TH!NoLevel
                                                 ELSE pages'[q].draft = pages'[q].loaded
    BY <1>3 DEF PagesInOrder, Loading, TH!Page
  <2> QED
    BY <2>1, <2>2, <2>3, <2>4 DEF PagesInOrder
<1>9. AuthorIsRight'
  <2>1. \A q \in Pages : TH!Editable(q)' = TH!Editable(q) /\ pages'[q].loaded = pages[q].loaded
    BY <1>3 DEF TH!Editable, TH!Page
  <2>2. \A q \in Pages : AnswerOnItsWay(q) => AnswerOnItsWay(q)'
    BY <1>1, <1>7 DEF AnswerOnItsWay
  <2> QED
    BY <1>1, <1>6, <2>1, <2>2 DEF ThresholdsInv, AuthorIsRight
<1>10. FileLeads' /\ TH!FileFollowsCopy'
  BY <1>1, <1>6 DEF ThresholdsInv, FileLeads, TH!FileFollowsCopy
<1>11. TH!EditorIsFreed'
  <2>1. \A q \in Pages \ {p} : pages'[q] = pages[q]
    BY <1>3
  <2>2. pages'[p].loading = pages[p].loading /\ pages'[p].load = pages[p].load
    BY <1>3 DEF TH!Page
  <2> QED
    <3>1. post \in posts' /\ posts \subseteq posts'
      BY <1>1
    <3>2. \A q \in Pages \ {p} : pages[q].saving # 0 =>
             \E r \in posts' : r.page = q /\ TH!Awaited(r)'
      BY <1>7, <3>1 DEF ThresholdsInv, TH!EditorIsFreed
    <3>3. \E r \in posts' : r.page = p /\ TH!Awaited(r)'
      BY <1>6, <1>7, <3>1
    <3> QED
      BY <2>1, <2>2, <3>2, <3>3 DEF ThresholdsInv, TH!EditorIsFreed
<1> QED
  BY <1>5, <1>8, <1>9, <1>10, <1>11 DEF ThresholdsInv

(* A POST takes a step on the server.                                       *)
LEMMA PostsStep ==
  ASSUME TH!TypeOK, PagesInOrder, TH!EditorIsFreed, NEW post \in posts, TH!Awaited(post),
         NEW new, NEW where \in {"written", "applied", "refused"}, new = [post EXCEPT !.step = where],
         posts' = (posts \ {post}) \cup {new}, UNCHANGED <<pages, saves, unsure>>
  PROVE  /\ new \in TH!Post /\ new.nr = post.nr /\ new.page = post.page
         /\ new.level = post.level /\ new.step = where
         /\ TH!Awaited(new) /\ PagesInOrder' /\ TH!EditorIsFreed'
<1>1. /\ new \in TH!Post /\ new.nr = post.nr /\ new.page = post.page
      /\ new.level = post.level /\ new.step = where
  BY DEF TH!TypeOK, TH!Post
<1>2. TH!Awaited(new) /\ TH!Awaited(new)'
  BY <1>1 DEF TH!Awaited
<1>3. \A q \in posts : TH!Awaited(q)' = TH!Awaited(q)
  BY DEF TH!Awaited
<1>4. ASSUME NEW q \in posts', NEW r \in posts', q.nr = r.nr PROVE q = r
  <2>1. \A x, y \in posts : x.nr = y.nr => x = y
    BY DEF PagesInOrder
  <2>2. q = new \/ (q \in posts /\ q # post)
    OBVIOUS
  <2>3. r = new \/ (r \in posts /\ r # post)
    OBVIOUS
  <2> QED
    BY <1>1, <1>4, <2>1, <2>2, <2>3
<1>5. \A q \in posts' : q.nr <= saves' /\ (TH!Awaited(q)' \/ (q.step = "written" /\ q.page \in unsure'))
  BY <1>1, <1>2, <1>3 DEF PagesInOrder
<1>6. PagesInOrder'
  BY <1>4, <1>5 DEF PagesInOrder, TH!Editable, Loading
<1>7. TH!EditorIsFreed'
  BY <1>1, <1>2, <1>3 DEF TH!EditorIsFreed
<1> QED
  BY <1>1, <1>2, <1>6, <1>7

(* ... or goes, and nobody waits for it.                                    *)
LEMMA PostGoes ==
  ASSUME TH!TypeOK, PagesInOrder, TH!EditorIsFreed, NEW post \in posts, ~TH!Awaited(post),
         posts' = posts \ {post}, UNCHANGED <<pages, saves, unsure>>
  PROVE  PagesInOrder' /\ TH!EditorIsFreed'
<1>1. \A q \in posts : TH!Awaited(q)' = TH!Awaited(q)
  BY DEF TH!Awaited
<1>2. PagesInOrder'
  BY <1>1 DEF PagesInOrder, TH!Editable, Loading
<1>3. TH!EditorIsFreed'
  BY <1>1 DEF TH!EditorIsFreed
<1> QED
  BY <1>2, <1>3

LEMMA RefuseKeeps ==
  ASSUME ThresholdsInv, NEW post \in posts, TH!Refuse(post)
  PROVE  ThresholdsInv'
<1> TH!TypeOK /\ PagesInOrder /\ TH!EditorIsFreed /\ TH!Awaited(post)
  BY DEF ThresholdsInv, PagesInOrder, TH!Refuse
<1> PICK new : new = [post EXCEPT !.step = "refused"]
  OBVIOUS
<1>1. /\ posts' = (posts \ {post}) \cup {new} /\ post.step = "sent"
      /\ UNCHANGED <<thresholds, override, collectors, pages, saves, restarts, overlapped, author, unsure>>
  BY DEF TH!Refuse, TH!server, TH!past
<1>2. new \in TH!Post /\ new.step = "refused" /\ PagesInOrder' /\ TH!EditorIsFreed'
  BY <1>1, PostsStep
<1>3. TH!TypeOK'
  BY <1>1, <1>2 DEF TH!TypeOK
<1>4. \A p \in Pages : /\ AnswerOnItsWay(p) => AnswerOnItsWay(p)'
                       /\ TH!Editable(p)' = TH!Editable(p)
  BY <1>1 DEF AnswerOnItsWay, TH!Awaited, TH!Editable
<1>5. AuthorIsRight'
  BY <1>1, <1>2, <1>4 DEF ThresholdsInv, AuthorIsRight
<1>6. FileLeads' /\ TH!FileFollowsCopy'
  BY <1>1, <1>2 DEF ThresholdsInv, FileLeads, TH!FileFollowsCopy
<1> QED
  BY <1>2, <1>3, <1>5, <1>6 DEF ThresholdsInv

LEMMA WriteOverrideKeeps ==
  ASSUME ThresholdsInv, NEW post \in posts, NEW fails \in BOOLEAN, TH!WriteOverride(post, fails)
  PROVE  ThresholdsInv'
<1> TH!TypeOK /\ PagesInOrder /\ TH!EditorIsFreed /\ TH!Awaited(post)
  BY DEF ThresholdsInv, PagesInOrder, TH!WriteOverride
<1> PICK new : new = [post EXCEPT !.step = "written"]
  OBVIOUS
<1>1. /\ posts' = (posts \ {post}) \cup {new} /\ post.step = "sent"
      /\ override' = IF fails THEN override ELSE post.level
      /\ overlapped' = (overlapped \/ fails \/ \E q \in posts : q.step = "written")
      /\ UNCHANGED <<thresholds, collectors, pages, saves, restarts, author, unsure>>
  BY DEF TH!WriteOverride
<1>2. /\ new \in TH!Post /\ new.step = "written" /\ new.level = post.level
      /\ PagesInOrder' /\ TH!EditorIsFreed'
  BY <1>1, PostsStep
<1>3. TH!TypeOK'
  <2>1. post.level \in TH!Levels
    BY DEF TH!TypeOK, TH!Post
  <2> QED
    BY <1>1, <1>2, <2>1 DEF TH!TypeOK
<1>4. \A p \in Pages : /\ AnswerOnItsWay(p) => AnswerOnItsWay(p)'
                       /\ TH!Editable(p)' = TH!Editable(p)
  BY <1>1 DEF AnswerOnItsWay, TH!Awaited, TH!Editable
<1>5. AuthorIsRight'
  BY <1>1, <1>2, <1>4 DEF ThresholdsInv, AuthorIsRight
<1>6. FileLeads' /\ TH!FileFollowsCopy'
  BY <1>1, <1>2 DEF ThresholdsInv, FileLeads, TH!FileFollowsCopy
<1> QED
  BY <1>2, <1>3, <1>5, <1>6 DEF ThresholdsInv

LEMMA ApplyKeeps ==
  ASSUME ThresholdsInv, NEW post \in posts, TH!Apply(post)
  PROVE  ThresholdsInv'
<1> TH!TypeOK /\ PagesInOrder /\ TH!EditorIsFreed
  BY DEF ThresholdsInv
<1>1. /\ post.step = "written" /\ thresholds' = post.level /\ author' = post.page
      /\ UNCHANGED <<override, collectors, pages, saves, restarts, overlapped, unsure>>
  BY DEF TH!Apply
<1>2. post.level \in TH!Levels /\ post.page \in Pages /\ post.nr # 0
  BY DEF TH!TypeOK, TH!Post
<1>3. \A p \in Pages : TH!Editable(p)' = TH!Editable(p)
  BY <1>1 DEF TH!Editable
<1>4. ASSUME posts' \subseteq TH!Post,
             \A q \in posts' : q.step = "written" => q \in posts \ {post}
      PROVE  TH!TypeOK' /\ FileLeads' /\ TH!FileFollowsCopy'
  <2>1. TH!TypeOK'
    BY <1>1, <1>2, <1>4 DEF TH!TypeOK
  <2> QED
    BY <1>1, <1>4, <2>1 DEF ThresholdsInv, FileLeads, TH!FileFollowsCopy
<1>5. CASE TH!Awaited(post)
  <2> PICK new : new = [post EXCEPT !.step = "applied"]
    OBVIOUS
  <2>1. posts' = (posts \ {post}) \cup {new}
    BY <1>5 DEF TH!Apply
  <2>2. /\ new \in TH!Post /\ new.nr = post.nr /\ new.page = post.page /\ new.level = post.level
        /\ new.step = "applied" /\ TH!Awaited(new) /\ PagesInOrder' /\ TH!EditorIsFreed'
    BY <1>1, <1>5, <2>1, PostsStep
  <2>3. TH!TypeOK' /\ FileLeads' /\ TH!FileFollowsCopy'
    BY <1>4, <2>1, <2>2 DEF TH!TypeOK
  (* The page of the author has no other save.                              *)
  <2>4. ASSUME NEW q \in posts', q.page = post.page, q.step = "applied"
        PROVE  q = new
    <3>1. pages[q.page].saving = post.nr
      BY <1>5, <2>4 DEF TH!Awaited
    <3>2. q \in posts => pages[q.page].saving = q.nr
      BY <2>4 DEF PagesInOrder, TH!Awaited
    <3> QED
      BY <2>1, <2>2, <3>1, <3>2 DEF PagesInOrder
  <2>5. AnswerOnItsWay(post.page)'
    BY <1>1, <2>1, <2>2 DEF AnswerOnItsWay, TH!Awaited
  <2>6. TH!Editable(post.page)
    BY <1>2, <1>5 DEF TH!Awaited, PagesInOrder
  <2>7. AuthorIsRight'
    BY <1>1, <1>3, <2>2, <2>4, <2>5, <2>6 DEF AuthorIsRight
  <2> QED
    BY <2>2, <2>3, <2>7 DEF ThresholdsInv
<1>6. CASE ~TH!Awaited(post)
  <2>1. posts' = posts \ {post}
    BY <1>6 DEF TH!Apply
  <2>2. PagesInOrder' /\ TH!EditorIsFreed'
    BY <1>1, <1>6, <2>1, PostGoes
  <2>3. TH!TypeOK' /\ FileLeads' /\ TH!FileFollowsCopy'
    BY <1>4, <2>1 DEF TH!TypeOK
  <2>4. AuthorIsRight'
    BY <1>1, <1>6 DEF AuthorIsRight, PagesInOrder
  <2> QED
    BY <2>2, <2>3, <2>4 DEF ThresholdsInv
<1> QED
  BY <1>5, <1>6

(* A page gets its answer, or gives it up.                                  *)
LEMMA AnswersKeep ==
  ASSUME ThresholdsInv, NEW post \in posts, TH!Saved(post) \/ TH!NotSaved(post)
  PROVE  ThresholdsInv'
<1> DEFINE p == post.page
<1> TH!TypeOK /\ PagesInOrder /\ TH!EditorIsFreed
  BY DEF ThresholdsInv
<1>1. /\ TH!Awaited(post) /\ p \in Pages /\ post.level \in TH!Levels /\ post.nr # 0
      /\ pages[p] \in TH!Page /\ pages \in [Pages -> TH!Page]
  BY DEF TH!Saved, TH!NotSaved, TH!TypeOK, TH!Post
<1>2. PICK new : new = IF TH!Saved(post)
                       THEN [pages[p] EXCEPT !.loaded = post.level, !.draft = post.level,
                                             !.isDirty = FALSE, !.saving = 0]
                       ELSE [pages[p] EXCEPT !.saving = 0]
  OBVIOUS
<1>3. /\ pages' = [pages EXCEPT ![p] = new]
      /\ UNCHANGED <<thresholds, override, collectors, saves, restarts, overlapped, author>>
  BY <1>2 DEF TH!Saved, TH!NotSaved, TH!server, TH!past
<1> HIDE DEF p
<1>4. /\ new \in TH!Page /\ new.saving = 0 /\ new.loading = pages[p].loading
      /\ new.error = pages[p].error /\ new.load = pages[p].load
      /\ IF new.isDirty THEN new.draft # TH!NoLevel ELSE new.draft = new.loaded
  <2>1. 0 \in 0 .. MaxSaves
    BY BoundsFit
  <2>2. IF pages[p].isDirty THEN pages[p].draft # TH!NoLevel ELSE pages[p].draft = pages[p].loaded
    BY <1>1 DEF PagesInOrder
  <2> QED
    BY <1>1, <1>2, <2>1, <2>2 DEF TH!Page
<1>5. \A q \in Pages : pages'[q] = IF q = p THEN new ELSE pages[q]
  BY <1>1, <1>3
<1>6. IF post \in posts'
      THEN posts' = posts /\ post.step = "written" /\ unsure' = unsure \cup {p} /\ ~TH!Saved(post)
      ELSE posts' = posts \ {post} /\ unsure' \in {unsure, unsure \cup {p}}
  BY DEF TH!Saved, TH!NotSaved, TH!past, p
(* The page waits for no other post.                                        *)
<1>7. ASSUME NEW q \in posts, q # post
      PROVE  TH!Awaited(q)' = TH!Awaited(q) /\ (TH!Awaited(q) => q.page # p)
  <2>1. q.page \in Pages /\ q.nr # 0 /\ q.nr # post.nr
    BY <1>7 DEF TH!TypeOK, TH!Post, PagesInOrder
  <2>2. pages[p].saving = post.nr
    BY <1>1 DEF TH!Awaited, p
  <2> QED
    BY <1>4, <1>5, <2>1, <2>2 DEF TH!Awaited
<1>8. TH!TypeOK'
  <2>1. pages' \in [Pages -> TH!Page]
    BY <1>1, <1>3, <1>4
  <2> QED
    BY <1>1, <1>3, <1>6, <2>1 DEF TH!TypeOK
<1>9. PagesInOrder'
  <2>1. \A q \in posts' : q.nr <= saves' /\ (TH!Awaited(q)' \/ (q.step = "written" /\ q.page \in unsure'))
    BY <1>3, <1>6, <1>7 DEF PagesInOrder, p
  <2>2. \A q \in Pages : /\ pages'[q].saving <= saves'
                         /\ pages'[q].saving # 0 => TH!Editable(q)'
                         /\ Loading(q)' <=> pages'[q].loading
                         /\ IF pages'[q].isDirty THEN pages'[q].draft # TH!NoLevel
                                                 ELSE pages'[q].draft = pages'[q].loaded
    <3>1. saves \in Nat
      BY BoundsFit DEF TH!TypeOK
    <3> QED
      BY <1>3, <1>4, <1>5, <3>1 DEF PagesInOrder, TH!Editable, Loading
  <2>3. \A q, r \in posts' : q.nr = r.nr => q = r
    BY <1>6 DEF PagesInOrder
  <2> QED
    BY <2>1, <2>2, <2>3 DEF PagesInOrder
<1>10. AuthorIsRight'
  <2> SUFFICES ASSUME NEW q \in Pages, author = q, q \notin unsure'
               PROVE  /\ TH!Editable(q)'
                      /\ ~AnswerOnItsWay(q)' => pages'[q].loaded = thresholds
                      /\ \A r \in posts' : r.page = q /\ r.step = "applied" => r.level = thresholds
    BY <1>3 DEF AuthorIsRight
  <2>1. q \notin unsure /\ posts' \subseteq posts
    BY <1>6
  <2>2. /\ TH!Editable(q)
        /\ ~AnswerOnItsWay(q) => pages[q].loaded = thresholds
        /\ \A r \in posts : r.page = q /\ r.step = "applied" => r.level = thresholds
    BY <2>1 DEF ThresholdsInv, AuthorIsRight
  <2>3. TH!Editable(q)'
    BY <1>4, <1>5, <2>2 DEF TH!Editable
  <2>4. CASE q # p
    <3>1. AnswerOnItsWay(q) => AnswerOnItsWay(q)'
      BY <1>6, <1>7, <2>4 DEF AnswerOnItsWay, p
    <3> QED
      BY <1>5, <2>1, <2>2, <2>3, <2>4, <3>1
  <2>5. CASE q = p /\ TH!Saved(post)
    <3>1. new.loaded = post.level
      BY <1>1, <1>2, <2>5 DEF TH!Page
    <3>2. post.step = "applied"
      BY <2>5 DEF TH!Saved
    <3> QED
      BY <1>5, <2>1, <2>2, <2>3, <2>5, <3>1, <3>2 DEF p
  <2>6. CASE q = p /\ ~TH!Saved(post)
    <3>1. new.loaded = pages[p].loaded
      BY <1>1, <1>2, <2>6 DEF TH!Page
    <3>2. post.step # "applied"
      BY <2>6 DEF TH!NotSaved, p
    <3>3. ~AnswerOnItsWay(q)
      BY <1>7, <2>6, <3>2 DEF AnswerOnItsWay
    <3> QED
      BY <1>5, <2>1, <2>2, <2>3, <2>6, <3>1, <3>3
  <2> QED
    BY <2>4, <2>5, <2>6
<1>11. FileLeads' /\ TH!FileFollowsCopy'
  <2>1. \A q \in posts' : q \in posts
    BY <1>6
  <2>2. \A q \in posts : q.step = "written" => q \in posts'
    BY <1>6 DEF TH!Saved, TH!NotSaved
  <2> QED
    BY <1>3, <2>1, <2>2 DEF ThresholdsInv, FileLeads, TH!FileFollowsCopy
<1>12. TH!EditorIsFreed'
  <2> SUFFICES ASSUME NEW q \in Pages
               PROVE  /\ pages'[q].saving # 0 => \E r \in posts' : r.page = q /\ TH!Awaited(r)'
                      /\ pages'[q].loading => pages'[q].load # TH!NoLevel
    BY DEF TH!EditorIsFreed
  <2>1. CASE q = p
    BY <1>4, <1>5, <2>1 DEF TH!EditorIsFreed
  <2>2. CASE q # p
    <3>1. pages'[q] = pages[q]
      BY <1>5, <2>2
    <3>2. \A r \in posts : r.page = q => r \in posts' /\ TH!Awaited(r)' = TH!Awaited(r)
      BY <1>6, <1>7, <2>2 DEF p
    <3> QED
      BY <3>1, <3>2 DEF TH!EditorIsFreed
  <2> QED
    BY <2>1, <2>2
<1> QED
  BY <1>8, <1>9, <1>10, <1>11, <1>12 DEF ThresholdsInv

LEMMA RestartKeepsThresholdsInv ==
  ASSUME ThresholdsInv, TH!Restart
  PROVE  ThresholdsInv'
<1> TH!TypeOK /\ PagesInOrder
  BY DEF ThresholdsInv
<1>1. /\ posts' = {} /\ author' = "nobody" /\ restarts < MaxRestarts /\ restarts' = restarts + 1
      /\ thresholds' = IF override = TH!NoLevel THEN Default ELSE 0
      /\ collectors' = Default
      /\ UNCHANGED <<override, saves, unsure>>
      /\ overlapped' = (overlapped \/ \E q \in posts : q.step = "written")
  BY DEF TH!Restart, TH!Decoded
<1>2. ASSUME NEW p \in Pages
      PROVE  /\ pages'[p] \in TH!Page /\ pages'[p].saving = 0 /\ ~pages'[p].loading
             /\ pages'[p].load = TH!NoLevel /\ pages'[p].isDirty = pages[p].isDirty
             /\ pages'[p].draft = pages[p].draft /\ pages'[p].loaded = pages[p].loaded
  <2>1. pages[p] \in TH!Page /\ 0 \in 0 .. MaxSaves
    BY BoundsFit DEF TH!TypeOK
  <2>2. pages'[p] = [pages[p] EXCEPT !.saving = 0, !.load = TH!NoLevel, !.loading = FALSE,
                                     !.error = pages[p].error \/ pages[p].load # TH!NoLevel]
    BY DEF TH!Restart
  <2> QED
    BY <2>1, <2>2 DEF TH!Page
<1>3. TH!TypeOK'
  <2>1. restarts' \in 0 .. MaxRestarts
    BY <1>1, BoundsFit DEF TH!TypeOK
  <2>2. pages' \in [Pages -> TH!Page]
    BY <1>2 DEF TH!Restart
  <2> QED
    BY <1>1, <2>1, <2>2, LevelsDiffer DEF TH!TypeOK
<1>4. PagesInOrder'
  <2>1. saves \in Nat
    BY BoundsFit DEF TH!TypeOK
  <2> QED
    BY <1>1, <1>2, <2>1 DEF PagesInOrder, Loading
<1>5. "nobody" \notin Pages
  BY ConstantsFit DEF TH!ConstantsOK
<1> QED
  BY <1>1, <1>2, <1>3, <1>4, <1>5
  DEF ThresholdsInv, AuthorIsRight, FileLeads, TH!EditorIsFreed, TH!FileFollowsCopy

LEMMA ThresholdsKept ==
  ASSUME ThresholdsInv, [TH!Next]_(TH!vars)
  PROVE  ThresholdsInv'
<1>1. CASE UNCHANGED TH!vars
  <2>1. UNCHANGED <<thresholds, override, collectors, pages, posts, saves, restarts, overlapped, author, unsure>>
    BY <1>1 DEF TH!vars, TH!server, TH!past
  <2>2. TH!TypeOK' /\ PagesInOrder'
    BY <2>1 DEF ThresholdsInv, TH!TypeOK, PagesInOrder, TH!Awaited, TH!Editable, Loading
  <2>3. AuthorIsRight' /\ FileLeads' /\ TH!FileFollowsCopy'
    BY <2>1 DEF ThresholdsInv, AuthorIsRight, AnswerOnItsWay, FileLeads, TH!FileFollowsCopy,
       TH!Awaited, TH!Editable
  <2>4. TH!EditorIsFreed'
    BY <2>1 DEF ThresholdsInv, TH!EditorIsFreed, TH!Awaited
  <2> QED
    BY <2>2, <2>3, <2>4 DEF ThresholdsInv
<1> QED
  BY <1>1, EditorKeeps, handleSaveKeeps, AnswersKeep, RefuseKeeps, WriteOverrideKeeps, ApplyKeeps,
     RestartKeepsThresholdsInv DEF TH!Next

(* An editor that waits for nothing shows what the server is configured with.*)
LEMMA ThresholdsShown ==
  ThresholdsInv => TH!ShownIsConfigured /\ TH!EditorIsFreed /\ TH!FileFollowsCopy
<1> SUFFICES ASSUME ThresholdsInv, NEW p \in Pages, author = p, p \notin unsure,
                    pages[p].saving = 0, ~pages[p].isDirty
             PROVE  pages[p].draft = thresholds
  BY DEF ThresholdsInv, TH!ShownIsConfigured
<1>1. ~AnswerOnItsWay(p)
  BY DEF ThresholdsInv, TH!TypeOK, TH!Post, AnswerOnItsWay, TH!Awaited
<1> QED
  BY <1>1 DEF ThresholdsInv, AuthorIsRight, PagesInOrder

-----------------------------------------------------------------------------
(* Steps of the maintenance windows                                         *)

LEMMA WindowsStart == MV!Init => WindowsInv
<1> SUFFICES ASSUME MV!Init PROVE WindowsInv
  OBVIOUS
<1> PICK r : r = [nr |-> 1, kind |-> "load", id |-> 0, end |-> 0, handled |-> FALSE,
                  answer |-> MV!NotRead]
  OBVIOUS
<1>1. /\ r.kind = "load" /\ ~r.handled /\ mvRequests = {r} /\ now = 0
      /\ ends = MV!NoWindow /\ windows = MV!NoWindow
      /\ loading = TRUE /\ refreshing = FALSE /\ submitting = FALSE /\ extending = FALSE
  BY DEF MV!Init
<1>2. MV!TypeOK
  <2>1. /\ 0 \in 0 .. MaxTime /\ 0 \in 0 .. MaxTime + 1 /\ 0 \in 0 .. MaxWindows
        /\ 1 \in 1 .. MaxRequests /\ 1 \in 0 .. MaxRequests
    BY BoundsFit
  <2>2. r \in MV!Request
    BY <2>1 DEF MV!Request
  <2>3. MV!NoWindow \in MV!Ends
    BY <2>1 DEF MV!NoWindow, MV!Ends
  <2> QED
    BY <1>1, <2>1, <2>2, <2>3 DEF MV!Init, MV!TypeOK
<1> QED
  BY <1>1, <1>2 DEF WindowsInv, OneOfAKind, IsCreation, WindowsAreComing, WindowsAreRead, MV!ViewIsFreed

(* What a request of the view adds to those under way.                      *)
LEMMA WindowAsked ==
  ASSUME MV!TypeOK, NEW open \in SUBSET mvRequests, NEW i \in 0 .. MaxWindows, NEW e \in 0 .. MaxTime + 1,
         NEW k \in {"load", "create", "reload", "delete", "extend"}, NEW q, q = MV!Ask(k, i, e),
         mvAsked < MaxRequests, mvAsked' = mvAsked + 1, mvRequests' = open \cup {q}
  PROVE  /\ mvAsked' \in 0 .. MaxRequests /\ mvRequests' \subseteq MV!Request
         /\ q.kind = k /\ q.id = i /\ ~q.handled
<1>1. mvAsked \in Nat /\ mvAsked + 1 \in 1 .. MaxRequests
  BY BoundsFit DEF MV!TypeOK
<1>2. q \in MV!Request
  BY <1>1 DEF MV!Ask, MV!Request
<1>3. q.kind = k /\ q.id = i /\ ~q.handled
  BY DEF MV!Ask
<1>4. mvRequests' \subseteq MV!Request
  BY <1>2 DEF MV!TypeOK
<1>5. mvAsked' \in 0 .. MaxRequests
  BY <1>1
<1> QED
  BY <1>3, <1>4, <1>5

LEMMA AskKeeps ==
  ASSUME WindowsInv, NEW k \in {"load", "create", "delete", "extend"},
         NEW i \in 0 .. MaxWindows, NEW e \in 0 .. MaxTime + 1, NEW q, q = MV!Ask(k, i, e),
         mvAsked < MaxRequests, mvAsked' = mvAsked + 1, mvRequests' = mvRequests \cup {q},
         k \in {"delete", "extend"} => i # 0,
         k = "create" => ~submitting, k = "extend" => ~extending,
         submitting' = (submitting \/ k = "create"), extending' = (extending \/ k = "extend"),
         refreshing' \in BOOLEAN, refreshing' => refreshing \/ k = "load",
         confirmDeleteId' \in 0 .. MaxWindows,
         UNCHANGED <<now, ends, created, windows, loading, told, mvOutdated>>
  PROVE  WindowsInv'
<1> MV!TypeOK /\ OneOfAKind /\ WindowsAreComing /\ WindowsAreRead /\ MV!ViewIsFreed
  BY DEF WindowsInv
<1>1. /\ mvAsked' \in 0 .. MaxRequests /\ mvRequests' \subseteq MV!Request
      /\ q.kind = k /\ q.id = i /\ ~q.handled
  BY WindowAsked
<1>2. MV!TypeOK'
  <2>1. {loading, refreshing, submitting, extending}' \subseteq BOOLEAN
    BY DEF MV!TypeOK
  <2> QED
    BY <1>1, <2>1 DEF MV!TypeOK
<1>3. OneOfAKind'
  BY <1>1 DEF OneOfAKind, IsCreation, MV!ViewIsFreed
<1>4. WindowsAreComing' /\ WindowsAreRead'
  BY <1>1 DEF WindowsAreComing, WindowsAgree, WindowsAreRead
<1>5. MV!ViewIsFreed'
  BY <1>1 DEF MV!ViewIsFreed
<1> QED
  BY <1>2, <1>3, <1>4, <1>5 DEF WindowsInv

LEMMA ViewAsksKeep ==
  ASSUME WindowsInv,
         \/ \E isManual \in BOOLEAN : MV!load(isManual)
         \/ MV!handleCreate \/ MV!Confirm \/ \E i \in MV!Ids : MV!handleExtend(i)
  PROVE  WindowsInv'
<1> MV!TypeOK /\ 0 \in 0 .. MaxTime + 1 /\ 0 \in 0 .. MaxWindows
  BY BoundsFit DEF WindowsInv
<1> confirmDeleteId \in 0 .. MaxWindows /\ {loading, refreshing, submitting, extending} \subseteq BOOLEAN
  BY DEF MV!TypeOK
<1> USE DEF MV!store, MV!past, MV!Send
<1>1. ASSUME NEW isManual \in BOOLEAN, MV!load(isManual) PROVE WindowsInv'
  <2> PICK q : q = MV!Ask("load", 0, 0)
    OBVIOUS
  <2> QED
    BY <1>1, AskKeeps DEF MV!load
<1>2. CASE MV!handleCreate
  <2> PICK q : q = MV!Ask("create", 0, 0)
    OBVIOUS
  <2> QED
    BY <1>2, AskKeeps DEF MV!handleCreate
<1>3. CASE MV!Confirm
  <2> PICK q : q = MV!Ask("delete", confirmDeleteId, 0)
    OBVIOUS
  <2> QED
    BY <1>3, AskKeeps DEF MV!Confirm
<1>4. ASSUME NEW i \in MV!Ids, MV!handleExtend(i) PROVE WindowsInv'
  <2> PICK q : q = MV!Ask("extend", i, windows[i] + 1)
    OBVIOUS
  <2>1. i \in 0 .. MaxWindows /\ i # 0
    BY BoundsFit DEF MV!Ids
  <2>2. windows[i] + 1 \in 0 .. MaxTime + 1
    BY <1>4, BoundsFit DEF MV!handleExtend, MV!TypeOK, MV!Ends
  <2> QED
    BY <1>4, <2>1, <2>2, AskKeeps DEF MV!handleExtend
<1> QED
  BY <1>1, <1>2, <1>3, <1>4

(* The handlers leave a request to be answered.                             *)
LEMMA HandledKeeps ==
  ASSUME WindowsInv, NEW r \in mvRequests, NEW q \in MV!Request, q.kind = r.kind, q.id = r.id, q.handled,
         r.kind \in {"load", "reload"} => q.answer # MV!NotRead,
         mvRequests' = (mvRequests \ {r}) \cup {q},
         ends' = ends \/ r.kind \in {"create", "delete"}, ends' \in MV!Ends, created' \in 0 .. MaxWindows,
         UNCHANGED <<now, windows, loading, refreshing, submitting, extending, confirmDeleteId, mvAsked,
                     told, mvOutdated>>
  PROVE  WindowsInv'
<1> MV!TypeOK /\ OneOfAKind /\ WindowsAreComing /\ WindowsAreRead /\ MV!ViewIsFreed
  BY DEF WindowsInv
<1>1. MV!TypeOK'
  <2>1. {loading, refreshing, submitting, extending}' \subseteq BOOLEAN
    BY DEF MV!TypeOK
  <2> QED
    BY <2>1 DEF MV!TypeOK
<1>2. OneOfAKind'
  <2> SUFFICES ASSUME NEW x \in mvRequests', NEW y \in mvRequests',
                      (IsCreation(x) /\ IsCreation(y)) \/ (x.kind = "extend" /\ y.kind = "extend")
               PROVE  x = y
    BY DEF OneOfAKind
  <2>1. (x = q \/ (x \in mvRequests /\ x # r)) /\ (y = q \/ (y \in mvRequests /\ y # r))
    OBVIOUS
  <2> QED
    BY <2>1 DEF OneOfAKind, IsCreation
<1>3. WindowsAreComing'
  <2>1. CASE ends' = ends
    BY <2>1 DEF WindowsAreComing, WindowsAgree
  <2>2. CASE r.kind \in {"create", "delete"}
    BY <2>2 DEF WindowsAreComing
  <2> QED
    BY <2>1, <2>2
<1>4. WindowsAreRead'
  BY DEF WindowsAreRead
<1>5. MV!ViewIsFreed'
  <2>1. \A what : (\E x \in mvRequests' : x.kind = what) <=> (\E x \in mvRequests : x.kind = what)
    OBVIOUS
  <2>2. (\E x \in mvRequests' : x.kind \in {"create", "reload"}) <=>
        (\E x \in mvRequests : x.kind \in {"create", "reload"})
    OBVIOUS
  <2> QED
    BY <2>1, <2>2 DEF MV!ViewIsFreed
<1> QED
  BY <1>1, <1>2, <1>3, <1>4, <1>5 DEF WindowsInv

LEMMA HandlersKeep ==
  ASSUME WindowsInv, NEW r \in mvRequests,
         \/ MV!List(r) \/ MV!handleMaintenanceUpdate(r) \/ MV!handleMaintenanceDelete(r)
         \/ \E end \in 1 .. MaxTime : MV!handleMaintenanceCreate(r, end)
  PROVE  WindowsInv'
<1> MV!TypeOK /\ r \in MV!Request /\ ends \in MV!Ends /\ now \in Nat
  BY BoundsFit DEF WindowsInv, MV!TypeOK
<1> USE DEF MV!view, MV!store, MV!past, MV!Handled
<1>1. /\ [r EXCEPT !.handled = TRUE] \in MV!Request /\ [r EXCEPT !.handled = TRUE].kind = r.kind
      /\ [r EXCEPT !.handled = TRUE].handled /\ [r EXCEPT !.handled = TRUE].id = r.id
  BY DEF MV!Request
<1> PICK q : q = [r EXCEPT !.handled = TRUE]
  OBVIOUS
<1>2. CASE MV!List(r)
  <2> DEFINE list == [i \in MV!Ids |-> IF ends[i] > now THEN ends[i] ELSE 0]
  <2>1. list \in MV!Ends
    BY BoundsFit DEF MV!Ends
  <2> PICK a : a = [r EXCEPT !.handled = TRUE, !.answer = <<list>>]
    OBVIOUS
  <2>2. /\ a \in MV!Request /\ a.kind = r.kind /\ a.id = r.id /\ a.handled /\ a.answer # MV!NotRead
    BY <2>1 DEF MV!Request, MV!NotRead
  <2>3. mvRequests' = (mvRequests \ {r}) \cup {a}
    BY <1>2 DEF MV!List
  <2> HIDE DEF list
  <2> QED
    BY <1>2, <2>2, <2>3, HandledKeeps DEF MV!List, MV!TypeOK
<1>3. CASE MV!handleMaintenanceUpdate(r)
  BY <1>1, <1>3, HandledKeeps DEF MV!handleMaintenanceUpdate, MV!Update, MV!TypeOK
<1>4. CASE MV!handleMaintenanceDelete(r)
  <2> 0 \in 0 .. MaxTime + 1
    BY BoundsFit
  <2>1. [ends EXCEPT ![r.id] = 0] \in MV!Ends
    BY DEF MV!Ends
  <2> QED
    BY <1>1, <1>4, <2>1, HandledKeeps DEF MV!handleMaintenanceDelete, MV!TypeOK
<1>5. ASSUME NEW end \in 1 .. MaxTime, MV!handleMaintenanceCreate(r, end)
      PROVE  WindowsInv'
  <2>1. created + 1 \in 0 .. MaxWindows
    BY <1>5, BoundsFit DEF MV!handleMaintenanceCreate, MV!TypeOK
  <2> end \in 0 .. MaxTime + 1
    BY BoundsFit
  <2>2. [ends EXCEPT ![created + 1] = end] \in MV!Ends
    BY DEF MV!Ends
  <2> QED
    BY <1>1, <1>5, <2>1, <2>2, HandledKeeps DEF MV!handleMaintenanceCreate
<1> QED
  BY <1>2, <1>3, <1>4, <1>5

LEMMA ClockKeeps ==
  ASSUME WindowsInv, MV!Tick
  PROVE  WindowsInv'
<1> MV!TypeOK /\ WindowsAreComing /\ now \in Nat /\ ends \in MV!Ends /\ windows \in MV!Ends
  BY BoundsFit DEF WindowsInv, MV!TypeOK
<1>1. /\ now' = now + 1 /\ now' \in 0 .. MaxTime
      /\ ends' = [i \in MV!Ids |-> IF ends[i] > now' THEN ends[i] ELSE 0]
      /\ UNCHANGED <<created, windows, loading, refreshing, submitting, extending, confirmDeleteId,
                     mvRequests, mvAsked, told, mvOutdated>>
  BY BoundsFit DEF MV!Tick, MV!view, MV!past
<1>2. ends' \in MV!Ends
  BY <1>1, BoundsFit DEF MV!Ends
<1>3. MV!TypeOK'
  <2>1. {loading, refreshing, submitting, extending}' \subseteq BOOLEAN
    BY <1>1 DEF MV!TypeOK
  <2> QED
    BY <1>1, <1>2, <2>1 DEF MV!TypeOK
<1>4. WindowsAgree => WindowsAgree'
  BY <1>1, BoundsFit DEF WindowsAgree, MV!Ends
<1> QED
  BY <1>1, <1>3, <1>4
  DEF WindowsInv, OneOfAKind, IsCreation, WindowsAreComing, WindowsAreRead, MV!ViewIsFreed

LEMMA ConfirmationKeeps ==
  ASSUME WindowsInv, MV!Cancel \/ \E i \in MV!Ids : MV!EndNow(i)
  PROVE  WindowsInv'
<1> MV!TypeOK
  BY DEF WindowsInv
<1>1. /\ UNCHANGED <<now, ends, created, windows, loading, refreshing, submitting, extending,
                     mvRequests, mvAsked, told, mvOutdated>>
      /\ confirmDeleteId' \in 0 .. MaxWindows
  BY BoundsFit DEF MV!Cancel, MV!EndNow, MV!store, MV!past, MV!Ids
<1>2. MV!TypeOK'
  <2>1. {loading, refreshing, submitting, extending}' \subseteq BOOLEAN
    BY <1>1 DEF MV!TypeOK
  <2> QED
    BY <1>1, <2>1 DEF MV!TypeOK
<1> QED
  BY <1>1, <1>2
  DEF WindowsInv, OneOfAKind, IsCreation, WindowsAreComing, WindowsAgree, WindowsAreRead, MV!ViewIsFreed

(* A list is answered, or is not.                                           *)
LEMMA ListsKeep ==
  ASSUME WindowsInv, NEW r \in mvRequests, MV!ListAnswered(r) \/ MV!ListFailed(r)
  PROVE  WindowsInv'
<1> MV!TypeOK /\ OneOfAKind /\ WindowsAreRead /\ MV!ViewIsFreed /\ r \in MV!Request
  BY DEF WindowsInv, MV!TypeOK
<1> PICK list : list = IF MV!ListAnswered(r) THEN r.answer[1] ELSE MV!NoWindow
  OBVIOUS
<1>1. /\ r.kind \in {"load", "reload"} /\ mvRequests' = mvRequests \ {r}
      /\ windows' = list /\ told' = {} /\ loading' = FALSE /\ refreshing' = FALSE
      /\ submitting' = (submitting /\ r.kind # "reload")
      /\ mvOutdated' \in BOOLEAN
      /\ ~mvOutdated' => \A i \in MV!Ids : list[i] = ends[i]
      /\ UNCHANGED <<extending, confirmDeleteId, now, ends, created, mvAsked>>
  BY DEF MV!ListAnswered, MV!ListFailed, MV!Loaded, MV!store
<1>2. list \in MV!Ends
  <2>1. CASE MV!ListAnswered(r)
    BY <2>1 DEF MV!ListAnswered, WindowsAreRead, MV!Request, MV!NotRead
  <2>2. CASE ~MV!ListAnswered(r)
    <3> 0 \in 0 .. MaxTime + 1
      BY BoundsFit
    <3> QED
      BY <2>2 DEF MV!NoWindow, MV!Ends
  <2> QED
    BY <2>1, <2>2
<1>3. MV!TypeOK'
  <2>1. {loading, refreshing, submitting, extending}' \subseteq BOOLEAN
    BY <1>1 DEF MV!TypeOK
  <2> QED
    BY <1>1, <1>2, <2>1 DEF MV!TypeOK
<1>4. OneOfAKind' /\ WindowsAreRead'
  BY <1>1 DEF OneOfAKind, IsCreation, WindowsAreRead
<1>5. WindowsAreComing'
  BY <1>1 DEF WindowsAreComing, WindowsAgree
<1>6. MV!ViewIsFreed'
  BY <1>1 DEF MV!ViewIsFreed, OneOfAKind, IsCreation
<1> QED
  BY <1>3, <1>4, <1>5, <1>6 DEF WindowsInv

(* A creation and a removal are followed by a list.                         *)
LEMMA ReloadsKeep ==
  ASSUME WindowsInv, NEW r \in mvRequests, MV!Created(r) \/ MV!Deleted(r)
  PROVE  WindowsInv'
<1> MV!TypeOK /\ OneOfAKind /\ WindowsAreRead /\ MV!ViewIsFreed
  BY DEF WindowsInv
<1> 0 \in 0 .. MaxTime + 1 /\ 0 \in 0 .. MaxWindows
  BY BoundsFit
<1> PICK k \in {"load", "reload"} : k = IF r.kind = "create" THEN "reload" ELSE "load"
  OBVIOUS
<1> PICK q : q = MV!Ask(k, 0, 0)
  OBVIOUS
<1>1. /\ r.kind = IF k = "reload" THEN "create" ELSE "delete"
      /\ mvAsked < MaxRequests /\ mvAsked' = mvAsked + 1 /\ mvRequests' = (mvRequests \ {r}) \cup {q}
      /\ UNCHANGED <<windows, loading, refreshing, submitting, extending, confirmDeleteId, now, ends,
                     created, told, mvOutdated>>
  BY DEF MV!Created, MV!Deleted, MV!view, MV!store, MV!past
<1>2. mvAsked' \in 0 .. MaxRequests /\ mvRequests' \subseteq MV!Request /\ q.kind = k /\ ~q.handled
  <2>1. PICK open \in SUBSET mvRequests : open = mvRequests \ {r}
    OBVIOUS
  <2>2. k \in {"load", "create", "reload", "delete", "extend"} /\ mvRequests' = open \cup {q}
    BY <1>1, <2>1
  <2> QED
    BY <1>1, <2>2, WindowAsked
<1>3. MV!TypeOK'
  <2>1. {loading, refreshing, submitting, extending}' \subseteq BOOLEAN
    BY <1>1 DEF MV!TypeOK
  <2> QED
    BY <1>1, <1>2, <2>1 DEF MV!TypeOK
<1>4. OneOfAKind'
  BY <1>1, <1>2 DEF OneOfAKind, IsCreation
<1>5. WindowsAreComing' /\ WindowsAreRead'
  BY <1>1, <1>2 DEF WindowsAreComing, WindowsAreRead
<1>6. MV!ViewIsFreed'
  BY <1>1, <1>2 DEF MV!ViewIsFreed
<1> QED
  BY <1>3, <1>4, <1>5, <1>6 DEF WindowsInv

LEMMA ExtendedKeeps ==
  ASSUME WindowsInv, NEW r \in mvRequests, MV!Extended(r) \/ MV!ChangeFailed(r)
  PROVE  WindowsInv'
<1> /\ MV!TypeOK /\ OneOfAKind /\ WindowsAreComing /\ WindowsAreRead /\ MV!ViewIsFreed
    /\ r \in MV!Request
  BY DEF WindowsInv, MV!TypeOK
<1>1. /\ r.kind \in {"create", "delete", "extend"} /\ mvRequests' = mvRequests \ {r}
      /\ submitting' = (submitting /\ r.kind # "create")
      /\ extending' = (extending /\ r.kind # "extend")
      /\ UNCHANGED <<loading, refreshing, confirmDeleteId, now, ends, created, mvAsked>>
  BY DEF MV!Extended, MV!ChangeFailed, MV!store, MV!TypeOK
<1>2. /\ windows' \in MV!Ends /\ told \subseteq told' /\ told' \subseteq MV!Ids /\ mvOutdated' \in BOOLEAN
      /\ \A i \in MV!Ids \ told' : windows'[i] = windows[i]
  <2>1. CASE MV!Extended(r)
    <3>1. r.id \in MV!Ids /\ r.end \in 0 .. MaxTime + 1
      BY <2>1, BoundsFit DEF MV!Extended, WindowsAreRead, MV!Request, MV!Ids
    <3> QED
      BY <2>1, <3>1 DEF MV!Extended, MV!TypeOK, MV!Ends
  <2>2. CASE MV!ChangeFailed(r)
    BY <2>2 DEF MV!ChangeFailed, MV!TypeOK, MV!Request
  <2> QED
    BY <2>1, <2>2
<1>3. MV!TypeOK'
  <2>1. {loading, refreshing, submitting, extending}' \subseteq BOOLEAN
    BY <1>1 DEF MV!TypeOK
  <2> QED
    BY <1>1, <1>2, <2>1 DEF MV!TypeOK
<1>4. OneOfAKind' /\ WindowsAreRead'
  BY <1>1 DEF OneOfAKind, IsCreation, WindowsAreRead
<1>5. WindowsAreComing'
  <2>1. WindowsAgree => WindowsAgree'
    BY <1>1, <1>2 DEF WindowsAgree
  <2>2. mvOutdated => mvOutdated'
    BY DEF MV!Extended, MV!ChangeFailed
  <2>3. r.handled /\ r.kind \in {"create", "delete"} => mvOutdated'
    BY DEF MV!Extended, MV!ChangeFailed
  <2> QED
    BY <1>1, <2>1, <2>2, <2>3 DEF WindowsAreComing
<1>6. MV!ViewIsFreed'
  BY <1>1 DEF MV!ViewIsFreed, OneOfAKind, IsCreation
<1> QED
  BY <1>3, <1>4, <1>5, <1>6 DEF WindowsInv

LEMMA WindowsKept ==
  ASSUME WindowsInv, [MV!Next]_(MV!vars)
  PROVE  WindowsInv'
<1>1. CASE UNCHANGED MV!vars
  <2>1. UNCHANGED <<now, ends, created, windows, loading, refreshing, submitting, extending,
                    confirmDeleteId, mvRequests, mvAsked, told, mvOutdated>>
    BY <1>1 DEF MV!vars, MV!view, MV!store, MV!past
  <2> QED
    BY <2>1 DEF WindowsInv, MV!TypeOK, OneOfAKind, IsCreation, WindowsAreComing, WindowsAgree,
       WindowsAreRead, MV!ViewIsFreed
<1> QED
  BY <1>1, ViewAsksKeep, HandlersKeep, ClockKeeps, ConfirmationKeeps, ListsKeep, ReloadsKeep,
     ExtendedKeeps DEF MV!Next

LEMMA WindowsShown == WindowsInv => MV!ListIsInForce /\ MV!ViewIsFreed
  BY DEF WindowsInv, WindowsAreComing, WindowsAgree, MV!ListIsInForce

-----------------------------------------------------------------------------
(* Steps of the alert panel                                                 *)

(* What is said of the stores alone.                                        *)
StoresInv ==
    /\ apKind \in {"ack", "snooze"}
    /\ store \subseteq AP!Entry /\ made \in 0 .. MaxEntries

LEMMA EntryIs ==
  ASSUME store \subseteq AP!Entry, NEW e \in store
  PROVE  e = [id |-> e.id, key |-> e.key] /\ e.id \in 1 .. MaxEntries /\ e.key \in Keys
  BY DEF AP!Entry

LEMMA AddKeeps ==
  ASSUME StoresInv, NEW k \in Keys, AP!Add(k)
  PROVE  StoresInv'
<1>1. /\ made + 1 \in 1 .. MaxEntries /\ made' = made + 1 /\ apKind' = apKind
      /\ store' = store \cup {[id |-> made + 1, key |-> k]}
  BY BoundsFit DEF AP!Add, StoresInv
<1>2. [id |-> made + 1, key |-> k] \in AP!Entry
  BY <1>1 DEF AP!Entry
<1>3. made + 1 \in 0 .. MaxEntries
  BY <1>1, BoundsFit
<1> QED
  BY <1>1, <1>2, <1>3 DEF StoresInv

LEMMA RemovalsKeep ==
  ASSUME StoresInv, (\E e \in store : AP!Delete(e)) \/ \E k \in Keys : AP!ClearForDedupKey(k)
  PROVE  StoresInv'
  BY DEF AP!Delete, AP!ClearForDedupKey, StoresInv

(* What a list shows, in whatever order.                                    *)
LEMMA OrdersShow ==
  ASSUME store \subseteq AP!Entry, NEW f \in AP!Orders
  PROVE  f \in AP!Found /\ ShowsStore(f)
<1>1. f \in AP!Found
  BY DEF AP!Orders
<1>2. ASSUME NEW k \in Keys PROVE (f[k] # AP!None) = (AP!Of(k) # {})
  <2>1. CASE AP!Of(k) = {}
    BY <2>1 DEF AP!Orders
  <2>2. CASE AP!Of(k) # {}
    <3>1. PICK e \in AP!Of(k) : f[k] = e.id
      BY <2>2 DEF AP!Orders
    <3>2. e \in store
      BY DEF AP!Of
    <3> QED
      BY <2>2, <3>1, <3>2, EntryIs DEF AP!None
  <2> QED
    BY <2>1, <2>2
<1> QED
  BY <1>1, <1>2 DEF ShowsStore

LEMMA PanelStart == AP!Init => PanelInv
<1> SUFFICES ASSUME AP!Init PROVE PanelInv
  OBVIOUS
<1> 0 \in 0 .. MaxEntries /\ 0 \in 0 .. MaxRequests
  BY BoundsFit
<1>1. AP!Nowhere \in AP!Found /\ \A k \in Keys : AP!Nowhere[k] = AP!None
  BY DEF AP!Nowhere, AP!Found, AP!None
<1>2. AP!TypeOK
  BY <1>1 DEF AP!Init, AP!TypeOK
<1>3. \A k \in Keys : AP!Of(k) = {}
  BY DEF AP!Init, AP!Of
<1> QED
  BY <1>1, <1>2, <1>3
  DEF AP!Init, PanelInv, PanelNumbers, NewestListIsRight

(* The lists under way, the newest of them, and the one that is shown.      *)
ListsAreRight ==
    /\ \A r \in reloads : r.seen # AP!NotRead =>
          \/ ShowsStore(r.seen) \/ applied > r.nr
          \/ \E s \in reloads : s.nr > r.nr
    /\ ShowsStore(found) \/ \E r \in reloads : r.nr > applied

(* The conjuncts of PanelInv one by one.                                    *)
LEMMA PanelParts ==
  PanelInv <=>
    /\ StoresInv
    /\ alert \in Keys \cup {AP!Closed} /\ found \in AP!Found /\ applied \in 0 .. MaxRequests
    /\ reloads \subseteq [nr : 1 .. MaxRequests, seen : {AP!NotRead} \cup AP!Found]
    /\ changes \subseteq AP!Change /\ apAsked \in 0 .. MaxRequests /\ apOutdated \in BOOLEAN
    /\ PanelNumbers /\ NewestListIsRight
  BY DEF PanelInv, StoresInv, AP!TypeOK

LEMMA NumbersFit ==
  ASSUME PanelInv
  PROVE  /\ apAsked \in Nat /\ applied \in Nat /\ applied <= apAsked
         /\ \A r \in reloads : r.nr \in Nat /\ r.nr <= apAsked
<1>1. apAsked \in Nat /\ applied \in Nat
  BY BoundsFit DEF PanelInv, AP!TypeOK
<1>2. ASSUME NEW r \in reloads PROVE r.nr \in Nat
  <2>1. r.nr \in 1 .. MaxRequests
    BY DEF PanelInv, AP!TypeOK
  <2> QED
    BY <2>1
<1>3. applied <= apAsked /\ \A r \in reloads : r.nr <= apAsked
  BY DEF PanelInv, PanelNumbers
<1> QED
  BY <1>1, <1>2, <1>3

(* A list is asked for: what is shown will be right.                        *)
LEMMA SendReloadKeeps ==
  ASSUME PanelInv, NEW open \in SUBSET reloads, AP!SendReload(open),
         applied' \in 0 .. MaxRequests, applied' <= apAsked
  PROVE  /\ reloads' \subseteq [nr : 1 .. MaxRequests, seen : {AP!NotRead} \cup AP!Found]
         /\ apAsked' \in 0 .. MaxRequests /\ apOutdated' = FALSE
         /\ applied' <= apAsked' /\ \A r \in reloads' : r.nr <= apAsked'
         /\ ListsAreRight'
<1> PICK new : new = [nr |-> apAsked + 1, seen |-> AP!NotRead]
  OBVIOUS
<1>1. /\ apAsked \in Nat /\ apAsked' = apAsked + 1 /\ apAsked' \in 1 .. MaxRequests
      /\ reloads' = open \cup {new} /\ apOutdated' = FALSE
  BY BoundsFit DEF AP!SendReload, PanelInv, AP!TypeOK
<1>2. /\ new \in [nr : 1 .. MaxRequests, seen : {AP!NotRead} \cup AP!Found]
      /\ new.nr = apAsked + 1 /\ new.seen = AP!NotRead
  BY <1>1
<1>3. ASSUME NEW r \in open
      PROVE  /\ r \in [nr : 1 .. MaxRequests, seen : {AP!NotRead} \cup AP!Found]
             /\ r.nr \in Nat /\ r.nr <= apAsked
  <2>1. r \in [nr : 1 .. MaxRequests, seen : {AP!NotRead} \cup AP!Found]
    BY DEF PanelInv, AP!TypeOK
  <2> QED
    BY <2>1, NumbersFit
<1>4. ListsAreRight'
  BY <1>1, <1>2, <1>3 DEF ListsAreRight
<1> QED
  BY <1>1, <1>2, <1>3, <1>4

(* What leaves the lists and the stores alone.                              *)
LEMMA ListsRest ==
  ASSUME UNCHANGED <<store, found, applied, reloads>>
  PROVE  ListsAreRight' = ListsAreRight
  BY DEF ListsAreRight, ShowsStore, AP!Of

LEMMA OpenKeeps ==
  ASSUME PanelInv, NEW k \in Keys, AP!Open(k)
  PROVE  PanelInv'
<1>1. /\ alert' = k /\ found' = AP!Nowhere /\ applied' = 0 /\ AP!SendReload({})
      /\ UNCHANGED <<apKind, store, made, changes>>
  BY DEF AP!Open, AP!stores
<1>2. 0 \in 0 .. MaxRequests /\ 0 <= apAsked /\ AP!Nowhere \in AP!Found
  BY BoundsFit DEF PanelInv, AP!TypeOK, AP!Nowhere, AP!Found, AP!None
<1>3. {} \in SUBSET reloads
  OBVIOUS
<1>4. /\ reloads' \subseteq [nr : 1 .. MaxRequests, seen : {AP!NotRead} \cup AP!Found]
      /\ apAsked' \in 0 .. MaxRequests /\ apOutdated' = FALSE
      /\ applied' <= apAsked' /\ \A r \in reloads' : r.nr <= apAsked'
      /\ ListsAreRight'
  BY <1>1, <1>2, <1>3, SendReloadKeeps
<1>5. StoresInv'
  BY <1>1 DEF PanelInv, AP!TypeOK, StoresInv
<1>6. PanelNumbers' /\ NewestListIsRight'
  BY <1>1, <1>4 DEF PanelInv, PanelNumbers, NewestListIsRight, ListsAreRight
<1> QED
  BY <1>1, <1>2, <1>4, <1>5, <1>6 DEF PanelInv, StoresInv, AP!TypeOK

LEMMA ChangedKeeps ==
  ASSUME PanelInv, NEW c \in changes, AP!Changed(c)
  PROVE  PanelInv'
<1>1. /\ changes' = changes \ {c} /\ AP!SendReload(reloads)
      /\ UNCHANGED <<apKind, store, made, alert, found, applied>>
  BY DEF AP!Changed, AP!stores, AP!panel
<1>2. /\ reloads' \subseteq [nr : 1 .. MaxRequests, seen : {AP!NotRead} \cup AP!Found]
      /\ apAsked' \in 0 .. MaxRequests /\ apOutdated' = FALSE
      /\ applied' <= apAsked' /\ \A r \in reloads' : r.nr <= apAsked'
      /\ ListsAreRight'
  <2>1. applied' \in 0 .. MaxRequests /\ applied' <= apAsked
    BY <1>1 DEF PanelInv, AP!TypeOK, PanelNumbers
  <2>2. reloads \in SUBSET reloads
    OBVIOUS
  <2> QED
    BY <1>1, <2>1, <2>2, SendReloadKeeps
<1>3. StoresInv'
  BY <1>1 DEF PanelInv, AP!TypeOK, StoresInv
<1>4. PanelNumbers' /\ NewestListIsRight'
  BY <1>1, <1>2 DEF PanelInv, PanelNumbers, NewestListIsRight, ListsAreRight
<1> QED
  BY <1>1, <1>2, <1>3, <1>4 DEF PanelInv, StoresInv, AP!TypeOK

(* The view turns to another alert, or to none.                             *)
LEMMA PanelTurnsKeep ==
  ASSUME PanelInv, AP!Close \/ \E k \in Keys : AP!Switch(k)
  PROVE  PanelInv'
<1>1. /\ UNCHANGED <<apKind, store, made, found, applied, apAsked, apOutdated>>
      /\ alert' \in Keys \cup {AP!Closed} /\ reloads' \subseteq reloads
      /\ alert' = AP!Closed \/ (alert # AP!Closed /\ reloads' = reloads /\ changes' = changes)
  BY DEF AP!Close, AP!Switch, AP!stores, AP!requests
<1>2. changes' \subseteq AP!Change /\ \A c \in changes' : c.answer # "" => c.waited
  <2>1. CASE AP!Close
    BY <2>1 DEF AP!Close, PanelInv, AP!TypeOK, AP!Change
  <2>2. CASE ~AP!Close
    BY <2>2 DEF AP!Switch, AP!requests, PanelInv, PanelNumbers, AP!TypeOK
  <2> QED
    BY <2>1, <2>2
<1>3. StoresInv'
  BY <1>1 DEF PanelInv, AP!TypeOK, StoresInv
<1>4. AP!TypeOK' /\ PanelNumbers'
  BY <1>1, <1>2 DEF PanelInv, AP!TypeOK, PanelNumbers
<1>5. NewestListIsRight'
  BY <1>1 DEF PanelInv, NewestListIsRight, ListDue, ShowsStore, AP!Of
<1> QED
  BY <1>3, <1>4, <1>5 DEF PanelInv, StoresInv

LEMMA AskedKeeps ==
  ASSUME PanelInv, AP!Ask
  PROVE  PanelInv'
<1>1. /\ alert # AP!Closed /\ apAsked < MaxRequests
  BY DEF AP!Ask
<1>2. apAsked \in Nat /\ apAsked + 1 \in 1 .. MaxRequests /\ apAsked + 1 \in 0 .. MaxRequests
  BY <1>1, NumbersFit, BoundsFit
<1>3. applied <= apAsked + 1 /\ \A r \in reloads : r.nr <= apAsked + 1
  BY <1>2, NumbersFit
<1> PICK c : c = [ nr |-> apAsked + 1, op |-> IF found[alert] = AP!None THEN "create" ELSE "delete",
                   key |-> alert, id |-> found[alert], answer |-> "", waited |-> TRUE ]
  OBVIOUS
<1>4. /\ alert # AP!Closed /\ apAsked' = apAsked + 1 /\ changes' = changes \cup {c}
      /\ UNCHANGED <<apKind, store, made, alert, found, applied, reloads, apOutdated>>
  BY DEF AP!Ask, AP!stores, AP!panel
<1>5. c \in AP!Change /\ c.answer = "" /\ c.waited
  <2>1. alert \in Keys /\ found[alert] \in 0 .. MaxEntries
    BY <1>4 DEF PanelInv, AP!TypeOK, AP!Found
  <2> QED
    BY <1>2, <2>1 DEF AP!Change
<1>6. StoresInv'
  BY <1>4 DEF PanelInv, AP!TypeOK, StoresInv
<1>7. AP!TypeOK'
  BY <1>4, <1>2, <1>5 DEF PanelInv, AP!TypeOK
<1>8. PanelNumbers'
  BY <1>4, <1>5, <1>3 DEF PanelInv, PanelNumbers
<1>9. NewestListIsRight'
  BY <1>4 DEF PanelInv, NewestListIsRight, ListDue, ShowsStore, AP!Of
<1> QED
  BY <1>6, <1>7, <1>8, <1>9 DEF PanelInv, StoresInv

(* What the panel is not told of.                                           *)
LEMMA OthersKeep ==
  ASSUME PanelInv, AP!ChangeElsewhere \/ \E k \in Keys : AP!ClearForDedupKey(k)
  PROVE  PanelInv'
<1> StoresInv
  BY PanelParts
<1>1. StoresInv'
  BY AddKeeps, RemovalsKeep DEF AP!ChangeElsewhere
<1>2. UNCHANGED <<alert, found, applied, reloads, changes, apAsked>>
  BY DEF AP!ChangeElsewhere, AP!ClearForDedupKey, AP!panel, AP!requests
<1>3. apOutdated' = TRUE \/ (UNCHANGED <<store, apOutdated>>)
  BY DEF AP!ChangeElsewhere, AP!ClearForDedupKey
<1>4. NewestListIsRight'
  BY <1>2, <1>3 DEF PanelInv, NewestListIsRight, ListDue, ShowsStore, AP!Of
<1> QED
  BY <1>1, <1>2, <1>3, <1>4 DEF PanelInv, StoresInv, AP!TypeOK, PanelNumbers

LEMMA ReadKeeps ==
  ASSUME PanelInv, NEW r \in reloads, AP!Read(r)
  PROVE  PanelInv'
<1> PICK f \in AP!Orders : reloads' = (reloads \ {r}) \cup {[r EXCEPT !.seen = f]}
  BY DEF AP!Read
<1> PICK new : new = [r EXCEPT !.seen = f]
  OBVIOUS
<1>1. /\ r.seen = AP!NotRead /\ reloads' = (reloads \ {r}) \cup {new}
      /\ UNCHANGED <<apKind, store, made, alert, found, applied, changes, apAsked,
                     apOutdated>>
  BY DEF AP!Read, AP!stores, AP!panel
<1>2. f \in AP!Found /\ ShowsStore(f)
  BY OrdersShow DEF PanelInv, AP!TypeOK
<1>3. /\ new \in [nr : 1 .. MaxRequests, seen : {AP!NotRead} \cup AP!Found]
      /\ new.nr = r.nr /\ new.seen = f
  BY <1>2 DEF PanelInv, AP!TypeOK
<1>4. \A g : ShowsStore(g)' = ShowsStore(g)
  BY <1>1 DEF ShowsStore, AP!Of
<1>5. StoresInv'
  BY <1>1 DEF PanelInv, AP!TypeOK, StoresInv
<1>6. AP!TypeOK' /\ PanelNumbers'
  BY <1>1, <1>3 DEF PanelInv, AP!TypeOK, PanelNumbers
<1>7. ListsAreRight => ListsAreRight'
  <2>1. \A n : (\E s \in reloads : s.nr > n) => \E s \in reloads' : s.nr > n
    BY <1>1, <1>3
  <2>2. ShowsStore(found)' = ShowsStore(found) /\ \A s \in reloads' : ShowsStore(s.seen)' <=> ShowsStore(s.seen)
    BY <1>1 DEF ShowsStore, AP!Of
  <2> QED
    BY <1>1, <1>2, <1>3, <2>1, <2>2 DEF ListsAreRight
<1>8. NewestListIsRight'
  BY <1>1, <1>7 DEF PanelInv, NewestListIsRight, ListsAreRight, ListDue
<1> QED
  BY <1>5, <1>6, <1>8 DEF PanelInv, StoresInv

(* A list is shown, also one that a newer one has overtaken.                *)
LEMMA ReloadedKeeps ==
  ASSUME PanelInv, NEW r \in reloads, AP!Reloaded(r) \/ AP!ReloadFails(r)
  PROVE  PanelInv'
<1>1. /\ reloads' = reloads \ {r}
      /\ UNCHANGED <<apKind, store, made, alert, changes, apAsked>>
  BY DEF AP!Reloaded, AP!ReloadFails, AP!stores, AP!panel
<1>2. StoresInv'
  BY <1>1 DEF PanelInv, AP!TypeOK, StoresInv
<1>3. CASE AP!ReloadFails(r)
  <2>1. apOutdated' = TRUE /\ UNCHANGED <<found, applied>>
    BY <1>3 DEF AP!ReloadFails, AP!panel
  <2> QED
    BY <1>1, <1>2, <2>1 DEF PanelInv, AP!TypeOK, StoresInv, PanelNumbers, NewestListIsRight
<1>4. CASE AP!Reloaded(r)
  <2>1. /\ r.seen # AP!NotRead /\ found' = r.seen
        /\ applied' = IF r.nr > applied THEN r.nr ELSE applied
        /\ apOutdated' = (apOutdated \/ r.nr < applied)
    BY <1>4 DEF AP!Reloaded
  <2>2. applied \in Nat /\ \A s \in reloads : s.nr \in Nat
    BY NumbersFit
  <2>3. /\ r \in [nr : 1 .. MaxRequests, seen : {AP!NotRead} \cup AP!Found]
        /\ apOutdated \in BOOLEAN
    BY DEF PanelInv, AP!TypeOK
  <2>4. found' \in AP!Found /\ applied' \in 0 .. MaxRequests /\ apOutdated' \in BOOLEAN
    BY <2>1, <2>3, BoundsFit DEF PanelInv, AP!TypeOK
  <2>5. AP!TypeOK' /\ PanelNumbers'
    BY <1>1, <2>1, <2>4 DEF PanelInv, AP!TypeOK, PanelNumbers
  <2>6. \A g : ShowsStore(g)' = ShowsStore(g)
    BY <1>1 DEF ShowsStore, AP!Of
  <2>7. ASSUME ListsAreRight, ~(r.nr < applied) PROVE ListsAreRight'
    <3>1. applied' = r.nr /\ applied' >= applied
      BY <2>1, <2>2, <2>7
    <3>2. \A s \in reloads' : s.seen # AP!NotRead =>
             \/ ShowsStore(s.seen) \/ applied' > s.nr
             \/ \E q \in reloads' : q.nr > s.nr
      <4> SUFFICES ASSUME NEW s \in reloads, s.seen # AP!NotRead, ~ShowsStore(s.seen), ~(applied' > s.nr)
                   PROVE  \E q \in reloads' : q.nr > s.nr
        BY <1>1
      <4>1. ~(applied > s.nr)
        BY <2>2, <3>1
      <4>2. PICK q \in reloads : q.nr > s.nr
        BY <2>7, <4>1 DEF ListsAreRight
      <4>3. q # r
        BY <3>1, <4>2
      <4> QED
        BY <1>1, <4>2, <4>3
    <3>3. ShowsStore(r.seen) \/ \E q \in reloads' : q.nr > applied'
      <4> SUFFICES ASSUME ~ShowsStore(r.seen) PROVE \E q \in reloads' : q.nr > applied'
        OBVIOUS
      <4>1. PICK q \in reloads : q.nr > r.nr
        BY <2>1, <2>2, <2>7 DEF ListsAreRight
      <4> QED
        BY <1>1, <2>2, <3>1, <4>1
    <3>4. ShowsStore(found)' <=> ShowsStore(r.seen)
      BY <1>1, <2>1 DEF ShowsStore, AP!Of
    <3>5. \A s \in reloads' : ShowsStore(s.seen)' <=> ShowsStore(s.seen)
      BY <1>1 DEF ShowsStore, AP!Of
    <3> QED
      BY <3>2, <3>3, <3>4, <3>5 DEF ListsAreRight
  <2>8. NewestListIsRight'
    BY <1>1, <2>1, <2>7 DEF PanelInv, NewestListIsRight, ListsAreRight, ListDue
  <2> QED
    BY <1>2, <2>5, <2>8 DEF PanelInv, StoresInv
<1> QED
  BY <1>3, <1>4

(* A change that is handled is answered, or nobody is told.                 *)
LEMMA ChangesKeep ==
  ASSUME PanelInv, NEW c \in changes, AP!Handle(c) \/ AP!ChangeFails(c)
  PROVE  PanelInv'
<1> StoresInv /\ c \in AP!Change
  BY PanelParts DEF PanelInv, AP!TypeOK
<1>1. UNCHANGED <<alert, found, applied, reloads, apAsked>>
  BY DEF AP!Handle, AP!ChangeFails, AP!panel
<1>2. ASSUME StoresInv', changes' \subseteq AP!Change, apOutdated' \in BOOLEAN,
             \A d \in changes' : d.answer # "" => d.waited,
             \/ apOutdated' \/ ListDue'
             \/ (ListDue => ListDue') /\ UNCHANGED store /\ (apOutdated => apOutdated')
      PROVE  PanelInv'
  <2>1. AP!TypeOK' /\ PanelNumbers'
    BY <1>1, <1>2 DEF PanelInv, AP!TypeOK, StoresInv, PanelNumbers
  <2>2. NewestListIsRight'
    <3>1. CASE UNCHANGED store
      BY <1>1, <1>2, <3>1 DEF PanelInv, NewestListIsRight, ShowsStore, AP!Of
    <3>2. CASE apOutdated' \/ ListDue'
      BY <3>2 DEF NewestListIsRight
    <3> QED
      BY <1>2, <3>1, <3>2
  <2> QED
    BY <1>2, <2>1, <2>2 DEF PanelInv, StoresInv
<1>3. \A d \in changes : d \in AP!Change /\ (d.answer # "" => d.waited)
  BY DEF PanelInv, PanelNumbers, AP!TypeOK
<1>4. CASE AP!ChangeFails(c)
  <2>1. UNCHANGED <<apKind, store, made>>
    BY <1>4 DEF AP!ChangeFails, AP!stores
  <2>2. StoresInv'
    BY <2>1 DEF StoresInv
  <2>3. apOutdated' = (apOutdated \/ c.answer = "ok") /\ apOutdated' \in BOOLEAN
    BY <1>4 DEF AP!ChangeFails
  <2> PICK new : new = [c EXCEPT !.waited = FALSE]
    OBVIOUS
  <2>4. new \in AP!Change /\ new.answer = c.answer
    BY DEF AP!Change
  <2>5. \/ changes' = changes \ {c}
        \/ c.answer = "" /\ changes' = (changes \ {c}) \cup {new}
    BY <1>4 DEF AP!ChangeFails
  <2>6. changes' \subseteq AP!Change /\ \A d \in changes' : d.answer # "" => d.waited
    BY <1>3, <2>4, <2>5
  <2>7. apOutdated' \/ (ListDue => ListDue')
    BY <2>3, <2>5 DEF ListDue
  <2> QED
    BY <1>2, <2>1, <2>2, <2>3, <2>6, <2>7
<1>5. CASE AP!Handle(c)
  <2>1. c.answer = "" /\ apOutdated' = (apOutdated \/ ~c.waited)
    BY <1>5 DEF AP!Handle
  <2>2. apOutdated' \in BOOLEAN
    BY <2>1 DEF PanelInv, AP!TypeOK, AP!Change
  <2>3. ASSUME NEW a \in {"ok", "refused"}, AP!Answer(c, a)
        PROVE  /\ changes' \subseteq AP!Change /\ \A d \in changes' : d.answer # "" => d.waited
               /\ a = "ok" /\ c.waited => ListDue'
               /\ ListDue => ListDue'
    <3> PICK new : new = [c EXCEPT !.answer = a]
      OBVIOUS
    <3>1. new \in AP!Change /\ new.answer = a /\ new.waited = c.waited
      BY DEF AP!Change
    <3>2. changes' = (changes \ {c}) \cup (IF c.waited THEN {new} ELSE {})
      BY <2>3 DEF AP!Answer
    <3>3. \A d \in changes' : d \in AP!Change /\ (d.answer # "" => d.waited)
      BY <1>3, <3>1, <3>2
    <3>4. /\ a = "ok" /\ c.waited => ListDue'
          /\ ListDue => ListDue'
      BY <2>1, <3>1, <3>2 DEF ListDue
    <3> QED
      BY <3>3, <3>4
  <2>4. CASE AP!Add(c.key) /\ AP!Answer(c, "ok")
    <3>1. c.key \in Keys
      BY DEF AP!Change
    <3>2. StoresInv'
      BY <2>4, <3>1, AddKeeps
    <3> QED
      BY <1>2, <2>1, <2>2, <2>3, <2>4, <3>2
  <2>5. ASSUME NEW e \in store, AP!Delete(e), AP!Answer(c, "ok") PROVE PanelInv'
    <3>1. StoresInv'
      BY <2>5, RemovalsKeep
    <3> QED
      BY <1>2, <2>1, <2>2, <2>3, <2>5, <3>1
  <2>6. ASSUME NEW a \in {"ok", "refused"}, UNCHANGED AP!stores, AP!Answer(c, a) PROVE PanelInv'
    <3>1. UNCHANGED <<apKind, store, made>>
      BY <2>6 DEF AP!stores
    <3>2. StoresInv'
      BY <3>1 DEF StoresInv
    <3> QED
      BY <1>2, <2>1, <2>2, <2>3, <2>6, <3>1, <3>2
  <2> QED
    BY <1>5, <2>4, <2>5, <2>6 DEF AP!Handle
<1> QED
  BY <1>4, <1>5

LEMMA PanelKept ==
  ASSUME PanelInv, [AP!Next]_(AP!vars)
  PROVE  PanelInv'
<1>1. CASE UNCHANGED AP!vars
  <2>1. UNCHANGED <<apKind, store, made, alert, found, applied, reloads, changes,
                    apAsked, apOutdated>>
    BY <1>1 DEF AP!vars, AP!stores, AP!panel, AP!requests
  <2> QED
    BY <2>1 DEF PanelInv, AP!TypeOK, PanelNumbers, NewestListIsRight, ListDue, ShowsStore,
       AP!Of
<1> QED
  BY <1>1, OpenKeeps, PanelTurnsKeep, AskedKeeps, OthersKeep, ReadKeeps, ReloadedKeeps, ChangesKeep,
     ChangedKeeps DEF AP!Next

LEMMA PanelShown == PanelInv => AP!PanelShowsTheStore
  BY DEF PanelInv, PanelNumbers, NewestListIsRight, ListDue, ShowsStore, AP!TypeOK, AP!PanelShowsTheStore,
     AP!Settled

-----------------------------------------------------------------------------
(* Every behaviour of the server's parts                                    *)

PSP == INSTANCE PersistentStoreProofs WITH Writers <- Savers, DiskFails <- TRUE

(* One part runs, and the others rest.                                      *)
LEMMA OnePartSteps ==
  ASSUME [ServerNext]_serverVars
  PROVE  /\ part' = part
         /\ [Next]_vars
         /\ part = "stores" => [PS!Next]_(PS!vars)
         /\ part = "schedules" => [SR!Next]_(SR!vars)
         /\ part = "thresholds" => [TH!Next]_(TH!vars)
         /\ part = "windows" => [MV!Next]_(MV!vars)
         /\ part = "panel" => [AP!Next]_(AP!vars)
<1>1. CASE UNCHANGED serverVars
  <2>1. UNCHANGED <<part, vars, psVars, srVars, thVars, mvVars, apVars>>
    BY <1>1 DEF serverVars
  <2>2. UNCHANGED PS!vars
    BY <2>1 DEF psVars, PS!vars
  <2>3. UNCHANGED SR!vars
    BY <2>1 DEF srVars, SR!vars, SR!runner, SR!view
  <2>4. UNCHANGED TH!vars
    BY <2>1 DEF thVars, TH!vars, TH!server, TH!past
  <2>5. UNCHANGED MV!vars
    BY <2>1 DEF mvVars, MV!vars, MV!view, MV!store, MV!past
  <2>6. UNCHANGED AP!vars
    BY <2>1 DEF apVars, AP!vars, AP!stores, AP!panel, AP!requests
  <2> QED
    BY <2>1, <2>2, <2>3, <2>4, <2>5, <2>6
<1>2. CASE ServerNext
  BY <1>2 DEF ServerNext, Resting
<1> QED
  BY <1>1, <1>2

ViewsInv ==
    /\ part = "schedules" => SchedulesInv
    /\ part = "thresholds" => ThresholdsInv
    /\ part = "windows" => WindowsInv
    /\ part = "panel" => PanelInv

LEMMA ViewsInvariance == ServerSpec => []ViewsInv
<1>1. ServerInit => ViewsInv
  BY SchedulesStart, ThresholdsStart, WindowsStart, PanelStart DEF ServerInit, ViewsInv
<1>2. ViewsInv /\ [ServerNext]_serverVars => ViewsInv'
  BY OnePartSteps, SchedulesKept, ThresholdsKept, WindowsKept, PanelKept DEF ViewsInv
<1> QED
  BY <1>1, <1>2, PTL DEF ServerSpec

(* What RunCheck.tsx, ThresholdEditor.tsx, Maintenance.tsx and              *)
(* AlertDetailPanel.tsx show once they wait for nothing is what the server  *)
(* has: its schedules, the thresholds it is configured with (not those the  *)
(* poll loop has copied), its windows, and its acknowledgments and snoozes. *)
(* For any number of schedules, editors, windows and keys.                  *)
THEOREM TheViewsShowTheServer == ServerSpec => []ViewsShowTheServer
<1>1. ViewsInv => ViewsShowTheServer
  BY SchedulesShown, ThresholdsShown, WindowsShown, PanelShown DEF ViewsInv, ViewsShowTheServer
<1> QED
  BY <1>1, ViewsInvariance, PTL

(* A disabled button of those views waits for a request that is under way.  *)
THEOREM ButtonsHaveRequests == ServerSpec => []ButtonsReturn
<1>1. ViewsInv => ButtonsReturn
  BY SchedulesShown, ThresholdsShown, WindowsShown DEF ViewsInv, ButtonsReturn
<1> QED
  BY <1>1, ViewsInvariance, PTL

(* The runner of main.go starts a schedule that is idle, and due when it    *)
(* starts unless it was due when the list was read and is not any more.     *)
THEOREM OnlyDueRuns == ServerSpec => RunsAreDue
<1>1. ViewsInv /\ [ServerNext]_serverVars => [part = "schedules" => SR!StartsAreDue]_srVars
  BY OnePartSteps, StartsOnlyDue DEF ViewsInv
<1> QED
  BY <1>1, ViewsInvariance, PTL DEF ServerSpec, RunsAreDue

-----------------------------------------------------------------------------
(* The stores, of which PersistentStoreProofs speaks in the same words      *)

LEMMA StoresSame ==
  /\ PS!Init <=> PSP!Init
  /\ [PS!Next]_(PS!vars) <=> [PSP!Next]_(PSP!vars)
  /\ PS!FileMatchesMemory <=> PSP!FileMatchesMemory
  /\ PS!KeepsLastSave <=> PSP!KeepsLastSave
<1> USE DEF PS!Nothing, PSP!Nothing, PS!None, PSP!None, PS!NoInode, PSP!NoInode, PS!Empty, PSP!Empty,
        PS!Garbled, PSP!Garbled, PS!Expiring, PSP!Expiring
<1>1. PS!Init <=> PSP!Init
  BY DEF PS!Init, PSP!Init
<1>2. \A m : PS!Live(m) = PSP!Live(m)
  BY DEF PS!Live, PSP!Live, PS!Expired, PSP!Expired
<1>3. PS!Loaded = PSP!Loaded
  BY <1>2 DEF PS!Loaded, PSP!Loaded
<1>4. PS!Restart <=> PSP!Restart
  BY <1>3 DEF PS!Restart, PSP!Restart
<1>5. \A w \in Savers, e \in Entries :
         (PS!Add(w, e) \/ PS!Update(w, e) \/ PS!Delete(w, e)) <=>
         (PSP!Add(w, e) \/ PSP!Update(w, e) \/ PSP!Delete(w, e))
  BY <1>2 DEF PS!Add, PSP!Add, PS!Update, PSP!Update, PS!Delete, PSP!Delete, PS!Change, PSP!Change,
     PS!Goto, PSP!Goto, PS!Choice, PSP!Choice
<1>6. \A w \in Savers : PS!Save(w) <=> PSP!Save(w)
  BY DEF PS!Save, PSP!Save, PS!Snapshot, PSP!Snapshot, PS!OpenFile, PSP!OpenFile, PS!WriteFile,
     PSP!WriteFile, PS!SaveFails, PSP!SaveFails, PS!Rename, PSP!Rename, PS!Goto, PSP!Goto,
     PS!Target, PSP!Target, PS!Free, PSP!Free, PS!Written, PSP!Written
<1>7. (PS!Prune \/ PS!TimePasses) <=> (PSP!Prune \/ PSP!TimePasses)
  BY <1>2 DEF PS!Prune, PSP!Prune, PS!TimePasses, PSP!TimePasses
<1>8. [PS!Next]_(PS!vars) <=> [PSP!Next]_(PSP!vars)
  BY <1>4, <1>5, <1>6, <1>7 DEF PS!Next, PSP!Next, PS!vars, PSP!vars
<1>9. PS!FileMatchesMemory <=> PSP!FileMatchesMemory
  BY <1>2, <1>3 DEF PS!FileMatchesMemory, PSP!FileMatchesMemory
<1>10. PS!KeepsLastSave <=> PSP!KeepsLastSave
  BY <1>2, <1>4 DEF PS!KeepsLastSave, PSP!KeepsLastSave
<1> QED
  BY <1>1, <1>8, <1>9, <1>10

FilesInv == part = "stores" => PSP!StoreInv

LEMMA FilesInvariance ==
  ASSUME PSP!OneWriter, PSP!Room
  PROVE  ServerSpec => []FilesInv
<1>1. ServerInit => FilesInv
  BY StoresSame, PSP!StoreStarts DEF ServerInit, FilesInv
<1>2. FilesInv /\ [ServerNext]_serverVars => FilesInv'
  BY OnePartSteps, StoresSame, PSP!NextKeepsStore DEF FilesInv
<1> QED
  BY <1>1, <1>2, PTL DEF ServerSpec

(* As long as no two saves of a store overlap, the file of each store, and  *)
(* the override file of the thresholds (writeOverride), hold what is in     *)
(* memory whenever no save is under way: of the stores, if none has failed  *)
(* since; of the thresholds, if none overlapped or failed since a save was  *)
(* applied.                                                                 *)
THEOREM FilesAreTrue ==
  ASSUME PSP!OneWriter, PSP!Room
  PROVE  ServerSpec => []FilesMatchMemory
<1>1. FilesInv /\ ViewsInv => FilesMatchMemory
  BY StoresSame, ThresholdsShown DEF FilesInv, ViewsInv, FilesMatchMemory, PSP!StoreInv
<1> QED
  BY <1>1, FilesInvariance, ViewsInvariance, PTL

(* A restart brings back the entries of the last save that succeeded, as    *)
(* long as no two saves overlap (saveToFile, save, and their loading).      *)
THEOREM RestartsBringBack ==
  ASSUME PSP!OneWriter, PSP!Room
  PROVE  ServerSpec => RestartLosesNoSave
<1>1. FilesInv /\ [ServerNext]_serverVars => [part = "stores" => PS!KeepsLastSave]_psVars
  <2> SUFFICES ASSUME PSP!StoreInv, PSP!Restart PROVE PSP!KeepsLastSave
    BY StoresSame DEF FilesInv, PSP!KeepsLastSave
  <2> QED
    BY DEF PSP!StoreInv, PSP!FileIsGood, PSP!KeepsLastSave, PSP!Restart
<1> QED
  BY <1>1, FilesInvariance, PTL DEF ServerSpec, RestartLosesNoSave

(* The alerts table runs as in a behaviour of its own, or rests.            *)
LEMMA TableIsThere == ServerSpec => Spec
<1>1. ServerInit => Init
  BY DEF ServerInit
<1>2. [ServerNext]_serverVars => [Next]_vars
  BY OnePartSteps
<1> QED
  BY <1>1, <1>2, PTL DEF ServerSpec, Spec

(* The type invariant of all parts.                                         *)
THEOREM ServerTypeCorrect ==
  ASSUME PSP!OneWriter, PSP!Room
  PROVE  ServerSpec => []ServerTypeOK
<1>1. PSP!TypeOK => PS!TypeOK
  BY DEF PSP!TypeOK, PS!TypeOK, PSP!Map, PS!Map, PSP!Value, PS!Value, PSP!None, PS!None, PSP!File, PS!File,
     PSP!Empty, PS!Empty, PSP!Garbled, PS!Garbled, PSP!NoInode, PS!NoInode
<1>2. TypeOK /\ FilesInv /\ ViewsInv => ServerTypeOK
  BY <1>1 DEF ServerTypeOK, FilesInv, ViewsInv, PSP!StoreInv, SchedulesInv, ThresholdsInv, WindowsInv, PanelInv
<1> QED
  BY <1>2, TableIsThere, TypeCorrect, FilesInvariance, ViewsInvariance, PTL
===============================================================================
