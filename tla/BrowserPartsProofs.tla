------------------------- MODULE BrowserPartsProofs -------------------------
(* The invariants of the parts of BrowserParts, part by part: each holds at *)
(* the start and through every step of its part.  For any number of views,  *)
(* pages, requests, nodes and entries.                                      *)
EXTENDS BrowserParts, SequenceTheorems, FiniteSetTheorems, TLAPS

-----------------------------------------------------------------------------
(* Links and history                                                        *)

(* Only navToScanner leaves the URL's view behind.                          *)
ScannerIsUnrecorded == "view" \in unrecorded => view = "scanner"

(* No view lies on the stack twice in a row, and the present one is not on  *)
(* top of it.                                                               *)
StackChanges ==
    ~popped => /\ \A i \in 1 .. Len(back) - 1 : back[i] # back[i + 1]
               /\ back # <<>> => back[Len(back)] # view

NavInv == NAV!TypeOK /\ ScannerIsUnrecorded /\ NAV!LinkOpensThis /\ StackChanges

LEMMA NavConstants ==
  /\ Views \subseteq NAV!VALID_VIEWS /\ {"overview", "detail", "explore", "scanner"} \subseteq Views
  /\ Tabs \subseteq NAV!TABS /\ "patterns" \in Tabs /\ NAV!None \notin Tabs
  /\ DefaultRange \in Ranges /\ NAV!None \notin Ranges
  /\ MaxBack \in Nat \ {0} /\ MaxEntries \in Nat \ {0}
<1>1. NAV!ConstantsOK
  BY PartsFit
<1>2. NAV!None \notin NAV!TABS
  BY DEF NAV!None, NAV!TABS
<1> QED
  BY <1>1, <1>2 DEF NAV!ConstantsOK

(* What a URL opens.                                                        *)
LEMMA Opens ==
  ASSUME NEW u \in NAV!URL
  PROVE  /\ NAV!resolveView(u.view) \in Views
         /\ u.view \in Views => NAV!resolveView(u.view) = u.view
         /\ NAV!ExploreTab(u) \in Tabs
         /\ u.tab \in NAV!ValidTabs => NAV!ExploreTab(u) = u.tab
         /\ NAV!Opened(u).view \in Views /\ NAV!Opened(u).range \in Ranges
         /\ NAV!Opened(u).tab \in Tabs \cup {NAV!None}
         /\ NAV!Opened(u).tab = NAV!None <=> NAV!Opened(u).view # "explore"
<1>1. u.view \in Views \cup {NAV!None, "dashboard"} /\ u.tab \in Tabs \cup {NAV!None}
      /\ u.range \in Ranges \cup {NAV!None}
  BY DEF NAV!URL
<1>2. NAV!None \notin NAV!VALID_VIEWS /\ "dashboard" \notin NAV!VALID_VIEWS
      /\ NAV!None \notin NAV!ValidTabs
  BY DEF NAV!None, NAV!VALID_VIEWS, NAV!ValidTabs, NAV!TABS
<1>3. NAV!resolveView(u.view) \in Views /\ (u.view \in Views => NAV!resolveView(u.view) = u.view)
  BY <1>1, <1>2, NavConstants DEF NAV!resolveView
<1>4. NAV!ExploreTab(u) \in Tabs /\ (u.tab \in NAV!ValidTabs => NAV!ExploreTab(u) = u.tab)
  BY <1>1, <1>2, NavConstants DEF NAV!ExploreTab
<1> QED
  BY <1>1, <1>3, <1>4, NavConstants DEF NAV!Opened

(* What an entry added to the browser's history does to it.                 *)
LEMMA Pushes ==
  ASSUME NEW s \in Seq(NAV!URL), at \in 1 .. Len(s), NEW u \in NAV!URL
  PROVE  /\ NAV!Pushed(s, u) \in Seq(NAV!URL) /\ Len(NAV!Pushed(s, u)) >= 1
         /\ NAV!Pushed(s, u)[Len(NAV!Pushed(s, u))] = u
<1> DEFINE upto == SubSeq(s, 1, at)
           base == IF at < MaxEntries THEN upto ELSE Tail(upto)
<1>1. upto \in Seq(NAV!URL) /\ Len(upto) = at
  OBVIOUS
<1>2. base \in Seq(NAV!URL)
  BY <1>1
<1>3. NAV!Pushed(s, u) = Append(base, u)
  BY DEF NAV!Pushed
<1> HIDE DEF base
<1> QED
  BY <1>2, <1>3


LEMMA StackKept ==
  ASSUME NavInv, NEW v \in Views, NAV!Remember(v), view' = v, popped' = popped
  PROVE  back' \in Seq(Views) /\ Len(back') <= MaxBack /\ StackChanges'
<1>1. back \in Seq(Views) /\ Len(back) <= MaxBack /\ view \in Views
  BY DEF NavInv, NAV!TypeOK
<1>2. CASE v = view
  BY <1>1, <1>2 DEF NAV!Remember, NavInv, StackChanges
<1>3. CASE v # view
  <2> DEFINE base == IF Len(back) < MaxBack THEN back ELSE Tail(back)
  <2>1. back' = Append(base, view)
    BY <1>3 DEF NAV!Remember
  <2>2. base \in Seq(Views) /\ Len(base) + 1 <= MaxBack
    BY <1>1, NavConstants
  <2>3. ~popped => \A i \in 1 .. Len(base) - 1 : base[i] # base[i + 1]
    BY <1>1, NavConstants DEF NavInv, StackChanges
  <2>4. ~popped /\ base # <<>> => base[Len(base)] # view
    BY <1>1, NavConstants DEF NavInv, StackChanges
  <2> HIDE DEF base
  <2>5. back' \in Seq(Views) /\ Len(back') = Len(base) + 1 /\ back'[Len(back')] = view
        /\ \A i \in 1 .. Len(base) : back'[i] = base[i]
    BY <2>1, <2>2, <1>1
  <2>6. ~popped => \A i \in 1 .. Len(back') - 1 : back'[i] # back'[i + 1]
    <3> SUFFICES ASSUME ~popped, NEW i \in 1 .. Len(base) PROVE back'[i] # back'[i + 1]
      BY <2>5, <2>2
    <3>1. CASE i = Len(base)
      BY <3>1, <2>2, <2>4, <2>5
    <3>2. CASE i < Len(base)
      BY <3>2, <2>2, <2>3, <2>5
    <3> QED
      BY <3>1, <3>2, <2>2
  <2> QED
    BY <1>3, <2>2, <2>5, <2>6 DEF StackChanges
<1> QED
  BY <1>2, <1>3

(* The URL of the current entry.                                            *)
LEMMA UrlIs ==
  ASSUME NAV!TypeOK
  PROVE  /\ NAV!url \in NAV!URL
         /\ \A u \in NAV!URL : NAV!Replace(u) =>
               NAV!url' = u /\ at' = at /\ entries' \in Seq(NAV!URL) /\ at' \in 1 .. Len(entries')
         /\ \A u \in NAV!URL : NAV!Push(u) =>
               NAV!url' = u /\ entries' \in Seq(NAV!URL) /\ at' \in 1 .. Len(entries')
<1>1. entries \in Seq(NAV!URL) /\ at \in 1 .. Len(entries)
  BY DEF NAV!TypeOK
<1>2. NAV!url \in NAV!URL
  BY <1>1 DEF NAV!url
<1>3. ASSUME NEW u \in NAV!URL, NAV!Replace(u)
      PROVE  NAV!url' = u /\ at' = at /\ entries' \in Seq(NAV!URL) /\ at' \in 1 .. Len(entries')
  BY <1>1, <1>3 DEF NAV!Replace, NAV!url
<1>4. ASSUME NEW u \in NAV!URL, NAV!Push(u)
      PROVE  NAV!url' = u /\ entries' \in Seq(NAV!URL) /\ at' \in 1 .. Len(entries')
  BY <1>1, <1>4, Pushes DEF NAV!Push, NAV!url
<1> QED
  BY <1>2, <1>3, <1>4

(* A handler that goes to a view and records it: v with the URL u.          *)
LEMMA GoesTo ==
  ASSUME NavInv, NEW v \in Views, NEW u \in NAV!URL, NEW i \in Instances \cup {NAV!None}, NEW r \in Ranges,
         u.view = v, "view" \notin unrecorded',
         view = "explore" /\ v = "explore" =>
            u.tab = NAV!url.tab /\ ("tab" \in unrecorded => "tab" \in unrecorded'),
         NAV!Enter(v, u), NAV!url' = u,
         instance' = i, range' = r, unrecorded' \subseteq unrecorded,
         "instance" \in unrecorded' \/ u.instance = i,
         "range" \in unrecorded' \/ u.range = r \/ (u.range = NAV!None /\ r = DefaultRange)
  PROVE  /\ view' \in Views /\ tab' \in Tabs \cup {NAV!None} /\ (tab' = NAV!None <=> view' # "explore")
         /\ unrecorded' \subseteq NAV!Fields
         /\ ScannerIsUnrecorded' /\ NAV!LinkOpensThis'
<1>1. view \in Views /\ tab \in Tabs \cup {NAV!None} /\ (tab = NAV!None <=> view # "explore")
      /\ unrecorded \subseteq NAV!Fields /\ NAV!url \in NAV!URL
  BY UrlIs DEF NavInv, NAV!TypeOK
<1>2. view' = v /\ tab' = (IF v # "explore" THEN NAV!None ELSE IF view = "explore" THEN tab ELSE NAV!ExploreTab(u))
  BY DEF NAV!Enter
<1>3. tab' \in Tabs \cup {NAV!None} /\ (tab' = NAV!None <=> view' # "explore")
  BY <1>1, <1>2, Opens, NavConstants
<1>4. "view" \notin unrecorded'
  OBVIOUS
<1>5. NAV!Opened(u).view = v
  BY Opens DEF NAV!Opened
<1>6. "instance" \in unrecorded' \/ NAV!Opened(u).instance = i
  BY DEF NAV!Opened
<1>7. "range" \in unrecorded' \/ NAV!Opened(u).range = r
  BY NavConstants DEF NAV!Opened
<1>8. "tab" \in unrecorded' \/ NAV!Opened(u).tab = tab'
  <2>1. CASE v # "explore"
    BY <2>1, <1>2, <1>5 DEF NAV!Opened
  <2>2. CASE v = "explore" /\ view # "explore"
    BY <2>2, <1>2, <1>5 DEF NAV!Opened
  <2>3. CASE v = "explore" /\ view = "explore"
    <3>1. "view" \notin unrecorded
      BY <2>3 DEF NavInv, ScannerIsUnrecorded
    <3>2. NAV!Opened(NAV!url).view = view
      BY <3>1 DEF NavInv, NAV!LinkOpensThis, NAV!Fields, NAV!Shown
    <3>3. "tab" \in unrecorded \/ NAV!Opened(NAV!url).tab = tab
      BY DEF NavInv, NAV!LinkOpensThis, NAV!Fields, NAV!Shown
    <3>4. NAV!Opened(NAV!url).tab = NAV!ExploreTab(NAV!url)
      BY <3>2, <2>3 DEF NAV!Opened
    <3>5. NAV!Opened(u).tab = NAV!ExploreTab(u) /\ NAV!ExploreTab(u) = NAV!ExploreTab(NAV!url)
      BY <2>3, <1>5 DEF NAV!Opened, NAV!ExploreTab
    <3>6. "tab" \in unrecorded \/ NAV!Opened(u).tab = tab'
      BY <3>3, <3>4, <3>5, <1>2, <2>3
    <3> QED
      BY <3>6, <2>3
  <2> QED
    BY <2>1, <2>2, <2>3
<1> QED
  BY <1>1, <1>2, <1>3, <1>4, <1>5, <1>6, <1>7, <1>8 DEF ScannerIsUnrecorded, NAV!LinkOpensThis, NAV!Fields, NAV!Shown


LEMMA NavStarts == NAV!Init => NavInv
<1> SUFFICES ASSUME NAV!Init PROVE NavInv
  OBVIOUS
<1>1. PICK u \in NAV!URL : entries = <<u>> /\ NAV!Load(u)
  BY DEF NAV!Init
<1>2. NAV!url = u /\ entries \in Seq(NAV!URL) /\ at \in 1 .. Len(entries)
  BY <1>1 DEF NAV!Init, NAV!url
<1>3. u.instance \in Instances \cup {NAV!None} /\ NAV!Opened(u).instance = u.instance
  BY <1>1 DEF NAV!URL, NAV!Opened
<1>4. back = <<>> /\ back \in Seq(Views) /\ Len(back) = 0 /\ unrecorded = {} /\ popped = FALSE
  BY DEF NAV!Init
<1>5. NAV!TypeOK
  <2>1. view \in Views /\ range \in Ranges /\ tab \in Tabs \cup {NAV!None} /\ (tab = NAV!None <=> view # "explore")
    BY <1>1, Opens DEF NAV!Load
  <2>2. instance \in Instances \cup {NAV!None}
    BY <1>1, <1>3 DEF NAV!Load
  <2>3. Len(back) <= MaxBack /\ unrecorded \subseteq NAV!Fields /\ popped \in BOOLEAN
    <3>1. MaxBack \in Nat
      BY NavConstants
    <3>2. Len(back) <= MaxBack
      BY <1>4, <3>1
    <3> QED
      BY <1>4, <3>2
  <2> QED
    BY <1>2, <1>4, <2>1, <2>2, <2>3 DEF NAV!TypeOK
<1>6. NAV!LinkOpensThis
  BY <1>1, <1>2 DEF NAV!LinkOpensThis, NAV!Load, NAV!Shown, NAV!Fields
<1> QED
  BY <1>4, <1>5, <1>6 DEF NavInv, ScannerIsUnrecorded, StackChanges

LEMMA NavKept ==
  ASSUME NavInv, [NAV!Next]_(NAV!vars)
  PROVE  NavInv'
<1>1. /\ view \in Views /\ instance \in Instances \cup {NAV!None} /\ range \in Ranges
      /\ tab \in Tabs \cup {NAV!None} /\ (tab = NAV!None <=> view # "explore")
      /\ back \in Seq(Views) /\ Len(back) <= MaxBack
      /\ entries \in Seq(NAV!URL) /\ at \in 1 .. Len(entries)
      /\ unrecorded \subseteq NAV!Fields /\ popped \in BOOLEAN
  BY DEF NavInv, NAV!TypeOK
<1>2. NAV!url \in NAV!URL /\ NAV!TypeOK
  BY UrlIs DEF NavInv
<1>3. \A v \in Views : /\ NAV!ForView(NAV!url, v) \in NAV!URL /\ NAV!ForView(NAV!url, v).view = v
                       /\ NAV!ForView(NAV!url, v).instance = NAV!url.instance
                       /\ NAV!ForView(NAV!url, v).range = NAV!url.range
                       /\ v = "explore" => NAV!ForView(NAV!url, v).tab = NAV!url.tab
  BY <1>2 DEF NAV!ForView, NAV!URL
<1>4. /\ "instance" \in unrecorded \/ NAV!url.instance = instance
      /\ "range" \in unrecorded \/ NAV!url.range = range \/ (NAV!url.range = NAV!None /\ range = DefaultRange)
  BY DEF NavInv, NAV!LinkOpensThis, NAV!Opened, NAV!Shown, NAV!Fields
<1>5. ASSUME NEW v \in Views, NAV!SetView(v) PROVE NavInv'
  <2> DEFINE u == NAV!ForView(NAV!url, v)
  <2>1. NAV!Remember(v) /\ NAV!Enter(v, u) /\ NAV!Push(u) /\ UNCHANGED <<instance, range>>
        /\ unrecorded' = unrecorded \ NAV!Written(v)
    BY <1>5 DEF NAV!SetView
  <2>2. NAV!url' = u /\ entries' \in Seq(NAV!URL) /\ at' \in 1 .. Len(entries') /\ popped' = popped
    BY <1>2, <1>3, <2>1, UrlIs DEF NAV!Push
  <2>3. back' \in Seq(Views) /\ Len(back') <= MaxBack /\ StackChanges'
    BY <2>1, <2>2, StackKept DEF NAV!Enter
  <2>4. /\ unrecorded' \subseteq unrecorded /\ "view" \notin unrecorded'
        /\ "instance" \in unrecorded => "instance" \in unrecorded'
        /\ "range" \in unrecorded => "range" \in unrecorded'
        /\ view = "explore" /\ v = "explore" /\ "tab" \in unrecorded => "tab" \in unrecorded'
    BY <2>1 DEF NAV!Written
  <2>5. /\ view' \in Views /\ tab' \in Tabs \cup {NAV!None} /\ (tab' = NAV!None <=> view' # "explore")
        /\ unrecorded' \subseteq NAV!Fields
        /\ ScannerIsUnrecorded' /\ NAV!LinkOpensThis'
    <3> HIDE DEF u
    <3>1. u \in NAV!URL /\ u.view = v /\ u.instance = NAV!url.instance /\ u.range = NAV!url.range
          /\ (v = "explore" => u.tab = NAV!url.tab)
      BY <1>3 DEF u
    <3> QED
      BY <1>1, <1>4, <2>1, <2>2, <2>4, <3>1, GoesTo
  <2> QED
    BY <1>1, <2>1, <2>2, <2>3, <2>5 DEF NavInv, NAV!TypeOK
<1>6. ASSUME NAV!GoBack PROVE NavInv'
  <2> DEFINE prev == back[Len(back)]
             u == NAV!ForView(NAV!url, prev)
  <2>1. /\ back # <<>> /\ NAV!Enter(prev, u) /\ NAV!Push(u) /\ UNCHANGED <<instance, range>>
        /\ back' = SubSeq(back, 1, Len(back) - 1)
        /\ unrecorded' = unrecorded \ NAV!Written(prev)
    BY <1>6 DEF NAV!GoBack
  <2>2. prev \in Views
    BY <1>1, <2>1
  <2> HIDE DEF prev
  <2>3. NAV!url' = u /\ entries' \in Seq(NAV!URL) /\ at' \in 1 .. Len(entries') /\ popped' = popped
    BY <1>2, <1>3, <2>1, <2>2, UrlIs DEF NAV!Push
  <2>4. back' \in Seq(Views) /\ Len(back') <= MaxBack /\ StackChanges'
    <3>1. back' \in Seq(Views) /\ Len(back') = Len(back) - 1
          /\ \A i \in 1 .. Len(back') : back'[i] = back[i]
      <4> DEFINE n == Len(back) - 1
      <4>1. n \in Nat /\ \A i \in 1 .. n : back[i] \in Views
        BY <1>1, <2>1
      <4> HIDE DEF n
      <4>2. /\ SubSeq(back, 1, n) \in Seq(Views) /\ Len(SubSeq(back, 1, n)) = n
            /\ \A i \in 1 .. n : SubSeq(back, 1, n)[i] = back[i]
        BY <4>1
      <4> QED
        BY <2>1, <4>2 DEF n
    <3>2. view' = back[Len(back)]
      BY <2>1 DEF NAV!Enter, prev
    <3>3. back' # <<>> /\ ~popped => back'[Len(back')] # view'
      BY <1>1, <3>1, <3>2 DEF NavInv, StackChanges
    <3>4. ~popped => \A i \in 1 .. Len(back') - 1 : back'[i] # back'[i + 1]
      BY <1>1, <3>1 DEF NavInv, StackChanges
    <3>5. StackChanges'
      BY <2>3, <3>3, <3>4 DEF StackChanges
    <3>6. Len(back') <= MaxBack
      BY <1>1, <3>1, NavConstants
    <3> QED
      BY <3>1, <3>5, <3>6
  <2>5. /\ unrecorded' \subseteq unrecorded /\ "view" \notin unrecorded'
        /\ "instance" \in unrecorded => "instance" \in unrecorded'
        /\ "range" \in unrecorded => "range" \in unrecorded'
        /\ view = "explore" /\ prev = "explore" /\ "tab" \in unrecorded => "tab" \in unrecorded'
    BY <2>1 DEF NAV!Written
  <2>6. /\ view' \in Views /\ tab' \in Tabs \cup {NAV!None} /\ (tab' = NAV!None <=> view' # "explore")
        /\ unrecorded' \subseteq NAV!Fields
        /\ ScannerIsUnrecorded' /\ NAV!LinkOpensThis'
    <3>1. u \in NAV!URL /\ u.view = prev /\ u.instance = NAV!url.instance /\ u.range = NAV!url.range
          /\ (prev = "explore" => u.tab = NAV!url.tab)
      BY <1>3, <2>2 DEF u
    <3> HIDE DEF u
    <3> QED
      BY <1>1, <1>4, <2>1, <2>2, <2>3, <2>5, <3>1, GoesTo
  <2> QED
    BY <1>1, <2>1, <2>3, <2>4, <2>6 DEF NavInv, NAV!TypeOK
<1>7. ASSUME NEW i \in Instances \cup {NAV!None}, NAV!SetSelectedInstance(i) PROVE NavInv'
  <2> DEFINE u == [NAV!url EXCEPT !.instance = i]
  <2>1. u \in NAV!URL /\ u.instance = i /\ u.view = NAV!url.view /\ u.range = NAV!url.range /\ u.tab = NAV!url.tab
    BY <1>2 DEF NAV!URL
  <2> HIDE DEF u
  <2>2. instance' = i /\ NAV!Replace(u) /\ unrecorded' = unrecorded \ {"instance"}
        /\ UNCHANGED <<view, range, tab, back>>
    BY <1>7 DEF NAV!SetSelectedInstance, u
  <2>3. NAV!url' = u /\ at' = at /\ entries' \in Seq(NAV!URL) /\ at' \in 1 .. Len(entries') /\ popped' = popped
    BY <1>2, <2>1, <2>2, UrlIs DEF NAV!Replace
  <2>4. NAV!LinkOpensThis'
    BY <2>1, <2>2, <2>3 DEF NavInv, NAV!LinkOpensThis, NAV!Opened, NAV!Shown, NAV!Fields, NAV!ExploreTab, NAV!resolveView
  <2> QED
    BY <1>1, <2>2, <2>3, <2>4 DEF NavInv, NAV!TypeOK, ScannerIsUnrecorded, StackChanges
<1>8. ASSUME NEW r \in Ranges, NAV!SetRange(r) PROVE NavInv'
  <2> DEFINE u == [NAV!url EXCEPT !.range = r]
  <2>1. u \in NAV!URL /\ u.instance = NAV!url.instance /\ u.view = NAV!url.view /\ u.range = r /\ u.tab = NAV!url.tab
    BY <1>2 DEF NAV!URL
  <2> HIDE DEF u
  <2>2. range' = r /\ NAV!Replace(u) /\ unrecorded' = unrecorded \ {"range"}
        /\ UNCHANGED <<view, instance, tab, back>>
    BY <1>8 DEF NAV!SetRange, u
  <2>3. NAV!url' = u /\ at' = at /\ entries' \in Seq(NAV!URL) /\ at' \in 1 .. Len(entries') /\ popped' = popped
    BY <1>2, <2>1, <2>2, UrlIs DEF NAV!Replace
  <2>4. NAV!LinkOpensThis'
    BY <2>1, <2>2, <2>3, NavConstants
    DEF NavInv, NAV!LinkOpensThis, NAV!Opened, NAV!Shown, NAV!Fields, NAV!ExploreTab, NAV!resolveView
  <2> QED
    BY <1>1, <2>2, <2>3, <2>4 DEF NavInv, NAV!TypeOK, ScannerIsUnrecorded, StackChanges
<1>9. ASSUME NEW i \in Instances, NAV!NavToDetail(i) PROVE NavInv'
  <2> DEFINE u == [NAV!url EXCEPT !.view = "detail", !.instance = i, !.tab = NAV!None]
  <2>1. u \in NAV!URL /\ u.instance = i /\ u.view = "detail" /\ u.range = NAV!url.range
    BY <1>2, NavConstants DEF NAV!URL
  <2> HIDE DEF u
  <2>2. instance' = i /\ NAV!Remember("detail") /\ NAV!Enter("detail", u) /\ NAV!Push(u)
        /\ unrecorded' = unrecorded \ {"view", "instance", "tab"} /\ UNCHANGED range
    BY <1>9 DEF NAV!NavToDetail, u
  <2>3. NAV!url' = u /\ entries' \in Seq(NAV!URL) /\ at' \in 1 .. Len(entries') /\ popped' = popped
    BY <1>2, <2>1, <2>2, UrlIs DEF NAV!Push
  <2>4. back' \in Seq(Views) /\ Len(back') <= MaxBack /\ StackChanges'
    BY <2>2, <2>3, StackKept, NavConstants DEF NAV!Enter
  <2>5. /\ view' \in Views /\ tab' \in Tabs \cup {NAV!None} /\ (tab' = NAV!None <=> view' # "explore")
        /\ unrecorded' \subseteq NAV!Fields
        /\ ScannerIsUnrecorded' /\ NAV!LinkOpensThis'
    BY <1>1, <1>4, <2>1, <2>2, <2>3, GoesTo, NavConstants
  <2> QED
    BY <1>1, <2>2, <2>3, <2>4, <2>5 DEF NavInv, NAV!TypeOK
<1>10. ASSUME NEW i \in Instances, NEW r \in Ranges, NAV!NavToExploreWithRange(i, r) PROVE NavInv'
  <2> DEFINE u == [view |-> "explore", instance |-> i, range |-> r, tab |-> NAV!None]
  <2>1. u \in NAV!URL /\ u.instance = i /\ u.view = "explore" /\ u.range = r
    BY NavConstants DEF NAV!URL
  <2> HIDE DEF u
  <2>2. view # "explore" /\ instance' = i /\ range' = r
        /\ NAV!Remember("explore") /\ NAV!Enter("explore", u) /\ NAV!Push(u) /\ unrecorded' = {}
    BY <1>10 DEF NAV!NavToExploreWithRange, u
  <2>3. NAV!url' = u /\ entries' \in Seq(NAV!URL) /\ at' \in 1 .. Len(entries') /\ popped' = popped
    BY <1>2, <2>1, <2>2, UrlIs DEF NAV!Push
  <2>4. back' \in Seq(Views) /\ Len(back') <= MaxBack /\ StackChanges'
    BY <2>2, <2>3, StackKept, NavConstants DEF NAV!Enter
  <2>5. /\ view' \in Views /\ tab' \in Tabs \cup {NAV!None} /\ (tab' = NAV!None <=> view' # "explore")
        /\ unrecorded' \subseteq NAV!Fields
        /\ ScannerIsUnrecorded' /\ NAV!LinkOpensThis'
    BY <1>1, <2>1, <2>2, <2>3, GoesTo, NavConstants
  <2> QED
    BY <1>1, <2>2, <2>3, <2>4, <2>5 DEF NavInv, NAV!TypeOK
<1>11. ASSUME NEW i \in Instances, NAV!NavToScanner(i) PROVE NavInv'
  <2>1. instance' = i /\ NAV!Remember("scanner") /\ view' = "scanner" /\ tab' = NAV!None
        /\ unrecorded' = unrecorded \cup {"view", "instance", "tab"}
        /\ range' = range /\ entries' = entries /\ at' = at /\ popped' = popped
    BY <1>11 DEF NAV!NavToScanner, NAV!Enter, NAV!browser
  <2>2. back' \in Seq(Views) /\ Len(back') <= MaxBack /\ StackChanges'
    BY <2>1, StackKept, NavConstants
  <2>3. NAV!LinkOpensThis'
    BY <2>1 DEF NavInv, NAV!LinkOpensThis, NAV!Opened, NAV!Shown, NAV!Fields, NAV!url
  <2> QED
    BY <1>1, <2>1, <2>2, <2>3, NavConstants DEF NavInv, NAV!TypeOK, ScannerIsUnrecorded, NAV!Fields
<1>12. ASSUME NEW t \in Tabs, NAV!SwitchTab(t) PROVE NavInv'
  <2> DEFINE u == [NAV!url EXCEPT !.tab = t]
  <2>1. u \in NAV!URL /\ u.instance = NAV!url.instance /\ u.view = NAV!url.view /\ u.range = NAV!url.range /\ u.tab = t
    BY <1>2 DEF NAV!URL
  <2> HIDE DEF u
  <2>2. view = "explore" /\ tab' = t /\ NAV!Replace(u) /\ UNCHANGED <<view, instance, range, back>>
        /\ unrecorded' = IF t \in NAV!ValidTabs THEN unrecorded \ {"tab"} ELSE unrecorded \cup {"tab"}
    BY <1>12 DEF NAV!SwitchTab, NAV!store, u
  <2>3. NAV!url' = u /\ at' = at /\ entries' \in Seq(NAV!URL) /\ at' \in 1 .. Len(entries') /\ popped' = popped
    BY <1>2, <2>1, <2>2, UrlIs DEF NAV!Replace
  <2>4. NAV!resolveView(NAV!url.view) = "explore" /\ "view" \notin unrecorded
    BY <2>2 DEF NavInv, ScannerIsUnrecorded, NAV!LinkOpensThis, NAV!Opened, NAV!Shown, NAV!Fields
  <2>5. NAV!LinkOpensThis'
    BY <2>1, <2>2, <2>3, <2>4
    DEF NavInv, NAV!LinkOpensThis, NAV!Opened, NAV!Shown, NAV!Fields, NAV!ExploreTab
  <2> QED
    BY <1>1, <2>2, <2>3, <2>4, <2>5, NavConstants
    DEF NavInv, NAV!TypeOK, ScannerIsUnrecorded, StackChanges, NAV!Fields
<1>13. ASSUME NEW i \in Instances, NAV!GoToInstance(i) PROVE NavInv'
  <2> DEFINE left == [NAV!url EXCEPT !.instance = i]
             u == NAV!ForView(left, "detail")
             s == [entries EXCEPT ![at] = left]
  <2>1. left \in NAV!URL /\ left.instance = i /\ left.range = NAV!url.range
    BY <1>2 DEF NAV!URL
  <2>2. u \in NAV!URL /\ u.view = "detail" /\ u.instance = i /\ u.range = NAV!url.range
    BY <2>1, NavConstants DEF NAV!URL, NAV!ForView
  <2>3. s \in Seq(NAV!URL) /\ Len(s) = Len(entries)
    BY <1>1, <2>1
  <2> HIDE DEF u, s, left
  <2>4. view = "overview" /\ instance' = i /\ NAV!Remember("detail") /\ NAV!Enter("detail", u)
        /\ entries' = NAV!Pushed(s, u) /\ at' = Len(entries')
        /\ unrecorded' = unrecorded \ {"view", "instance", "tab"} /\ UNCHANGED <<range, popped>>
    BY <1>13 DEF NAV!GoToInstance, u, s, left
  <2>5. NAV!url' = u /\ entries' \in Seq(NAV!URL) /\ at' \in 1 .. Len(entries')
    <3>1. at \in 1 .. Len(s)
      BY <1>1, <2>3
    <3>2. entries' \in Seq(NAV!URL) /\ Len(entries') >= 1 /\ entries'[Len(entries')] = u
      BY <2>2, <2>3, <2>4, <3>1, Pushes
    <3> QED
      BY <2>4, <3>2 DEF NAV!url
  <2>6. back' \in Seq(Views) /\ Len(back') <= MaxBack /\ StackChanges'
    BY <2>4, StackKept, NavConstants DEF NAV!Enter
  <2>7. /\ view' \in Views /\ tab' \in Tabs \cup {NAV!None} /\ (tab' = NAV!None <=> view' # "explore")
        /\ unrecorded' \subseteq NAV!Fields
        /\ ScannerIsUnrecorded' /\ NAV!LinkOpensThis'
    BY <1>1, <1>4, <2>2, <2>4, <2>5, GoesTo, NavConstants
  <2> QED
    BY <1>1, <2>4, <2>5, <2>6, <2>7 DEF NavInv, NAV!TypeOK
<1>14. ASSUME NAV!LeaveDetail PROVE NavInv'
  <2> DEFINE u == [NAV!ForView(NAV!url, "overview") EXCEPT !.instance = NAV!None]
  <2>1. u \in NAV!URL /\ u.view = "overview" /\ u.instance = NAV!None /\ u.range = NAV!url.range
    BY <1>2, NavConstants DEF NAV!URL, NAV!ForView
  <2> HIDE DEF u
  <2>2. view = "detail" /\ instance' = NAV!None /\ NAV!Remember("overview") /\ NAV!Enter("overview", u)
        /\ NAV!Push(u) /\ unrecorded' = unrecorded \ {"view", "instance", "tab"} /\ UNCHANGED range
    BY <1>14 DEF NAV!LeaveDetail, u
  <2>3. NAV!url' = u /\ entries' \in Seq(NAV!URL) /\ at' \in 1 .. Len(entries') /\ popped' = popped
    BY <1>2, <2>1, <2>2, UrlIs DEF NAV!Push
  <2>4. back' \in Seq(Views) /\ Len(back') <= MaxBack /\ StackChanges'
    BY <2>2, <2>3, StackKept, NavConstants DEF NAV!Enter
  <2>5. /\ view' \in Views /\ tab' \in Tabs \cup {NAV!None} /\ (tab' = NAV!None <=> view' # "explore")
        /\ unrecorded' \subseteq NAV!Fields
        /\ ScannerIsUnrecorded' /\ NAV!LinkOpensThis'
    BY <1>1, <1>4, <2>1, <2>2, <2>3, GoesTo, NavConstants
  <2> QED
    BY <1>1, <2>2, <2>3, <2>4, <2>5 DEF NavInv, NAV!TypeOK
<1>15. ASSUME NEW to \in 1 .. Len(entries), NAV!Pop(to) PROVE NavInv'
  <2> DEFINE u == entries[to]
             v == NAV!resolveView(u.view)
  <2>1. u \in NAV!URL
    BY <1>1
  <2> HIDE DEF u
  <2>2. at' = to /\ popped' = TRUE /\ NAV!Enter(v, u) /\ instance' = u.instance
        /\ range' = (IF u.range = NAV!None THEN range ELSE u.range)
        /\ unrecorded' = (IF u.range = NAV!None THEN {"range"} ELSE {})
                         \cup (IF v = "explore" /\ view = "explore" THEN {"tab"} ELSE {})
        /\ UNCHANGED <<back, entries>>
    BY <1>15 DEF NAV!Pop, u
  <2>3. NAV!url' = u /\ u.instance \in Instances \cup {NAV!None} /\ u.range \in Ranges \cup {NAV!None}
    BY <2>1, <2>2 DEF NAV!url, u, NAV!URL
  <2>4. v \in Views /\ NAV!Opened(u).view = v /\ NAV!Opened(u).instance = u.instance
        /\ (u.range # NAV!None => NAV!Opened(u).range = u.range)
        /\ (v = "explore" => NAV!Opened(u).tab = NAV!ExploreTab(u))
        /\ (v # "explore" => NAV!Opened(u).tab = NAV!None)
        /\ NAV!ExploreTab(u) \in Tabs
    BY <2>1, Opens DEF NAV!Opened
  <2> HIDE DEF v
  <2>5. view' = v /\ tab' \in Tabs \cup {NAV!None} /\ (tab' = NAV!None <=> view' # "explore")
        /\ ("tab" \in unrecorded' \/ tab' = NAV!Opened(u).tab)
    BY <1>1, <2>2, <2>4, NavConstants DEF NAV!Enter
  <2>6. NAV!LinkOpensThis'
    BY <2>2, <2>3, <2>4, <2>5 DEF NAV!LinkOpensThis, NAV!Shown, NAV!Fields
  <2> QED
    BY <1>1, <2>2, <2>3, <2>4, <2>5, <2>6 DEF NavInv, NAV!TypeOK, ScannerIsUnrecorded, StackChanges, NAV!Fields
<1>16. ASSUME NAV!Reload PROVE NavInv'
  <2>1. /\ view' = NAV!Opened(NAV!url).view /\ instance' = NAV!Opened(NAV!url).instance
        /\ range' = NAV!Opened(NAV!url).range /\ tab' = NAV!Opened(NAV!url).tab
        /\ back' = <<>> /\ unrecorded' = {} /\ popped' = FALSE /\ entries' = entries /\ at' = at
        /\ NAV!url' = NAV!url
    BY <1>16 DEF NAV!Reload, NAV!browser, NAV!url
  <2>2. NAV!LinkOpensThis'
    BY <2>1 DEF NAV!LinkOpensThis, NAV!Shown, NAV!Fields
  <2>3. NAV!Opened(NAV!url).instance \in Instances \cup {NAV!None}
    BY <1>2 DEF NAV!Opened, NAV!URL
  <2>4. back' \in Seq(Views) /\ Len(back') = 0 /\ Len(back') <= MaxBack
    BY <2>1, NavConstants
  <2>5. view' \in Views /\ range' \in Ranges /\ tab' \in Tabs \cup {NAV!None}
        /\ (tab' = NAV!None <=> view' # "explore") /\ instance' \in Instances \cup {NAV!None}
    BY <1>2, <2>1, <2>3, Opens
  <2>6. NAV!TypeOK'
    BY <1>1, <2>1, <2>4, <2>5 DEF NAV!TypeOK
  <2>7. ScannerIsUnrecorded' /\ StackChanges'
    BY <2>1, <2>4 DEF ScannerIsUnrecorded, StackChanges
  <2> QED
    BY <2>2, <2>6, <2>7 DEF NavInv
<1>17. CASE UNCHANGED NAV!vars
  BY <1>17 DEF NAV!vars, NAV!store, NAV!browser, NavInv, NAV!TypeOK, ScannerIsUnrecorded, StackChanges,
     NAV!LinkOpensThis, NAV!Shown, NAV!url
<1> QED
  BY <1>1, <1>5, <1>6, <1>7, <1>8, <1>9, <1>10, <1>11, <1>12, <1>13, <1>14, <1>15, <1>16, <1>17
  DEF NAV!Next, NAV!BrowserBack, NAV!BrowserForward

-----------------------------------------------------------------------------
(* The screen of alerts                                                     *)

(* Not firing as far as the answers of the reading are there.               *)
Fresh(r, keys) ==
    \A a \in keys : /\ r.active # AS!NotYet => a \notin r.active[1]
                    /\ r.history # AS!NotYet => r.history[1][a] # "firing"

ReadingOK(r) == r \in AS!Reading /\ r.since \subseteq settled /\ Fresh(r, r.since)

(* What was answered is resolved for good, and read only when all of it is. *)
OpOK(o) ==
    /\ ReadingOK(o.reading) /\ Fresh(o.reading, o.keys)
    /\ \A a \in o.keys \ o.todo : server[a] = "resolved"
    /\ o.todo # {} => o.reading.active = AS!NotYet /\ o.reading.history = AS!NotYet

AsInv ==
    /\ AS!TypeOK /\ AS!RefreshingEnds /\ AS!ToldIsDone /\ AS!ResolvedStaysOff
    /\ \A a \in settled : server[a] = "resolved"
    /\ load # <<>> => ReadingOK(load[1])
    /\ \A o \in ops : OpOK(o)

LEMMA AsStarts == AS!Init => AsInv
<1> SUFFICES ASSUME AS!Init PROVE AsInv
  OBVIOUS
<1> DEFINE r == [active |-> AS!NotYet, history |-> AS!NotYet, since |-> {}]
<1>1. r \in AS!Reading /\ r.since = {}
  BY DEF AS!Reading
<1>2. load = <<r>> /\ ops = {} /\ settled = {} /\ told = {} /\ begun = 0 /\ busy = TRUE
      /\ resolvingRef = FALSE /\ skipped = FALSE /\ asOvertaken = FALSE
      /\ asActive = {} /\ asHistory = [a \in Alerts |-> "absent"]
      /\ server \in [Alerts -> {"absent", "firing"}]
  BY DEF AS!Init
<1> HIDE DEF r
<1>3. load # <<>> /\ load[1] = r
  BY <1>2
<1>4. MaxResolves \in Nat
  BY PartsFit DEF AS!ConstantsOK
<1>5. server \in [Alerts -> AS!Statuses] /\ asHistory \in [Alerts -> AS!Statuses]
  BY <1>2 DEF AS!Statuses
<1>6. AS!TypeOK
  <2>1. load \in {<<>>} \cup {<<q>> : q \in AS!Reading}
    BY <1>1, <1>2
  <2>2. begun \in 0 .. MaxResolves /\ ops \subseteq AS!Op
    BY <1>2, <1>4
  <2> QED
    BY <1>2, <1>5, <2>1, <2>2 DEF AS!TypeOK
<1> QED
  BY <1>1, <1>2, <1>3, <1>6 DEF AsInv, AS!RefreshingEnds, AS!ToldIsDone, AS!ResolvedStaysOff, ReadingOK, Fresh

(* A request that is sent now.                                              *)
LEMMA SentIsOK ==
  ASSUME settled \subseteq Alerts
  PROVE  ReadingOK(AS!Sent) /\ \A keys : Fresh(AS!Sent, keys)
BY DEF ReadingOK, Fresh, AS!Sent, AS!Reading

(* The server answers with what it has now.                                 *)
LEMMA ReadsAreOK ==
  ASSUME AsInv, NEW r, ReadingOK(r), NEW q \in AS!Reads(r)
  PROVE  /\ ReadingOK(q)
         /\ \A keys \in SUBSET Alerts :
               (\A a \in keys : server[a] = "resolved") /\ Fresh(r, keys) => Fresh(q, keys)
<1> DEFINE now == {a \in Alerts : server[a] = "firing"}
<1>1. r \in AS!Reading /\ now \in SUBSET Alerts /\ server \in [Alerts -> AS!Statuses]
      /\ settled \subseteq Alerts
  BY DEF ReadingOK, AsInv, AS!TypeOK
<1>2. \/ r.active = AS!NotYet /\ q = [r EXCEPT !.active = <<now>>]
      \/ r.history = AS!NotYet /\ q = [r EXCEPT !.history = <<server>>]
  BY DEF AS!Reads
<1>3. q \in AS!Reading /\ q.since = r.since
  BY <1>1, <1>2 DEF AS!Reading
<1>4. \/ q.active = <<now>> /\ q.history = r.history
      \/ q.active = r.active /\ q.history = <<server>>
  BY <1>1, <1>2 DEF AS!Reading
<1>5. ASSUME NEW keys \in SUBSET Alerts, \A a \in keys : server[a] = "resolved", Fresh(r, keys)
      PROVE  Fresh(q, keys)
  BY <1>4, <1>5 DEF Fresh
<1>6. \A a \in r.since : server[a] = "resolved"
  BY DEF ReadingOK, AsInv
<1>7. r.since \in SUBSET Alerts /\ Fresh(r, r.since)
  BY <1>1 DEF ReadingOK
<1>8. Fresh(q, r.since)
  BY <1>5, <1>6, <1>7
<1> QED
  BY <1>3, <1>5, <1>8 DEF ReadingOK

(* A reading is put on the screen.                                          *)
LEMMA PutShows ==
  ASSUME AsInv, NEW r, ReadingOK(r), AS!Complete(r), AS!Put(r),
         NEW keys \in SUBSET Alerts, Fresh(r, keys), settled' = settled \cup keys
  PROVE  /\ asActive' \subseteq Alerts /\ asHistory' \in [Alerts -> AS!Statuses] /\ asOvertaken' \in BOOLEAN
         /\ AS!ResolvedStaysOff'
<1>1. r \in AS!Reading /\ Fresh(r, r.since) /\ asOvertaken \in BOOLEAN
  BY DEF ReadingOK, AsInv, AS!TypeOK
<1>2. asActive' = r.active[1] /\ asHistory' = r.history[1]
      /\ asOvertaken' = (asOvertaken \/ ~(settled \subseteq r.since))
      /\ r.active # AS!NotYet /\ r.history # AS!NotYet
  BY DEF AS!Put, AS!Complete
<1>3. asActive' \subseteq Alerts /\ asHistory' \in [Alerts -> AS!Statuses]
  <2>1. PICK s \in SUBSET Alerts : r.active = <<s>>
    BY <1>1, <1>2 DEF AS!Reading
  <2>2. PICK h \in [Alerts -> AS!Statuses] : r.history = <<h>>
    BY <1>1, <1>2 DEF AS!Reading
  <2> QED
    BY <1>2, <2>1, <2>2
<1>4. ASSUME ~asOvertaken', NEW a \in settled' PROVE a \notin asActive' /\ asHistory'[a] # "firing"
  <2>1. a \in r.since \/ a \in keys
    BY <1>2, <1>4
  <2> QED
    BY <1>1, <1>2, <2>1 DEF Fresh
<1> QED
  BY <1>1, <1>2, <1>3, <1>4 DEF AS!ResolvedStaysOff, AS!Shown

(* What stays when the server only learns that more is resolved.            *)
LEMMA OpsKept ==
  ASSUME AsInv, NEW o, OpOK(o), settled \subseteq settled',
         \A a \in Alerts : server[a] = "resolved" => server'[a] = "resolved",
         o.keys \subseteq Alerts
  PROVE  OpOK(o)'
BY DEF OpOK, ReadingOK, Fresh

LEMMA AsKept ==
  ASSUME AsInv, [AS!Next]_(AS!vars)
  PROVE  AsInv'
<1>1. /\ server \in [Alerts -> AS!Statuses]
      /\ asActive \subseteq Alerts /\ asHistory \in [Alerts -> AS!Statuses]
      /\ load \in {<<>>} \cup {<<r>> : r \in AS!Reading}
      /\ ops \subseteq AS!Op /\ begun \in 0 .. MaxResolves
      /\ busy \in BOOLEAN /\ resolvingRef \in BOOLEAN
      /\ skipped \in BOOLEAN /\ settled \subseteq Alerts /\ asOvertaken \in BOOLEAN /\ told \subseteq Alerts
  BY DEF AsInv, AS!TypeOK
<1>2. /\ busy /\ ~skipped => load # <<>>
      /\ \A a \in told : server[a] = "resolved"
      /\ \A a \in settled : server[a] = "resolved"
      /\ load # <<>> => ReadingOK(load[1])
      /\ \A o \in ops : OpOK(o)
      /\ AS!ResolvedStaysOff
  BY DEF AsInv, AS!RefreshingEnds, AS!ToldIsDone
<1>3. \A r \in AS!Reading : <<r>> # <<>> /\ <<r>>[1] = r
  OBVIOUS
<1>4. \A o \in AS!Op : /\ o.keys \subseteq Alerts /\ o.todo \subseteq Alerts /\ o.failed \in BOOLEAN
                       /\ o.reading \in AS!Reading
  BY DEF AS!Op
<1>5. ReadingOK(AS!Sent) /\ AS!Sent \in AS!Reading /\ \A keys : Fresh(AS!Sent, keys)
  BY <1>1, SentIsOK DEF ReadingOK
<1>6. ASSUME UNCHANGED <<settled, asActive, asHistory, asOvertaken>> PROVE AS!ResolvedStaysOff'
  BY <1>2, <1>6 DEF AS!ResolvedStaysOff, AS!Shown
<1>7. ASSUME UNCHANGED <<server, settled>>
      PROVE  (\A o : OpOK(o)' <=> OpOK(o)) /\ (\A r : ReadingOK(r)' <=> ReadingOK(r))
  BY <1>7 DEF OpOK, ReadingOK, Fresh
<1>8. ASSUME AS!Tick PROVE AsInv'
  <2>1. /\ \/ load' = <<>> /\ skipped' = TRUE /\ busy' = busy
           \/ load' = <<AS!Sent>> /\ skipped' = FALSE /\ busy' = TRUE
        /\ UNCHANGED <<server, asActive, asHistory, ops, begun, resolvingRef, settled, asOvertaken, told>>
    BY <1>8 DEF AS!Tick, AS!screen
  <2>2. load' \in {<<>>} \cup {<<r>> : r \in AS!Reading} /\ (load' # <<>> => ReadingOK(load'[1]))
        /\ (busy' /\ ~skipped' => load' # <<>>)
    BY <1>3, <1>5, <2>1
  <2>3. AS!TypeOK'
    BY <1>1, <2>1, <2>2 DEF AS!TypeOK
  <2> QED
    BY <1>2, <1>6, <1>7, <2>1, <2>2, <2>3 DEF AsInv, AS!RefreshingEnds, AS!ToldIsDone
<1>9. ASSUME AS!LoadReads PROVE AsInv'
  <2>1. PICK q \in AS!Reads(load[1]) : load' = <<q>>
    BY <1>9 DEF AS!LoadReads
  <2>2. load # <<>> /\ UNCHANGED <<server, asActive, asHistory, ops, begun, busy, resolvingRef, skipped, settled, asOvertaken, told>>
    BY <1>9 DEF AS!LoadReads, AS!screen, AS!past
  <2>3. ReadingOK(q)
    BY <1>2, <2>1, <2>2, ReadsAreOK
  <2>4. load' \in {<<>>} \cup {<<r>> : r \in AS!Reading} /\ load'[1] = q /\ load' # <<>>
    BY <2>1, <2>3 DEF ReadingOK
  <2>5. AS!TypeOK'
    BY <1>1, <2>2, <2>4 DEF AS!TypeOK
  <2> QED
    BY <1>2, <1>6, <1>7, <2>2, <2>3, <2>4, <2>5 DEF AsInv, AS!RefreshingEnds, AS!ToldIsDone
<1>10. ASSUME AS!LoadEnds PROVE AsInv'
  <2>1. /\ load # <<>> /\ AS!Complete(load[1]) /\ AS!Put(load[1]) /\ load' = <<>> /\ busy' = FALSE
        /\ UNCHANGED <<server, ops, begun, resolvingRef, skipped, settled, told>>
    BY <1>10 DEF AS!LoadEnds
  <2>2. Fresh(load[1], {}) /\ settled' = settled \cup {}
    BY <2>1 DEF Fresh
  <2>3. /\ asActive' \subseteq Alerts /\ asHistory' \in [Alerts -> AS!Statuses] /\ asOvertaken' \in BOOLEAN
        /\ AS!ResolvedStaysOff'
    BY <1>2, <2>1, <2>2, PutShows
  <2>4. AS!TypeOK'
    BY <1>1, <2>1, <2>3 DEF AS!TypeOK
  <2> QED
    BY <1>2, <1>7, <2>1, <2>3, <2>4 DEF AsInv, AS!RefreshingEnds, AS!ToldIsDone
<1>11. ASSUME AS!LoadFails PROVE AsInv'
  <2>1. load' = <<>> /\ busy' = FALSE
        /\ UNCHANGED <<server, asActive, asHistory, ops, begun, resolvingRef, skipped, settled, asOvertaken, told>>
    BY <1>11 DEF AS!LoadFails, AS!screen, AS!past
  <2>2. AS!TypeOK'
    BY <1>1, <2>1 DEF AS!TypeOK
  <2> QED
    BY <1>2, <1>6, <1>7, <2>1, <2>2 DEF AsInv, AS!RefreshingEnds, AS!ToldIsDone
(* The operations touch the load and what is busy only through the server.  *)
<1>12. ASSUME UNCHANGED <<load, busy, skipped>>, ops' \subseteq AS!Op, begun' \in 0 .. MaxResolves,
              resolvingRef' \in BOOLEAN, server' \in [Alerts -> AS!Statuses],
              \A a \in Alerts : server[a] = "resolved" => server'[a] = "resolved",
              UNCHANGED <<asActive, asHistory, settled, asOvertaken, told>>,
              \A o \in ops' : OpOK(o)'
       PROVE  AsInv'
  <2>1. AS!TypeOK'
    BY <1>1, <1>12 DEF AS!TypeOK
  <2>2. load' # <<>> => ReadingOK(load[1])'
    BY <1>2, <1>12 DEF ReadingOK, Fresh
  <2> QED
    BY <1>1, <1>2, <1>6, <1>12, <2>1, <2>2 DEF AsInv, AS!RefreshingEnds, AS!ToldIsDone
<1>13. ASSUME NEW kind \in {"one", "selected", "stale"}, NEW keys \in SUBSET Alerts, AS!Begin(kind, keys),
              resolvingRef' \in BOOLEAN
       PROVE  AsInv'
  <2> DEFINE n == [kind |-> kind, keys |-> keys, todo |-> keys, failed |-> FALSE, reading |-> AS!Sent]
  <2>1. n \in AS!Op /\ n.keys = keys /\ n.todo = keys /\ n.reading = AS!Sent
    BY <1>5 DEF AS!Op
  <2>2. OpOK(n)
    BY <1>5, <2>1 DEF OpOK, AS!Sent
  <2>3. ops' = ops \cup {n} /\ begun' \in 0 .. MaxResolves
        /\ UNCHANGED <<server, asActive, asHistory, load, busy, skipped, settled, asOvertaken, told>>
    BY <1>1, <1>13, PartsFit DEF AS!Begin, AS!screen, AS!past, AS!ConstantsOK
  <2> HIDE DEF n
  <2>4. \A o \in ops' : OpOK(o)'
    BY <1>2, <1>7, <2>2, <2>3
  <2> QED
    BY <1>1, <1>12, <1>13, <2>1, <2>3, <2>4
<1>14. ASSUME NEW a \in Alerts, AS!Resolve(a) PROVE AsInv'
  BY <1>1, <1>13, <1>14 DEF AS!Resolve
<1>15. ASSUME NEW keys \in SUBSET Alerts, AS!ResolveSelected(keys) PROVE AsInv'
  BY <1>1, <1>13, <1>15 DEF AS!ResolveSelected
<1>16. ASSUME NEW keys \in SUBSET Alerts, AS!ResolveStale(keys) PROVE AsInv'
  BY <1>13, <1>16 DEF AS!ResolveStale
(* One operation goes on, or ends.                                          *)
<1>17. ASSUME NEW o \in ops, NEW keys \in SUBSET o.todo, AS!Resolved(o, keys) PROVE AsInv'
  <2>1. PICK req : req = AS!Sent
    OBVIOUS
  <2>2. PICK p : p = [o EXCEPT !.todo = @ \ keys, !.reading = req]
    OBVIOUS
  <2>3. /\ server' = [a \in Alerts |-> IF a \in keys THEN "resolved" ELSE server[a]]
        /\ ops' = (ops \ {o}) \cup {p}
        /\ UNCHANGED <<asActive, asHistory, load, begun, busy, resolvingRef, skipped, settled, asOvertaken, told>>
    BY <1>17, <2>1, <2>2 DEF AS!Resolved, AS!Becomes, AS!screen, AS!past
  <2>4. p \in AS!Op /\ p.keys = o.keys /\ p.todo = o.todo \ keys /\ p.reading = req
    BY <1>1, <1>5, <2>1, <2>2 DEF AS!Op
  <2>5. server' \in [Alerts -> AS!Statuses]
        /\ \A a \in Alerts : server[a] = "resolved" => server'[a] = "resolved"
    BY <1>1, <2>3 DEF AS!Statuses
  <2>6. ASSUME NEW x \in ops PROVE OpOK(x)'
    BY <1>1, <1>2, <1>4, <2>3, <2>5, OpsKept
  <2>7. OpOK(p)'
    <3>1. \A a \in o.keys \ o.todo : server'[a] = "resolved"
      BY <1>1, <1>2, <1>4, <2>5 DEF OpOK
    <3>2. \A a \in p.keys \ p.todo : server'[a] = "resolved"
      BY <1>1, <1>4, <2>3, <2>4, <3>1
    <3>3. req.active = AS!NotYet /\ req.history = AS!NotYet
      BY <2>1 DEF AS!Sent
    <3>4. ReadingOK(req)' /\ Fresh(req, p.keys)'
      BY <1>5, <2>1, <2>3, <3>3 DEF ReadingOK, Fresh
    <3> QED
      BY <2>4, <3>2, <3>3, <3>4 DEF OpOK
  <2> QED
    BY <1>1, <1>12, <2>3, <2>4, <2>5, <2>6, <2>7
<1>18. ASSUME NEW o \in ops, NEW p \in AS!Op, OpOK(p), AS!Becomes(o, p), resolvingRef' \in BOOLEAN,
              UNCHANGED <<server, asActive, asHistory, load, begun, busy, skipped, settled, asOvertaken, told>>
       PROVE  AsInv'
  <2>1. \A x \in ops' : OpOK(x)' /\ x \in AS!Op
    BY <1>1, <1>2, <1>7, <1>18 DEF AS!Becomes
  <2> QED
    BY <1>1, <1>12, <1>18, <2>1
<1>19. ASSUME ops' \subseteq ops, resolvingRef' \in BOOLEAN,
              UNCHANGED <<server, asActive, asHistory, load, begun, busy, skipped, settled, asOvertaken, told>>
       PROVE  AsInv'
  <2>1. \A x \in ops' : OpOK(x)' /\ x \in AS!Op
    BY <1>1, <1>2, <1>7, <1>19
  <2> QED
    BY <1>1, <1>12, <1>19, <2>1
<1>20. ASSUME NEW o \in ops, AS!Refused(o) PROVE AsInv'
  <2>1. \/ AS!Becomes(o, [o EXCEPT !.failed = TRUE])
        \/ ops' = ops \ {o}
    BY <1>20 DEF AS!Refused
  <2>2. resolvingRef' \in BOOLEAN /\ UNCHANGED <<server, asActive, asHistory, load, begun, busy, skipped, settled, asOvertaken, told>>
    BY <1>1, <1>20 DEF AS!Refused, AS!screen, AS!past
  <2>3. [o EXCEPT !.failed = TRUE] \in AS!Op /\ OpOK([o EXCEPT !.failed = TRUE])
    BY <1>1, <1>2 DEF AS!Op, OpOK
  <2> QED
    BY <1>18, <1>19, <2>1, <2>2, <2>3
<1>21. ASSUME NEW o \in ops, AS!FailedOpEnds(o) \/ AS!OpReadFails(o) PROVE AsInv'
  BY <1>1, <1>19, <1>21 DEF AS!FailedOpEnds, AS!OpReadFails, AS!screen, AS!past
<1>22. ASSUME NEW o \in ops, AS!OpReads(o) PROVE AsInv'
  <2>1. PICK q \in AS!Reads(o.reading) : AS!Becomes(o, [o EXCEPT !.reading = q])
    BY <1>22 DEF AS!OpReads
  <2>2. o.todo = {} /\ resolvingRef' \in BOOLEAN
        /\ UNCHANGED <<server, asActive, asHistory, load, begun, busy, skipped, settled, asOvertaken, told>>
    BY <1>1, <1>22 DEF AS!OpReads, AS!screen, AS!past
  <2>3. o \in AS!Op /\ OpOK(o) /\ ReadingOK(o.reading) /\ Fresh(o.reading, o.keys) /\ o.keys \in SUBSET Alerts
        /\ \A a \in o.keys : server[a] = "resolved"
    BY <1>1, <1>2, <1>4, <2>2 DEF OpOK
  <2>4. ReadingOK(q) /\ Fresh(q, o.keys)
    BY <2>3, ReadsAreOK
  <2> DEFINE p == [o EXCEPT !.reading = q]
  <2>5. p \in AS!Op /\ p.keys = o.keys /\ p.todo = o.todo /\ p.reading = q
    BY <2>3, <2>4 DEF AS!Op, ReadingOK
  <2> HIDE DEF p
  <2>6. OpOK(p)
    BY <2>2, <2>3, <2>4, <2>5 DEF OpOK
  <2> QED
    BY <1>18, <2>1, <2>2, <2>5, <2>6 DEF p
<1>23. ASSUME NEW o \in ops, AS!OpEnds(o) PROVE AsInv'
  <2>1. /\ o.todo = {} /\ AS!Complete(o.reading) /\ AS!Put(o.reading)
        /\ settled' = settled \cup o.keys /\ told' = told \cup o.keys
        /\ resolvingRef' = (resolvingRef /\ o.kind # "stale")
        /\ ops' = ops \ {o}
        /\ UNCHANGED <<server, load, begun, busy, skipped>>
    BY <1>23 DEF AS!OpEnds
  <2>2. OpOK(o) /\ ReadingOK(o.reading) /\ Fresh(o.reading, o.keys) /\ o.keys \in SUBSET Alerts
        /\ \A a \in o.keys : server[a] = "resolved"
    BY <1>1, <1>2, <1>4, <2>1 DEF OpOK
  <2>3. /\ asActive' \subseteq Alerts /\ asHistory' \in [Alerts -> AS!Statuses] /\ asOvertaken' \in BOOLEAN
        /\ AS!ResolvedStaysOff'
    BY <2>1, <2>2, PutShows
  <2>4. AS!TypeOK'
    BY <1>1, <2>1, <2>2, <2>3 DEF AS!TypeOK
  <2>5. \A x \in ops' : OpOK(x)'
    BY <1>1, <1>2, <1>4, <2>1, OpsKept
  <2>6. load' # <<>> => ReadingOK(load[1])'
    BY <1>2, <2>1 DEF ReadingOK, Fresh
  <2> QED
    BY <1>2, <2>1, <2>2, <2>3, <2>4, <2>5, <2>6 DEF AsInv, AS!RefreshingEnds, AS!ToldIsDone
<1>24. ASSUME NEW a \in Alerts, AS!ServerChanges(a) PROVE AsInv'
  <2>1. /\ server' = [server EXCEPT ![a] = IF @ = "absent" THEN "firing" ELSE "resolved"]
        /\ UNCHANGED <<asActive, asHistory, load, ops, begun, busy, resolvingRef, skipped, settled, asOvertaken, told>>
    BY <1>24 DEF AS!ServerChanges, AS!screen, AS!past
  <2>2. server' \in [Alerts -> AS!Statuses]
        /\ \A b \in Alerts : server[b] = "resolved" => server'[b] = "resolved"
    BY <1>1, <2>1 DEF AS!Statuses
  <2>3. \A o \in ops' : OpOK(o)'
    BY <1>1, <1>2, <1>4, <2>1, <2>2, OpsKept
  <2> QED
    BY <1>1, <1>12, <2>1, <2>2, <2>3
<1>25. CASE UNCHANGED AS!vars
  BY <1>1, <1>19, <1>25 DEF AS!vars, AS!screen, AS!past
<1> QED
  BY <1>8, <1>9, <1>10, <1>11, <1>14, <1>15, <1>16, <1>17, <1>20, <1>21, <1>22, <1>23, <1>24, <1>25
  DEF AS!Next

-----------------------------------------------------------------------------
(* Expired sessions                                                         *)

ReConstants == MaxChecks \in Nat /\ MaxOpened \in Nat /\ MaxPastes \in Nat

LEMMA ReBounds == ReConstants /\ \A S : RE!Cardinality(S) = Cardinality(S)
  BY PartsFit DEF ReConstants, RE!ConstantsOK, RE!Cardinality, Cardinality

ReValues ==
    /\ authExpired \in BOOLEAN /\ refreshing \in BOOLEAN /\ showReAuth \in BOOLEAN
    /\ loginUrl \in BOOLEAN /\ errorLine \in BOOLEAN /\ dismissed \in BOOLEAN
    /\ pasteState \in {"idle", "submitting", "ok", "error"}
    /\ state \in {"idle", "running", "done", "error"}
    /\ login \in {"none", "running", "succeeded", "failed", "ended"}

(* A refresh belongs to a check, and a modal to an opening.                 *)
ReNumbers ==
    /\ refreshes \in Nat /\ checks \in Nat /\ refreshes <= checks /\ checks <= MaxChecks
    /\ opened \in Nat /\ opened <= MaxOpened
    /\ login = "running" => showReAuth
    /\ showReAuth => opened >= 1

(* A timer comes of a paste or of the one login of an opening.              *)
LoginsRunning == IF login = "running" THEN 1 ELSE 0
ReTimers ==
    /\ pastes \subseteq 1 .. MaxOpened /\ timers \in Nat
    /\ Cardinality(pastes) + timers + LoginsRunning <= MaxPastes + opened

ReInv == ReValues /\ ReNumbers /\ ReTimers /\ RE!LockButtonReturns /\ RE!ExpiryIsHandled

LEMMA PastesAreCounted == pastes \subseteq 1 .. MaxOpened => IsFiniteSet(pastes) /\ Cardinality(pastes) \in Nat
<1>1. IsFiniteSet(1 .. MaxOpened)
  BY ReBounds, FS_Interval DEF ReConstants
<1> QED
  BY <1>1, FS_Subset, FS_CardinalityType

LEMMA ReTyped == ReInv => RE!TypeOK
<1> SUFFICES ASSUME ReInv PROVE RE!TypeOK
  OBVIOUS
<1>1. timers \in 0 .. MaxPastes + MaxOpened
  BY PastesAreCounted, ReBounds DEF ReInv, ReNumbers, ReTimers, LoginsRunning, ReConstants
<1>2. refreshes \in 0 .. MaxChecks /\ checks \in 0 .. MaxChecks /\ opened \in 0 .. MaxOpened
  BY ReBounds DEF ReInv, ReNumbers, ReConstants
<1>3. {authExpired, refreshing, showReAuth, loginUrl, errorLine, dismissed} \subseteq BOOLEAN
  BY DEF ReInv, ReValues
<1> QED
  BY <1>1, <1>2, <1>3 DEF ReInv, ReValues, ReTimers, RE!TypeOK

LEMMA ReStarts == RE!Init => ReInv
<1> SUFFICES ASSUME RE!Init PROVE ReInv
  OBVIOUS
<1>1. ReValues
  BY DEF RE!Init, ReValues
<1>2. ReNumbers
  BY ReBounds DEF RE!Init, ReNumbers, ReConstants
<1>3. ReTimers
  BY ReBounds, FS_EmptySet DEF RE!Init, ReTimers, LoginsRunning, ReConstants
<1> QED
  BY <1>1, <1>2, <1>3 DEF RE!Init, ReInv, RE!LockButtonReturns, RE!ExpiryIsHandled

LEMMA ReValuesKept ==
  ASSUME ReInv, [RE!Next]_(RE!vars)
  PROVE  ReValues'
<1> USE DEF ReInv, ReValues
<1>1. CASE RE!Expire
  BY <1>1 DEF RE!Expire, RE!modal
<1>2. CASE RE!Refreshed
  BY <1>2 DEF RE!Refreshed, RE!modal
<1>3. CASE RE!NotRefreshed
  BY <1>3 DEF RE!NotRefreshed, RE!OpenModal, RE!modal
<1>4. CASE RE!Ask
  BY <1>4 DEF RE!Ask, RE!OpenModal, RE!session, RE!modal
<1>5. CASE RE!Dismiss
  BY <1>5 DEF RE!Dismiss, RE!CloseModal, RE!session
<1>6. CASE RE!SubmitPaste
  BY <1>6 DEF RE!SubmitPaste, RE!session
<1>7. ASSUME NEW m \in pastes, NEW outcome \in {"ok", "error"}, RE!Pasted(m, outcome) PROVE ReValues'
  BY <1>7 DEF RE!Pasted, RE!session
<1>8. CASE RE!TimerFires
  BY <1>8 DEF RE!TimerFires, RE!CloseModal
<1>9. CASE RE!UrlArrives \/ RE!LoginSucceeds
  BY <1>9 DEF RE!UrlArrives, RE!LoginSucceeds, RE!session
<1>10. CASE RE!LoginFails \/ RE!StreamBreaks
  <2>1. errorLine' \in BOOLEAN
    BY <1>10 DEF RE!LoginFails, RE!StreamBreaks
  <2> QED
    BY <1>10, <2>1 DEF RE!LoginFails, RE!StreamBreaks, RE!session
<1>11. CASE RE!StreamEnds
  BY <1>11 DEF RE!StreamEnds, RE!session
<1>12. CASE UNCHANGED RE!vars
  BY <1>12 DEF RE!vars, RE!session, RE!modal
<1> QED
  BY <1>1, <1>2, <1>3, <1>4, <1>5, <1>6, <1>7, <1>8, <1>9, <1>10, <1>11, <1>12 DEF RE!Next

LEMMA ReNumbersKept ==
  ASSUME ReInv, [RE!Next]_(RE!vars)
  PROVE  ReNumbers' /\ RE!LockButtonReturns' /\ RE!ExpiryIsHandled'
<1> USE ReBounds DEF ReInv, ReNumbers, RE!LockButtonReturns, RE!ExpiryIsHandled, ReConstants
<1>1. CASE RE!Expire
  BY <1>1 DEF RE!Expire, RE!modal
<1>2. CASE RE!Refreshed
  BY <1>2 DEF RE!Refreshed, RE!modal
<1>3. CASE RE!NotRefreshed
  BY <1>3 DEF RE!NotRefreshed, RE!OpenModal, RE!modal
<1>4. CASE RE!Ask
  BY <1>4 DEF RE!Ask, RE!OpenModal, RE!session, RE!modal
<1>5. CASE RE!Dismiss
  BY <1>5 DEF RE!Dismiss, RE!CloseModal, RE!session
<1>6. CASE RE!SubmitPaste
  BY <1>6 DEF RE!SubmitPaste, RE!session
<1>7. ASSUME NEW m \in pastes, NEW outcome \in {"ok", "error"}, RE!Pasted(m, outcome)
      PROVE  ReNumbers' /\ RE!LockButtonReturns' /\ RE!ExpiryIsHandled'
  BY <1>7 DEF RE!Pasted, RE!session
<1>8. CASE RE!TimerFires
  BY <1>8 DEF RE!TimerFires, RE!CloseModal
<1>9. CASE RE!UrlArrives \/ RE!LoginSucceeds \/ RE!LoginFails \/ RE!StreamBreaks \/ RE!StreamEnds
  BY <1>9 DEF RE!UrlArrives, RE!LoginSucceeds, RE!LoginFails, RE!StreamBreaks, RE!StreamEnds, RE!session
<1>10. CASE UNCHANGED RE!vars
  BY <1>10 DEF RE!vars, RE!session, RE!modal
<1> QED
  BY <1>1, <1>2, <1>3, <1>4, <1>5, <1>6, <1>7, <1>8, <1>9, <1>10 DEF RE!Next

LEMMA ReTimersKept ==
  ASSUME ReInv, [RE!Next]_(RE!vars)
  PROVE  ReTimers'
<1>1. /\ IsFiniteSet(pastes) /\ Cardinality(pastes) \in Nat /\ timers \in Nat /\ opened \in Nat /\ MaxPastes \in Nat
      /\ pastes \subseteq 1 .. MaxOpened
      /\ Cardinality(pastes) + timers + LoginsRunning <= MaxPastes + opened
      /\ opened <= MaxOpened /\ (login = "running" => showReAuth) /\ (showReAuth => opened >= 1)
  BY PastesAreCounted, ReBounds DEF ReInv, ReNumbers, ReTimers, ReConstants
(* What neither pastes nor reports.                                         *)
<1>2. ASSUME UNCHANGED pastes, timers' \in Nat, opened' \in Nat,
             timers' + LoginsRunning' - opened' <= timers + LoginsRunning - opened
      PROVE  ReTimers'
  <2>1. LoginsRunning \in Nat /\ LoginsRunning' \in Nat
    BY DEF LoginsRunning
  <2>2. Cardinality(pastes') = Cardinality(pastes)
    BY <1>2
  <2>3. PICK a, b, t, o, n : /\ a = LoginsRunning /\ b = LoginsRunning' /\ t = timers' /\ o = opened'
                             /\ n = Cardinality(pastes)
    OBVIOUS
  <2>4. /\ a \in Nat /\ b \in Nat /\ t \in Nat /\ o \in Nat /\ n \in Nat
        /\ t + b - o <= timers + a - opened /\ n + timers + a <= MaxPastes + opened
    BY <1>1, <1>2, <2>1, <2>3
  <2>5. n + t + b <= MaxPastes + o
    BY <1>1, <2>4
  <2> QED
    BY <1>1, <1>2, <2>2, <2>3, <2>5 DEF ReTimers
<1>3. CASE RE!Expire \/ RE!Refreshed \/ RE!Dismiss
  BY <1>1, <1>2, <1>3 DEF RE!Expire, RE!Refreshed, RE!Dismiss, RE!CloseModal, RE!modal, RE!session, LoginsRunning
<1>4. CASE RE!NotRefreshed \/ RE!Ask
  BY <1>1, <1>2, <1>4 DEF RE!NotRefreshed, RE!Ask, RE!OpenModal, RE!modal, LoginsRunning
<1>5. CASE RE!UrlArrives \/ RE!LoginSucceeds \/ RE!LoginFails \/ RE!StreamEnds \/ RE!StreamBreaks
  BY <1>1, <1>2, <1>5
  DEF RE!UrlArrives, RE!LoginSucceeds, RE!LoginFails, RE!StreamEnds, RE!StreamBreaks, LoginsRunning
<1>6. CASE RE!TimerFires
  BY <1>1, <1>2, <1>6 DEF RE!TimerFires, RE!CloseModal, LoginsRunning
<1>7. CASE UNCHANGED RE!vars
  BY <1>1, <1>2, <1>7 DEF RE!vars, RE!modal, LoginsRunning
<1>8. CASE RE!SubmitPaste
  <2>1. /\ showReAuth /\ Cardinality(pastes) + timers < MaxPastes /\ pastes' = pastes \cup {opened}
        /\ UNCHANGED <<timers, opened, login>>
    BY <1>8, ReBounds DEF RE!SubmitPaste
  <2>2. Cardinality(pastes') \in Nat /\ Cardinality(pastes') <= Cardinality(pastes) + 1
    <3>1. IsFiniteSet(pastes \cup {opened}) /\ Cardinality(pastes \cup {opened}) \in {Cardinality(pastes), Cardinality(pastes) + 1}
      BY <1>1, FS_AddElement
    <3> QED
      BY <1>1, <2>1, <3>1
  <2>3. opened \in 1 .. MaxOpened
    BY <1>1, <2>1, ReBounds DEF ReConstants
  <2>4. Cardinality(pastes') + timers' + LoginsRunning' <= MaxPastes + opened'
    BY <1>1, <2>1, <2>2, <2>3 DEF LoginsRunning
  <2> QED
    BY <1>1, <2>1, <2>3, <2>4 DEF ReTimers
<1>9. ASSUME NEW m \in pastes, NEW outcome \in {"ok", "error"}, RE!Pasted(m, outcome) PROVE ReTimers'
  <2>1. /\ pastes' = pastes \ {m} /\ timers' \in {timers, timers + 1} /\ UNCHANGED <<opened, login>>
    BY <1>9 DEF RE!Pasted
  <2>2. Cardinality(pastes') = Cardinality(pastes) - 1
    BY <1>1, <2>1, FS_RemoveElement
  <2>3. LoginsRunning' = LoginsRunning /\ LoginsRunning \in Nat
    BY <2>1 DEF LoginsRunning
  <2>4. Cardinality(pastes') + timers' + LoginsRunning' <= MaxPastes + opened'
    BY <1>1, <2>1, <2>2, <2>3
  <2> QED
    BY <1>1, <2>1, <2>4 DEF ReTimers
<1> QED
  BY <1>3, <1>4, <1>5, <1>6, <1>7, <1>8, <1>9 DEF RE!Next

LEMMA ReKept ==
  ASSUME ReInv, [RE!Next]_(RE!vars)
  PROVE  ReInv'
BY ReValuesKept, ReNumbersKept, ReTimersKept DEF ReInv

-----------------------------------------------------------------------------
(* The terminal                                                             *)

(* A request that is not answered is of the execution that can be aborted,  *)
(* which is the last one; the history has earlier ones until it ends.       *)
TermInv ==
    /\ inst \in Nodes /\ splitInstances \subseteq Nodes /\ termSelectedInstance \in Nodes
    /\ terminalInstance \in Nodes \cup {TERM!NoInstance}
    /\ nodeResults \in [Nodes -> {TERM!Empty} \cup
           [state : {"loading", "result", "error", "cancelled"}, exec : 1 .. MaxExecutions]]
    /\ executions \in 0 .. MaxExecutions /\ controller \in 0 .. MaxExecutions
    /\ termRequests \subseteq TERM!Request
    /\ \A r \in termRequests : r.exec = controller /\ r.exec = executions
    /\ queryHistory \in Seq(1 .. MaxExecutions)
    /\ \A k \in DOMAIN queryHistory : queryHistory[k] <= executions
    /\ termRequests # {} => \A k \in DOMAIN queryHistory : queryHistory[k] < executions
    /\ TERM!RunningEnds /\ TERM!RowsAreOfLastQuery /\ TERM!HistoryIsOrdered

LEMMA TermStarts == TERM!Init => TermInv
<1> SUFFICES ASSUME TERM!Init PROVE TermInv
  OBVIOUS
<1>1. /\ inst \in Nodes /\ splitInstances = {} /\ termSelectedInstance \in Nodes
      /\ terminalInstance \in Nodes \cup {TERM!NoInstance}
      /\ nodeResults = [i \in Nodes |-> TERM!Empty] /\ termRunning = FALSE /\ controller = 0
      /\ termRequests = {} /\ executions = 0 /\ queryHistory = <<>>
  BY DEF TERM!Init
<1>2. MaxExecutions \in Nat
  BY PartsFit DEF TERM!ConstantsOK
<1>3. executions \in 0 .. MaxExecutions /\ controller \in 0 .. MaxExecutions
  BY <1>1, <1>2
<1>4. queryHistory \in Seq(1 .. MaxExecutions) /\ DOMAIN queryHistory = {}
  BY <1>1
<1>5. \A i \in Nodes : nodeResults[i] = TERM!Empty
  BY <1>1
<1>6. TERM!Empty.state = "empty"
  BY DEF TERM!Empty
<1>7. TERM!RunningEnds /\ TERM!RowsAreOfLastQuery /\ TERM!HistoryIsOrdered
  BY <1>1, <1>4, <1>5, <1>6 DEF TERM!RunningEnds, TERM!RowsAreOfLastQuery, TERM!HistoryIsOrdered
<1> QED
  BY <1>1, <1>3, <1>4, <1>7 DEF TermInv

LEMMA TermKept ==
  ASSUME TermInv, [TERM!Next]_(TERM!vars)
  PROVE  TermInv'
<1> DEFINE Panes == {TERM!Empty} \cup
               [state : {"loading", "result", "error", "cancelled"}, exec : 1 .. MaxExecutions]
<1>1. /\ inst \in Nodes /\ splitInstances \subseteq Nodes /\ termSelectedInstance \in Nodes
      /\ terminalInstance \in Nodes \cup {TERM!NoInstance}
      /\ nodeResults \in [Nodes -> Panes]
      /\ executions \in 0 .. MaxExecutions /\ controller \in 0 .. MaxExecutions
      /\ termRequests \subseteq TERM!Request
      /\ \A r \in termRequests : r.exec = controller /\ r.exec = executions
      /\ queryHistory \in Seq(1 .. MaxExecutions)
      /\ \A k \in DOMAIN queryHistory : queryHistory[k] <= executions
      /\ termRequests # {} => \A k \in DOMAIN queryHistory : queryHistory[k] < executions
  BY DEF TermInv
<1>2. /\ termRunning <=> termRequests # {}
      /\ \A i \in Nodes : nodeResults[i].state = "loading" =>
            \E r \in termRequests : r.node = i /\ r.exec = nodeResults[i].exec
      /\ \A i \in Nodes : nodeResults[i].state = "result" => nodeResults[i].exec = executions
      /\ \A m, n \in DOMAIN queryHistory : m < n => queryHistory[m] > queryHistory[n]
  BY DEF TermInv, TERM!RunningEnds, TERM!RowsAreOfLastQuery, TERM!HistoryIsOrdered
<1>3. MaxExecutions \in Nat \ {0} /\ HistoryLimit \in Nat \ {0}
  BY PartsFit DEF TERM!ConstantsOK
<1>4. TERM!Empty.state = "empty" /\ TERM!Empty \in Panes
  BY DEF TERM!Empty
<1>5. \A st \in {"loading", "result", "error", "cancelled"}, e \in 1 .. MaxExecutions :
         TERM!Pane(st, e) \in Panes /\ TERM!Pane(st, e).state = st /\ TERM!Pane(st, e).exec = e
  BY DEF TERM!Pane
<1>6. \A r \in termRequests : /\ r.exec \in 1 .. MaxExecutions /\ r.node \in Nodes
                              /\ r.as \in {"first", "added"} /\ r.refused \in BOOLEAN
  BY <1>1 DEF TERM!Request
<1>7. \A p \in Panes : p # TERM!Empty => p.exec \in 1 .. MaxExecutions
  OBVIOUS
<1>8. \A p \in Panes : p.state \in {"empty", "loading", "result", "error", "cancelled"}
                       /\ (p.state # "empty" => p.exec \in 1 .. MaxExecutions)
  BY <1>4
<1> HIDE DEF Panes
<1>9. /\ DOMAIN queryHistory = 1 .. Len(queryHistory) /\ Len(queryHistory) \in Nat
      /\ \A k \in 1 .. Len(queryHistory) : queryHistory[k] \in 1 .. MaxExecutions
  <2>1. Len(queryHistory) \in Nat /\ DOMAIN queryHistory = 1 .. Len(queryHistory)
    BY <1>1, LenProperties
  <2> QED
    BY <1>1, <2>1, ElementOfSeq
(* What an abort leaves in the panes.                                       *)
<1>10. ASSUME NEW panes \in [Nodes -> Panes]
      PROVE  /\ TERM!AfterAbort(panes) \in [Nodes -> Panes]
             /\ \A i \in Nodes : \/ TERM!AfterAbort(panes)[i] = panes[i]
                                 \/ TERM!AfterAbort(panes)[i].state = "error"
  <2>1. \A r \in termRequests : controller \in 1 .. MaxExecutions
    BY <1>1, <1>6
  <2>2. \A r \in termRequests : TERM!Pane("error", controller) \in Panes
                                /\ TERM!Pane("error", controller).state = "error"
    BY <1>5, <2>1
  <2> QED
    BY <2>2 DEF TERM!AfterAbort
(* Only the selectors change.                                               *)
<1>11. ASSUME inst' \in Nodes, splitInstances' \subseteq Nodes, termSelectedInstance' \in Nodes,
              terminalInstance' \in Nodes \cup {TERM!NoInstance},
              UNCHANGED <<nodeResults, termRunning, controller, termRequests, queryHistory, executions>>
       PROVE  TermInv'
  BY <1>11, <1>1, <1>2 DEF TermInv, TERM!RunningEnds, TERM!RowsAreOfLastQuery, TERM!HistoryIsOrdered, Panes
<1>12. ASSUME TERM!execute PROVE TermInv'
  <2>1. PICK e : e = executions + 1
    OBVIOUS
  <2>2. PICK mine : mine = {[exec |-> e, node |-> a[1], as |-> a[2], refused |-> FALSE] : a \in TERM!allInstances}
    OBVIOUS
  <2>3. PICK panes : panes = [i \in Nodes |->
             IF i \in {inst} \cup splitInstances THEN TERM!Pane("loading", e) ELSE TERM!Empty]
    OBVIOUS
  <2>4. /\ executions < MaxExecutions /\ executions' = e /\ controller' = e /\ termRunning' = TRUE
        /\ termRequests' = mine /\ nodeResults' = TERM!AfterAbort(panes)
        /\ UNCHANGED <<inst, splitInstances, termSelectedInstance, terminalInstance, queryHistory>>
    <3>1. executions' = e
      BY <1>12, <2>1 DEF TERM!execute
    <3> QED
      BY <1>12, <2>2, <2>3, <3>1 DEF TERM!execute, TERM!store
  <2>5. e \in 1 .. MaxExecutions /\ e = executions + 1
    BY <1>1, <1>3, <2>1, <2>4
  <2>6. \A a \in TERM!allInstances : a[1] \in Nodes /\ a[2] \in {"first", "added"}
    BY <1>1 DEF TERM!allInstances
  <2>7. mine \subseteq TERM!Request /\ (\A r \in mine : r.exec = e)
    <3> SUFFICES ASSUME NEW r \in mine PROVE r \in TERM!Request /\ r.exec = e
      OBVIOUS
    <3>1. PICK a \in TERM!allInstances : r = [exec |-> e, node |-> a[1], as |-> a[2], refused |-> FALSE]
      BY <2>2
    <3>2. a[1] \in Nodes /\ a[2] \in {"first", "added"}
      BY <2>6
    <3> QED
      BY <2>5, <3>1, <3>2 DEF TERM!Request
  <2>8. \A i \in {inst} \cup splitInstances : \E r \in mine : r.node = i /\ r.exec = e
    <3> SUFFICES ASSUME NEW i \in {inst} \cup splitInstances PROVE \E r \in mine : r.node = i /\ r.exec = e
      OBVIOUS
    <3>1. \E a \in TERM!allInstances : a[1] = i
      <4>1. CASE i = inst
        <5>1. <<inst, "first">> \in TERM!allInstances /\ <<inst, "first">>[1] = i
          BY <4>1 DEF TERM!allInstances
        <5> QED
          BY <5>1
      <4>2. CASE i \in splitInstances
        <5>1. <<i, "added">> \in TERM!allInstances /\ <<i, "added">>[1] = i
          BY <4>2 DEF TERM!allInstances
        <5> QED
          BY <5>1
      <4> QED
        BY <4>1, <4>2
    <3>2. PICK a \in TERM!allInstances : a[1] = i
      BY <3>1
    <3>3. PICK r : r = [exec |-> e, node |-> a[1], as |-> a[2], refused |-> FALSE]
      OBVIOUS
    <3>4. r \in mine /\ r.node = i /\ r.exec = e
      BY <2>2, <3>2, <3>3
    <3> QED
      BY <3>4
  <2>9. mine # {}
    BY <2>8
  <2>10. panes \in [Nodes -> Panes]
         /\ \A i \in Nodes : panes[i].state # "result" /\
               (panes[i].state = "loading" => i \in {inst} \cup splitInstances /\ panes[i].exec = e)
    BY <1>4, <1>5, <2>3, <2>5
  <2>11. nodeResults' \in [Nodes -> Panes]
         /\ \A i \in Nodes : nodeResults'[i] = panes[i] \/ nodeResults'[i].state = "error"
    BY <1>10, <2>4, <2>10
  <2>12. TERM!RunningEnds'
    BY <2>4, <2>8, <2>9, <2>10, <2>11 DEF TERM!RunningEnds
  <2>13. TERM!RowsAreOfLastQuery'
    BY <2>10, <2>11 DEF TERM!RowsAreOfLastQuery
  <2>14. TERM!HistoryIsOrdered'
    BY <1>2, <2>4 DEF TERM!HistoryIsOrdered
  <2>15. \A k \in DOMAIN queryHistory : queryHistory[k] < e /\ queryHistory[k] <= e
    <3> SUFFICES ASSUME NEW k \in DOMAIN queryHistory PROVE queryHistory[k] < e /\ queryHistory[k] <= e
      OBVIOUS
    <3>1. queryHistory[k] \in 1 .. MaxExecutions /\ queryHistory[k] <= executions
      BY <1>1, <1>9
    <3> QED
      BY <1>1, <1>3, <2>5, <3>1
  <2>16. executions' \in 0 .. MaxExecutions /\ controller' \in 0 .. MaxExecutions
    BY <2>4, <2>5
  <2> QED
    BY <1>1, <2>4, <2>7, <2>11, <2>12, <2>13, <2>14, <2>15, <2>16 DEF TermInv, Panes
<1>13. ASSUME TERM!abortQuery PROVE TermInv'
  <2>1. PICK panes : panes = [i \in Nodes |->
             IF nodeResults[i].state = "loading" THEN TERM!Pane("cancelled", nodeResults[i].exec)
             ELSE nodeResults[i]]
    OBVIOUS
  <2>2. /\ controller' = 0 /\ termRequests' = {} /\ termRunning' = FALSE
        /\ nodeResults' = TERM!AfterAbort(panes)
        /\ UNCHANGED <<inst, splitInstances, termSelectedInstance, terminalInstance, executions, queryHistory>>
    BY <1>13, <2>1 DEF TERM!abortQuery, TERM!store
  <2>3. \A i \in Nodes : nodeResults[i] \in Panes /\
           (nodeResults[i].state = "loading" => nodeResults[i].exec \in 1 .. MaxExecutions)
    BY <1>1, <1>8
  <2>4. panes \in [Nodes -> Panes]
        /\ \A i \in Nodes : panes[i].state # "loading" /\
              (panes[i].state = "result" => panes[i] = nodeResults[i])
    BY <1>5, <2>1, <2>3
  <2>5. nodeResults' \in [Nodes -> Panes]
        /\ \A i \in Nodes : nodeResults'[i] = panes[i] \/ nodeResults'[i].state = "error"
    BY <1>10, <2>2, <2>4
  <2>6. TERM!RunningEnds' /\ TERM!RowsAreOfLastQuery' /\ TERM!HistoryIsOrdered'
    BY <1>2, <2>2, <2>4, <2>5 DEF TERM!RunningEnds, TERM!RowsAreOfLastQuery, TERM!HistoryIsOrdered
  <2>7. controller' \in 0 .. MaxExecutions
    BY <1>3, <2>2
  <2> QED
    BY <1>1, <2>2, <2>5, <2>6, <2>7 DEF TermInv, Panes
<1>14. ASSUME NEW r \in termRequests, NEW st \in {"result", "error"}, TERM!Answer(r, st) PROVE TermInv'
  <2>1. /\ termRequests' = termRequests \ {r}
        /\ nodeResults' = [nodeResults EXCEPT ![r.node] = TERM!Pane(st, r.exec)]
        /\ UNCHANGED <<inst, splitInstances, termSelectedInstance, terminalInstance, executions>>
    BY <1>14 DEF TERM!Answer, TERM!store
  <2>2. /\ r.node \in Nodes /\ r.exec \in 1 .. MaxExecutions /\ r.exec = executions
        /\ TERM!Pane(st, r.exec) \in Panes /\ TERM!Pane(st, r.exec).state = st
        /\ TERM!Pane(st, r.exec).exec = executions
    BY <1>1, <1>5, <1>6
  <2>3. nodeResults' \in [Nodes -> Panes] /\ nodeResults'[r.node] = TERM!Pane(st, r.exec)
        /\ \A i \in Nodes \ {r.node} : nodeResults'[i] = nodeResults[i]
    BY <1>1, <2>1, <2>2
  <2>4. TERM!RowsAreOfLastQuery'
    BY <1>2, <2>1, <2>2, <2>3 DEF TERM!RowsAreOfLastQuery
  <2>5. \A i \in Nodes : nodeResults'[i].state = "loading" =>
            \E q \in termRequests' : q.node = i /\ q.exec = nodeResults'[i].exec
    BY <1>2, <2>1, <2>2, <2>3
  <2>6. /\ termRunning' <=> termRequests' # {}
        /\ controller' \in 0 .. MaxExecutions
        /\ \A q \in termRequests' : q.exec = controller' /\ q.exec = executions'
    <3>1. CASE termRequests' = {}
      <4>1. termRunning' = FALSE /\ controller' = 0
        BY <1>14, <3>1 DEF TERM!Answer
      <4> QED
        BY <1>3, <3>1, <4>1
    <3>2. CASE termRequests' # {}
      <4>1. termRunning' = termRunning /\ controller' = controller
        BY <1>14, <3>2 DEF TERM!Answer
      <4> QED
        BY <1>1, <1>2, <2>1, <3>2, <4>1
    <3> QED
      BY <3>1, <3>2
  <2>7. \/ queryHistory' = queryHistory
        \/ /\ termRequests' = {}
           /\ queryHistory' = SubSeq(<<r.exec>> \o queryHistory, 1,
                                 IF Len(queryHistory) < HistoryLimit THEN Len(queryHistory) + 1 ELSE HistoryLimit)
    BY <1>14 DEF TERM!Answer
  <2>8. /\ queryHistory' \in Seq(1 .. MaxExecutions) /\ TERM!HistoryIsOrdered'
        /\ \A k \in DOMAIN queryHistory' : queryHistory'[k] <= executions'
        /\ termRequests' # {} => \A k \in DOMAIN queryHistory' : queryHistory'[k] < executions'
    <3>1. CASE queryHistory' = queryHistory
      BY <1>1, <1>2, <2>1, <3>1 DEF TERM!HistoryIsOrdered
    <3>2. CASE termRequests' = {}
               /\ queryHistory' = SubSeq(<<r.exec>> \o queryHistory, 1,
                                 IF Len(queryHistory) < HistoryLimit THEN Len(queryHistory) + 1 ELSE HistoryLimit)
      <4> DEFINE h == <<r.exec>> \o queryHistory
                 n == IF Len(queryHistory) < HistoryLimit THEN Len(queryHistory) + 1 ELSE HistoryLimit
      <4>1. /\ h \in Seq(1 .. MaxExecutions) /\ Len(h) = Len(queryHistory) + 1 /\ h[1] = r.exec
            /\ \A k \in 2 .. Len(h) : h[k] = queryHistory[k - 1]
        BY <1>1, <2>2
      <4>2. n \in 1 .. Len(h)
        BY <1>1, <1>3, <4>1
      <4>3. \A k \in 2 .. Len(h) : h[k] < executions /\ h[k] \in Nat
        <5> SUFFICES ASSUME NEW k \in 2 .. Len(h) PROVE h[k] < executions /\ h[k] \in Nat
          OBVIOUS
        <5>1. k - 1 \in DOMAIN queryHistory
          BY <1>1, <4>1
        <5>2. queryHistory[k - 1] < executions /\ queryHistory[k - 1] \in 1 .. MaxExecutions
          BY <1>1, <1>9, <5>1
        <5> QED
          BY <4>1, <5>2
      <4>4. \A k, m \in 2 .. Len(h) : k < m => h[k] > h[m]
        <5> SUFFICES ASSUME NEW k \in 2 .. Len(h), NEW m \in 2 .. Len(h), k < m PROVE h[k] > h[m]
          OBVIOUS
        <5>1. k - 1 \in DOMAIN queryHistory /\ m - 1 \in DOMAIN queryHistory /\ k - 1 < m - 1
          BY <1>1, <4>1
        <5> QED
          BY <1>2, <4>1, <5>1
      <4>5. queryHistory' = SubSeq(h, 1, n)
        BY <3>2
      <4> HIDE DEF h, n
      <4>6. n \in Nat /\ \A k \in 1 .. n : h[k] \in 1 .. MaxExecutions
        <5>1. n \in Nat /\ \A k \in 1 .. n : k \in 1 .. Len(h)
          BY <4>1, <4>2
        <5> QED
          BY <4>1, <5>1, ElementOfSeq
      <4>7. /\ SubSeq(h, 1, n) \in Seq(1 .. MaxExecutions) /\ Len(SubSeq(h, 1, n)) = n
             /\ \A k \in 1 .. n : SubSeq(h, 1, n)[k] = h[k]
        BY <4>6
      <4>8. \A k, m \in 1 .. n : k < m => h[k] > h[m]
        <5> SUFFICES ASSUME NEW k \in 1 .. n, NEW m \in 1 .. n, k < m PROVE h[k] > h[m]
          OBVIOUS
        <5>1. m \in 2 .. Len(h)
          BY <4>1, <4>2
        <5>2. CASE k = 1
          BY <1>1, <2>2, <4>1, <4>3, <5>1, <5>2
        <5>3. CASE k # 1
          BY <4>1, <4>2, <4>4, <5>1, <5>3
        <5> QED
          BY <5>2, <5>3
      <4>9. \A k \in 1 .. n : h[k] <= executions
        BY <1>1, <2>2, <4>1, <4>2, <4>3
      <4>10. queryHistory' \in Seq(1 .. MaxExecutions) /\ DOMAIN queryHistory' = 1 .. n
             /\ \A k \in 1 .. n : queryHistory'[k] = h[k]
        BY <4>5, <4>6, <4>7, LenProperties
      <4> QED
        BY <2>1, <3>2, <4>10, <4>8, <4>9 DEF TERM!HistoryIsOrdered
    <3> QED
      BY <2>7, <3>1, <3>2
  <2>9. TERM!RunningEnds'
    BY <2>5, <2>6 DEF TERM!RunningEnds
  <2> QED
    BY <1>1, <2>1, <2>3, <2>4, <2>6, <2>8, <2>9 DEF TermInv, Panes
<1>15. ASSUME NEW r \in termRequests, TERM!Succeed(r) \/ TERM!Fail(r) PROVE TermInv'
  BY <1>14, <1>15 DEF TERM!Succeed, TERM!Fail
<1>16. ASSUME NEW r \in termRequests, TERM!Refuse(r) PROVE TermInv'
  <2>1. PICK q : q = [r EXCEPT !.refused = TRUE]
    OBVIOUS
  <2>2. q \in TERM!Request /\ q.node = r.node /\ q.exec = r.exec
    BY <1>1, <2>1 DEF TERM!Request
  <2>3. /\ termRequests' = (termRequests \ {r}) \cup {q}
        /\ UNCHANGED <<inst, splitInstances, termSelectedInstance, terminalInstance, nodeResults, termRunning,
                       controller, executions, queryHistory>>
    BY <1>16, <2>1 DEF TERM!Refuse, TERM!store
  <2>4. TERM!RunningEnds'
    BY <1>2, <2>2, <2>3 DEF TERM!RunningEnds
  <2>5. TERM!RowsAreOfLastQuery' /\ TERM!HistoryIsOrdered'
    BY <1>2, <2>3 DEF TERM!RowsAreOfLastQuery, TERM!HistoryIsOrdered
  <2> QED
    BY <1>1, <2>2, <2>3, <2>4, <2>5 DEF TermInv, Panes
(* Panes are emptied.                                                       *)
<1>17. ASSUME NEW panes \in [Nodes -> Panes], nodeResults' = panes,
              \A i \in Nodes : panes[i] = nodeResults[i] \/ panes[i] = TERM!Empty,
              splitInstances' \subseteq splitInstances,
              UNCHANGED <<inst, termSelectedInstance, terminalInstance, termRunning, controller, termRequests,
                          executions, queryHistory>>
       PROVE  TermInv'
  <2>1. TERM!RunningEnds'
    BY <1>2, <1>4, <1>17 DEF TERM!RunningEnds
  <2>2. TERM!RowsAreOfLastQuery' /\ TERM!HistoryIsOrdered'
    BY <1>2, <1>4, <1>17 DEF TERM!RowsAreOfLastQuery, TERM!HistoryIsOrdered
  <2> QED
    BY <1>1, <1>17, <2>1, <2>2 DEF TermInv, Panes
<1>18. ASSUME TERM!Clear PROVE TermInv'
  <2>1. [i \in Nodes |-> TERM!Empty] \in [Nodes -> Panes]
    BY <1>4
  <2> QED
    BY <1>17, <1>18, <2>1 DEF TERM!Clear, TERM!store
<1>19. ASSUME NEW i \in Nodes, TERM!removeSplitNode(i) PROVE TermInv'
  <2>1. PICK panes : panes = [nodeResults EXCEPT ![i] = TERM!Empty]
    OBVIOUS
  <2>2. panes \in [Nodes -> Panes] /\ \A k \in Nodes : panes[k] = nodeResults[k] \/ panes[k] = TERM!Empty
    BY <1>1, <1>4, <2>1
  <2>3. splitInstances' \subseteq splitInstances /\ nodeResults' = panes
        /\ UNCHANGED <<inst, termSelectedInstance, terminalInstance, termRunning, controller, termRequests,
                          executions, queryHistory>>
    BY <1>19, <2>1 DEF TERM!removeSplitNode, TERM!store
  <2> QED
    BY <1>17, <2>2, <2>3
<1>20. ASSUME NEW i \in Nodes, TERM!SelectInstance(i) \/ TERM!addSplitNode(i) \/ TERM!PickHistory(i)
                               \/ TERM!InstanceSelectedElsewhere(i)
       PROVE  TermInv'
  BY <1>1, <1>11, <1>20
  DEF TERM!SelectInstance, TERM!addSplitNode, TERM!PickHistory, TERM!InstanceSelectedElsewhere,
      TERM!results, TERM!store
<1>21. ASSUME NEW i \in Nodes, NEW sameQuery \in BOOLEAN, TERM!navToTerminal(i, sameQuery) PROVE TermInv'
  BY <1>1, <1>11, <1>21 DEF TERM!navToTerminal, TERM!results
<1>22. ASSUME TERM!ClearHistory PROVE TermInv'
  <2>1. queryHistory' = <<>>
        /\ UNCHANGED <<inst, splitInstances, termSelectedInstance, terminalInstance, nodeResults, termRunning,
                       controller, termRequests, executions>>
    BY <1>22 DEF TERM!ClearHistory, TERM!store
  <2>2. queryHistory' \in Seq(1 .. MaxExecutions) /\ DOMAIN queryHistory' = {}
    BY <2>1
  <2>3. TERM!RunningEnds' /\ TERM!RowsAreOfLastQuery' /\ TERM!HistoryIsOrdered'
    BY <1>2, <2>1, <2>2 DEF TERM!RunningEnds, TERM!RowsAreOfLastQuery, TERM!HistoryIsOrdered
  <2> QED
    BY <1>1, <2>1, <2>2, <2>3 DEF TermInv, Panes
<1>23. CASE UNCHANGED TERM!vars
  BY <1>1, <1>11, <1>23 DEF TERM!vars, TERM!store, TERM!results
<1> QED
  BY <1>12, <1>13, <1>15, <1>16, <1>18, <1>19, <1>20, <1>21, <1>22, <1>23 DEF TERM!Next

(* The history is cut to its limit.                                         *)
TermFlags == termRunning \in BOOLEAN /\ succeeded \in BOOLEAN /\ Len(queryHistory) <= HistoryLimit

LEMMA TermTyped == TermInv /\ TermFlags => TERM!TypeOK
<1> SUFFICES ASSUME TermInv, TermFlags PROVE TERM!TypeOK
  OBVIOUS
<1>1. PICK n : n = Len(queryHistory)
  OBVIOUS
<1>2. n \in 0 .. HistoryLimit /\ queryHistory \in [1 .. n -> 1 .. MaxExecutions]
  <2>1. HistoryLimit \in Nat
    BY PartsFit DEF TERM!ConstantsOK
  <2>2. n \in Nat /\ n <= HistoryLimit
    BY <1>1, LenProperties DEF TermInv, TermFlags
  <2>3. queryHistory \in [1 .. n -> 1 .. MaxExecutions]
    BY <1>1, LenProperties, SeqDef DEF TermInv
  <2> QED
    BY <2>1, <2>2, <2>3
<1>3. queryHistory \in TERM!SeqOf(1 .. MaxExecutions, HistoryLimit)
  BY <1>2 DEF TERM!SeqOf
<1> QED
  BY <1>3 DEF TermInv, TermFlags, TERM!TypeOK

LEMMA TermFlagsStart == TERM!Init => TermFlags
<1> SUFFICES ASSUME TERM!Init PROVE TermFlags
  OBVIOUS
<1>1. Len(queryHistory) = 0 /\ HistoryLimit \in Nat
  BY PartsFit, EmptySeq DEF TERM!Init, TERM!ConstantsOK
<1>2. Len(queryHistory) <= HistoryLimit
  BY <1>1
<1>3. termRunning = FALSE /\ succeeded = FALSE
  BY DEF TERM!Init
<1> QED
  BY <1>2, <1>3 DEF TermFlags

LEMMA TermFlagsKept ==
  ASSUME TermInv, TermFlags, [TERM!Next]_(TERM!vars)
  PROVE  TermFlags'
<1>1. HistoryLimit \in Nat /\ queryHistory \in Seq(1 .. MaxExecutions) /\ Len(queryHistory) \in Nat
      /\ Len(queryHistory) <= HistoryLimit /\ DOMAIN queryHistory = 1 .. Len(queryHistory)
  BY PartsFit, LenProperties DEF TERM!ConstantsOK, TermInv, TermFlags
<1>2. ASSUME UNCHANGED queryHistory, termRunning' \in {termRunning, TRUE, FALSE}, succeeded' \in {succeeded, TRUE, FALSE}
      PROVE  TermFlags'
  BY <1>2 DEF TermFlags
<1>3. CASE TERM!execute \/ TERM!abortQuery \/ TERM!Clear
  BY <1>2, <1>3 DEF TERM!execute, TERM!abortQuery, TERM!Clear
<1>4. CASE TERM!ClearHistory
  <2>1. Len(queryHistory') = 0
    BY <1>4, EmptySeq DEF TERM!ClearHistory
  <2> QED
    BY <1>1, <1>4, <2>1 DEF TERM!ClearHistory, TermFlags
<1>5. ASSUME NEW r \in termRequests, NEW st \in {"result", "error"}, TERM!Answer(r, st) PROVE TermFlags'
  <2>1. termRunning' \in BOOLEAN
    BY <1>5 DEF TERM!Answer, TermFlags
  <2>2. succeeded' \in BOOLEAN
    <3>1. succeeded' = (succeeded \/ st = "result")
      BY <1>5 DEF TERM!Answer
    <3>2. (succeeded \/ st = "result") \in BOOLEAN
      OBVIOUS
    <3> QED
      BY <3>1, <3>2
  <2>3. PICK n, longer :
           /\ n = (IF Len(queryHistory) < HistoryLimit THEN Len(queryHistory) + 1 ELSE HistoryLimit)
           /\ longer = <<r.exec>> \o queryHistory
    OBVIOUS
  <2>4. CASE queryHistory' = queryHistory
    BY <2>1, <2>2, <2>4 DEF TermFlags
  <2>5. CASE queryHistory' = SubSeq(longer, 1, n)
    <3>1. r.exec \in 1 .. MaxExecutions
      BY DEF TermInv, TERM!Request
    <3>2. <<r.exec>> \in Seq(1 .. MaxExecutions) /\ Len(<<r.exec>>) = 1
      BY <3>1
    <3>3. longer \in Seq(1 .. MaxExecutions) /\ Len(longer) = 1 + Len(queryHistory)
      BY <1>1, <2>3, <3>2, ConcatProperties
    <3>6. n \in Nat /\ n <= HistoryLimit /\ n <= 1 + Len(queryHistory)
      BY <1>1, <2>3
    <3>4. \A k \in 1 .. n : longer[k] \in 1 .. MaxExecutions
      <4>1. \A k \in 1 .. n : k \in 1 .. Len(longer)
        BY <1>1, <3>3, <3>6
      <4> QED
        BY <3>3, <4>1, ElementOfSeq
    <3>5. Len(SubSeq(longer, 1, n)) = IF 1 <= n THEN n - 1 + 1 ELSE 0
      BY <3>4, <3>6, SubSeqProperties
    <3>7. Len(queryHistory') <= HistoryLimit
      BY <1>1, <2>5, <3>5, <3>6
    <3> QED
      BY <2>1, <2>2, <3>7 DEF TermFlags
  <2> QED
    BY <1>5, <2>3, <2>4, <2>5 DEF TERM!Answer
<1>6. ASSUME NEW r \in termRequests, TERM!Succeed(r) \/ TERM!Fail(r) \/ TERM!Refuse(r) PROVE TermFlags'
  BY <1>2, <1>5, <1>6 DEF TERM!Succeed, TERM!Fail, TERM!Refuse
<1>7. ASSUME NEW i \in Nodes,
             \/ TERM!SelectInstance(i) \/ TERM!addSplitNode(i) \/ TERM!removeSplitNode(i)
             \/ TERM!PickHistory(i) \/ TERM!InstanceSelectedElsewhere(i)
             \/ \E sameQuery \in BOOLEAN : TERM!navToTerminal(i, sameQuery)
      PROVE  TermFlags'
  BY <1>2, <1>7 DEF TERM!SelectInstance, TERM!addSplitNode, TERM!removeSplitNode, TERM!PickHistory,
     TERM!InstanceSelectedElsewhere, TERM!navToTerminal, TERM!results
<1>8. CASE UNCHANGED TERM!vars
  BY <1>2, <1>8 DEF TERM!vars, TERM!results
<1> QED
  BY <1>3, <1>4, <1>6, <1>7, <1>8 DEF TERM!Next

-----------------------------------------------------------------------------
(* Chat and the analysis panel                                              *)

(* ChatSessions counts with a Cardinality of its own instance.              *)
LEMMA ChatCounts == \A S : CHAT!Cardinality(S) = Cardinality(S)
  BY DEF CHAT!Cardinality, Cardinality

(* What a page's copy of the sessions says of messages.                     *)
CopyOK(c) ==
    /\ c = [ids |-> c.ids, status |-> c.status, home |-> c.home]
    /\ c.status \in [CHAT!Messages -> CHAT!Statuses]

(* Until it takes over another page's sessions.                             *)
CopiesOK ==
    ~synced => /\ sessions = [p \in Pages |-> sessions[p]]
               /\ \A p \in Pages : CopyOK(sessions[p])
               /\ CopyOK(storage)

(* The panel has told nothing before an error or the end.                   *)
PanelTells(s) ==
    s.kind = "panel" => IF s.failed THEN s.told = {"error"}
                        ELSE s.told \subseteq {"done"} /\ (s.phase # "ended" => s.told = {})

(* Messages are numbered in the order of the questions, and the one that a  *)
(* page's input field waits for is its own.                                 *)
ChatInv ==
    /\ running \in [Pages -> BOOLEAN] /\ current \in [Pages -> CHAT!Messages \cup {CHAT!None}]
    /\ stream \in [CHAT!Messages -> CHAT!Stream]
    /\ abandoned \subseteq CHAT!Messages
    /\ \E n \in 0 .. MaxQuestions : CHAT!Asked = 1 .. n
    /\ \A p \in Pages : current[p] # CHAT!None =>
          stream[current[p]].kind = "chat" /\ stream[current[p]].page = p
    /\ \A m \in CHAT!Messages : PanelTells(stream[m])
    /\ \A m \in CHAT!Messages : stream[m].kind = "none" => stream[m].phase = "ended"
    /\ CopiesOK
    /\ CHAT!InputIsFreed /\ CHAT!SpinningIsAnswered

LEMMA PanelNotifies == ChatInv => CHAT!PanelNotifiesTheOutcome
<1> SUFFICES ASSUME ChatInv, NEW m \in CHAT!Messages, stream[m].kind = "panel"
             PROVE  /\ "done" \in stream[m].told => ~stream[m].failed
                    /\ stream[m].failed => stream[m].told = {"error"}
  BY DEF CHAT!PanelNotifiesTheOutcome
<1>1. PanelTells(stream[m])
  BY DEF ChatInv
<1> QED
  BY <1>1 DEF PanelTells

LEMMA ChatStarts == CHAT!Init => ChatInv
<1> SUFFICES ASSUME CHAT!Init PROVE ChatInv
  OBVIOUS
<1> DEFINE s0 == [page |-> CHOOSE p \in Pages : TRUE, kind |-> "none", phase |-> "ended",
                  failed |-> FALSE, told |-> {}]
<1>1. Pages # {} /\ MaxQuestions \in Nat
  BY PartsFit DEF CHAT!ConstantsOK
<1>2. s0 \in CHAT!Stream /\ s0.kind = "none" /\ s0.phase = "ended"
  BY <1>1 DEF CHAT!Stream
<1>3. stream \in [CHAT!Messages -> {s0}] /\ sessions = [p \in Pages |-> CHAT!NoSessions]
      /\ storage = CHAT!NoSessions /\ running = [p \in Pages |-> FALSE]
      /\ current = [p \in Pages |-> CHAT!None] /\ abandoned = {}
  BY DEF CHAT!Init
<1> HIDE DEF s0
<1>4. \A m \in CHAT!Messages : stream[m] = s0
  BY <1>3
<1>5. CHAT!Asked = {} /\ stream \in [CHAT!Messages -> CHAT!Stream]
  BY <1>2, <1>3, <1>4 DEF CHAT!Asked
<1>6. \E n \in 0 .. MaxQuestions : CHAT!Asked = 1 .. n
  <2>1. 0 \in 0 .. MaxQuestions /\ 1 .. 0 = {}
    BY <1>1
  <2> QED
    BY <1>5, <2>1
<1>7. CopyOK(CHAT!NoSessions) /\ \A m \in CHAT!Messages : CHAT!NoSessions.status[m] = "absent"
  BY DEF CopyOK, CHAT!NoSessions, CHAT!Statuses
<1>8. CopiesOK
  BY <1>3, <1>7 DEF CopiesOK
<1>9. CHAT!InputIsFreed /\ CHAT!SpinningIsAnswered
  BY <1>3, <1>7 DEF CHAT!InputIsFreed, CHAT!SpinningIsAnswered
<1> QED
  BY <1>2, <1>3, <1>4, <1>5, <1>6, <1>8, <1>9 DEF ChatInv, PanelTells

(* A page's copy that lost a session, or one too many.                      *)
LEMMA TrimmedIsOK ==
  ASSUME NEW c, CopyOK(c)
  PROVE  /\ \A s : /\ CopyOK(CHAT!Without(c, s))
                   /\ \A k \in CHAT!Messages : CHAT!Without(c, s).status[k] \in {c.status[k], "absent"}
         /\ CopyOK(CHAT!Trimmed(c))
         /\ \A k \in CHAT!Messages : CHAT!Trimmed(c).status[k] \in {c.status[k], "absent"}
<1>1. ASSUME NEW s
      PROVE  /\ CopyOK(CHAT!Without(c, s))
             /\ \A k \in CHAT!Messages : CHAT!Without(c, s).status[k] \in {c.status[k], "absent"}
  <2> DEFINE w == [m \in CHAT!Messages |-> IF c.home[m] = s THEN "absent" ELSE c.status[m]]
  <2>1. CHAT!Without(c, s).status = w
    BY DEF CHAT!Without
  <2>2. CHAT!Without(c, s) = [ids |-> CHAT!Without(c, s).ids, status |-> CHAT!Without(c, s).status,
                              home |-> CHAT!Without(c, s).home]
    BY DEF CHAT!Without
  <2>3. w \in [CHAT!Messages -> CHAT!Statuses] /\ \A k \in CHAT!Messages : w[k] \in {c.status[k], "absent"}
    BY DEF CopyOK, CHAT!Statuses
  <2> QED
    BY <2>1, <2>2, <2>3 DEF CopyOK
<1> QED
  BY <1>1 DEF CHAT!Trimmed

LEMMA SetKeeps ==
  ASSUME NEW p \in Pages, NEW c, ~synced => CopyOK(c), CopiesOK, CHAT!SetChatSessions(p, c), ~synced,
         synced' = synced
  PROVE  /\ CopiesOK'
         /\ \A k \in CHAT!Messages : sessions'[p].status[k] \in {c.status[k], "absent"}
         /\ \A q \in Pages \ {p} : sessions'[q] = sessions[q]
<1>1. sessions' = [sessions EXCEPT ![p] = CHAT!Trimmed(c)] /\ storage' = CHAT!Trimmed(c)
  BY DEF CHAT!SetChatSessions
<1>2. sessions = [q \in Pages |-> sessions[q]] /\ \A q \in Pages : CopyOK(sessions[q])
  BY DEF CopiesOK
<1>3. /\ sessions'[p] = CHAT!Trimmed(c) /\ \A q \in Pages \ {p} : sessions'[q] = sessions[q]
      /\ sessions' = [q \in Pages |-> sessions'[q]]
  BY <1>1, <1>2
<1>4. CopyOK(CHAT!Trimmed(c)) /\ \A k \in CHAT!Messages : CHAT!Trimmed(c).status[k] \in {c.status[k], "absent"}
  BY TrimmedIsOK
<1> QED
  BY <1>1, <1>2, <1>3, <1>4 DEF CopiesOK

(* Message m of page p is marked; the others keep their marks or are gone.  *)
LEMMA MarkKeeps ==
  ASSUME NEW p \in Pages, NEW m \in CHAT!Messages, NEW st \in {"done", "error"},
         CopiesOK, CHAT!Mark(p, m, st), ~synced, synced' = synced
  PROVE  /\ CopiesOK'
         /\ \A k \in CHAT!Messages : sessions'[p].status[k] = "streaming" =>
               k # m /\ sessions[p].status[k] = "streaming"
         /\ \A q \in Pages \ {p} : sessions'[q] = sessions[q]
<1>1. PICK c : c = CHAT!Marked(sessions[p], m, st)
  OBVIOUS
<1>2. CopyOK(sessions[p])
  BY DEF CopiesOK
<1>3. CopyOK(c) /\ c.status[m] \in {"absent", st} /\ \A k \in CHAT!Messages \ {m} : c.status[k] = sessions[p].status[k]
  <2>1. CASE sessions[p].status[m] = "absent"
    BY <1>1, <1>2, <2>1 DEF CHAT!Marked
  <2>2. CASE sessions[p].status[m] # "absent"
    <3>1. c = [sessions[p] EXCEPT !.status[m] = st]
      BY <1>1, <2>2 DEF CHAT!Marked
    <3>2. c = [ids |-> sessions[p].ids, status |-> [sessions[p].status EXCEPT ![m] = st],
               home |-> sessions[p].home]
      BY <1>2, <3>1 DEF CopyOK
    <3> QED
      BY <1>2, <3>2 DEF CopyOK, CHAT!Statuses
  <2> QED
    BY <2>1, <2>2
<1>4. CHAT!SetChatSessions(p, c)
  BY <1>1 DEF CHAT!Mark
<1> QED
  BY <1>3, <1>4, SetKeeps

LEMMA QuestionKeeps ==
  ASSUME NEW p \in Pages, NEW m \in CHAT!Messages, NEW fresh \in BOOLEAN,
         CopiesOK, CHAT!Question(p, m, fresh), ~synced, synced' = synced
  PROVE  /\ CopiesOK'
         /\ \A k \in CHAT!Messages : sessions'[p].status[k] = "streaming" =>
               k = m \/ sessions[p].status[k] = "streaming"
         /\ \A q \in Pages \ {p} : sessions'[q] = sessions[q]
<1>1. CopyOK(sessions[p])
  BY DEF CopiesOK
<1>2. PICK ids, home : CHAT!SetChatSessions(p, [ids |-> ids, home |-> home,
                            status |-> [sessions[p].status EXCEPT ![m] = "streaming"]])
  BY DEF CHAT!Question
<1>3. PICK c : c = [ids |-> ids, status |-> [sessions[p].status EXCEPT ![m] = "streaming"], home |-> home]
  OBVIOUS
<1>4. CopyOK(c) /\ \A k \in CHAT!Messages \ {m} : c.status[k] = sessions[p].status[k]
  BY <1>1, <1>3 DEF CopyOK, CHAT!Statuses
<1>5. CHAT!SetChatSessions(p, c)
  BY <1>2, <1>3
<1> QED
  BY <1>4, <1>5, SetKeeps

LEMMA ChatKept ==
  ASSUME ChatInv, [CHAT!Next]_(CHAT!vars)
  PROVE  ChatInv'
<1>1. /\ running \in [Pages -> BOOLEAN] /\ current \in [Pages -> CHAT!Messages \cup {CHAT!None}]
      /\ stream \in [CHAT!Messages -> CHAT!Stream]
      /\ abandoned \subseteq CHAT!Messages
      /\ \E n \in 0 .. MaxQuestions : CHAT!Asked = 1 .. n
      /\ \A p \in Pages : current[p] # CHAT!None =>
            stream[current[p]].kind = "chat" /\ stream[current[p]].page = p
      /\ \A m \in CHAT!Messages : PanelTells(stream[m])
      /\ \A m \in CHAT!Messages : stream[m].kind = "none" => stream[m].phase = "ended"
      /\ CopiesOK
  BY DEF ChatInv
<1>2. /\ \A p \in Pages : running[p] => current[p] # CHAT!None /\ CHAT!Live(current[p])
      /\ ~synced => \A p \in Pages, m \in CHAT!Messages \ abandoned :
            sessions[p].status[m] = "streaming" /\ stream[m].page = p => CHAT!Live(m)
  BY DEF ChatInv, CHAT!InputIsFreed, CHAT!SpinningIsAnswered
<1>3. MaxQuestions \in Nat /\ CHAT!None \notin CHAT!Messages
  BY PartsFit DEF CHAT!ConstantsOK, CHAT!None, CHAT!Messages
<1>4. \A m \in CHAT!Messages : /\ stream[m] \in CHAT!Stream /\ stream[m].page \in Pages
                               /\ stream[m].failed \in BOOLEAN
  BY <1>1 DEF CHAT!Stream
<1>5. ASSUME NEW m \in CHAT!Messages, CHAT!Live(m) PROVE stream[m].kind # "none"
  BY <1>5 DEF CHAT!Live
(* The answer to message m goes on, or ends.                                *)
<1>6. ASSUME NEW m \in CHAT!Messages, NEW s \in CHAT!Stream, stream' = [stream EXCEPT ![m] = s],
             s.kind = stream[m].kind, s.page = stream[m].page, s.kind # "none", PanelTells(s),
             UNCHANGED <<abandoned, synced, current>>, running' \in [Pages -> BOOLEAN],
             \A q \in Pages : running'[q] => running[q] /\ (s.phase = "ended" => current[q] # m),
             ~synced => /\ CopiesOK'
                        /\ \A q \in Pages \ {s.page} : sessions'[q] = sessions[q]
                        /\ \A k \in CHAT!Messages : sessions'[s.page].status[k] = "streaming" =>
                              sessions[s.page].status[k] = "streaming" /\ (s.phase = "ended" => k # m)
      PROVE  ChatInv'
  <2>1. /\ stream' \in [CHAT!Messages -> CHAT!Stream] /\ stream'[m] = s
        /\ \A k \in CHAT!Messages \ {m} : stream'[k] = stream[k]
    BY <1>1, <1>6
  <2>2. CHAT!Asked' = CHAT!Asked
    BY <1>6, <2>1 DEF CHAT!Asked
  <2>3. \A k \in CHAT!Messages : CHAT!Live(k) /\ (k = m => s.phase # "ended") => CHAT!Live(k)'
    BY <1>6, <2>1 DEF CHAT!Live
  <2>4. \A p \in Pages : current[p] # CHAT!None => current[p] \in CHAT!Messages
    BY <1>1
  <2>5. CHAT!InputIsFreed'
    BY <1>2, <1>6, <2>3, <2>4 DEF CHAT!InputIsFreed
  <2>6. CHAT!SpinningIsAnswered'
    <3> SUFFICES ASSUME ~synced, NEW p \in Pages, NEW k \in CHAT!Messages \ abandoned,
                        sessions'[p].status[k] = "streaming", stream'[k].page = p
                 PROVE  CHAT!Live(k)'
      BY <1>6 DEF CHAT!SpinningIsAnswered
    <3>1. stream[k].page = p
      BY <1>6, <2>1
    <3>2. sessions[p].status[k] = "streaming"
      BY <1>6
    <3>3. CHAT!Live(k)
      BY <1>2, <3>1, <3>2
    <3>4. k = m => s.phase # "ended"
      BY <1>6, <3>1
    <3> QED
      BY <2>3, <3>3, <3>4
  <2>7. \A p \in Pages : current'[p] # CHAT!None =>
            stream'[current'[p]].kind = "chat" /\ stream'[current'[p]].page = p
    BY <1>1, <1>6, <2>1
  <2>8. \A k \in CHAT!Messages : /\ PanelTells(stream'[k])
                                 /\ stream'[k].kind = "none" => stream'[k].phase = "ended"
    BY <1>1, <1>6, <2>1
  <2>9. CopiesOK'
    BY <1>6 DEF CopiesOK
  <2> QED
    BY <1>1, <1>6, <2>1, <2>2, <2>5, <2>6, <2>7, <2>8, <2>9 DEF ChatInv, PanelTells
(* Its mark is set, too.                                                    *)
<1>7. ASSUME NEW m \in CHAT!Messages, NEW s \in CHAT!Stream, stream' = [stream EXCEPT ![m] = s],
             s.kind = stream[m].kind, s.page = stream[m].page, s.kind # "none", PanelTells(s),
             UNCHANGED <<abandoned, synced, current>>,
             NEW st \in {"done", "error"}, CHAT!Mark(stream[m].page, m, st),
             \/ running' = running /\ (s.phase = "ended" => stream[m].kind = "panel")
             \/ running' = [running EXCEPT ![stream[m].page] = FALSE]
      PROVE  ChatInv'
  <2>1. PICK p \in Pages : p = stream[m].page
    BY <1>4
  <2>2. CHAT!Mark(p, m, st)
    BY <1>7, <2>1
  <2>3. ~synced => /\ CopiesOK'
                   /\ \A q \in Pages \ {s.page} : sessions'[q] = sessions[q]
                   /\ \A k \in CHAT!Messages : sessions'[s.page].status[k] = "streaming" =>
                         sessions[s.page].status[k] = "streaming" /\ (s.phase = "ended" => k # m)
    BY <1>1, <1>7, <2>1, <2>2, MarkKeeps
  <2>4. running' \in [Pages -> BOOLEAN]
    BY <1>1, <1>7, <2>1
  <2>5. \A q \in Pages : running'[q] => running[q] /\ (s.phase = "ended" => current[q] # m)
    <3> SUFFICES ASSUME NEW q \in Pages, running'[q] PROVE running[q] /\ (s.phase = "ended" => current[q] # m)
      OBVIOUS
    <3>1. running[q] /\ (s.phase = "ended" => stream[m].kind = "panel" \/ q # p)
      BY <1>1, <1>7, <2>1
    <3>2. current[q] = m => stream[m].kind = "chat" /\ stream[m].page = q
      BY <1>1, <1>3
    <3> QED
      BY <2>1, <3>1, <3>2
  <2> QED
    BY <1>6, <1>7, <2>3, <2>4, <2>5
<1>8. ASSUME NEW m \in CHAT!Messages, CHAT!ChatError(m) PROVE ChatInv'
  <2>1. PICK s : s = [stream[m] EXCEPT !.failed = TRUE]
    OBVIOUS
  <2>2. s \in CHAT!Stream /\ s.kind = stream[m].kind /\ s.page = stream[m].page /\ s.phase = stream[m].phase
    BY <1>4, <2>1 DEF CHAT!Stream
  <2>3. /\ stream[m].kind = "chat" /\ stream[m].phase = "open" /\ CHAT!Mark(stream[m].page, m, "error")
        /\ stream' = [stream EXCEPT ![m].failed = TRUE]
        /\ UNCHANGED <<abandoned, synced, current, running>>
    BY <1>8 DEF CHAT!ChatError, CHAT!history
  <2>4. stream' = [stream EXCEPT ![m] = s]
    BY <1>1, <2>1, <2>3
  <2> QED
    BY <1>7, <2>2, <2>3, <2>4 DEF PanelTells
<1>9. ASSUME NEW m \in CHAT!Messages, CHAT!ChatEnds(m) PROVE ChatInv'
  <2>1. PICK s : s = [stream[m] EXCEPT !.phase = "ended", !.told = @ \cup {"done"}]
    OBVIOUS
  <2>2. s \in CHAT!Stream /\ s.kind = stream[m].kind /\ s.page = stream[m].page
    BY <1>4, <2>1 DEF CHAT!Stream
  <2>3. /\ stream[m].kind = "chat" /\ CHAT!Mark(stream[m].page, m, "done")
        /\ stream' = [stream EXCEPT ![m].phase = "ended", ![m].told = @ \cup {"done"}]
        /\ running' = [running EXCEPT ![stream[m].page] = FALSE]
        /\ UNCHANGED <<abandoned, synced, current>>
    BY <1>9 DEF CHAT!ChatEnds, CHAT!history
  <2>4. stream' = [stream EXCEPT ![m] = s]
    BY <1>1, <2>1, <2>3
  <2> QED
    BY <1>7, <2>2, <2>3, <2>4 DEF PanelTells
<1>10. ASSUME NEW m \in CHAT!Messages, CHAT!ChatLost(m) PROVE ChatInv'
  <2>1. PICK s : s = [stream[m] EXCEPT !.phase = "ended", !.failed = TRUE, !.told = @ \cup {"error"}]
    OBVIOUS
  <2>2. s \in CHAT!Stream /\ s.kind = stream[m].kind /\ s.page = stream[m].page
    BY <1>4, <2>1 DEF CHAT!Stream
  <2>3. /\ stream[m].kind = "chat" /\ CHAT!Mark(stream[m].page, m, "error")
        /\ stream' = [stream EXCEPT ![m].phase = "ended", ![m].failed = TRUE, ![m].told = @ \cup {"error"}]
        /\ running' = [running EXCEPT ![stream[m].page] = FALSE]
        /\ UNCHANGED <<abandoned, synced, current>>
    BY <1>10 DEF CHAT!ChatLost, CHAT!history
  <2>4. stream' = [stream EXCEPT ![m] = s]
    BY <1>1, <2>1, <2>3
  <2> QED
    BY <1>7, <2>2, <2>3, <2>4 DEF PanelTells
<1>11. ASSUME NEW m \in CHAT!Messages, CHAT!ChatRejected(m) PROVE ChatInv'
  <2>1. PICK s : s = [stream[m] EXCEPT !.phase = "rejected", !.failed = TRUE]
    OBVIOUS
  <2>2. s \in CHAT!Stream /\ s.kind = stream[m].kind /\ s.page = stream[m].page /\ s.phase = "rejected"
    BY <1>4, <2>1 DEF CHAT!Stream
  <2>3. /\ stream[m].kind = "chat"
        /\ stream' = [stream EXCEPT ![m].phase = "rejected", ![m].failed = TRUE]
        /\ UNCHANGED <<sessions, storage, abandoned, synced, current, running>>
    BY <1>11 DEF CHAT!ChatRejected, CHAT!history, CHAT!pageVars
  <2>4. stream' = [stream EXCEPT ![m] = s]
    BY <1>1, <2>1, <2>3
  <2>5. CopiesOK'
    BY <1>1, <2>3 DEF CopiesOK, CopyOK
  <2> QED
    BY <1>1, <1>6, <2>2, <2>3, <2>4, <2>5 DEF PanelTells
<1>12. ASSUME NEW m \in CHAT!Messages, CHAT!ChatRejectedText(m) PROVE ChatInv'
  <2>1. PICK s : s = [stream[m] EXCEPT !.phase = "ended"]
    OBVIOUS
  <2>2. /\ s \in CHAT!Stream /\ s.kind = stream[m].kind /\ s.page = stream[m].page
        /\ s.failed = stream[m].failed /\ s.told = stream[m].told /\ s.phase = "ended"
    BY <1>4, <2>1 DEF CHAT!Stream
  <2>3. /\ CHAT!Mark(stream[m].page, m, "error") /\ stream[m].phase = "rejected"
        /\ stream' = [stream EXCEPT ![m].phase = "ended"]
        /\ running' = [running EXCEPT ![stream[m].page] = FALSE]
        /\ UNCHANGED <<abandoned, synced, current>>
    BY <1>12 DEF CHAT!ChatRejectedText, CHAT!history
  <2>4. stream' = [stream EXCEPT ![m] = s]
    BY <1>1, <2>1, <2>3
  <2>5. PanelTells(s)
    <3>1. PanelTells(stream[m])
      BY <1>1
    <3> QED
      BY <2>2, <3>1 DEF PanelTells
  <2>6. s.kind # "none"
    BY <1>1, <2>2, <2>3
  <2> QED
    BY <1>7, <2>2, <2>3, <2>4, <2>5, <2>6
<1>13. ASSUME NEW m \in CHAT!Messages, CHAT!PanelNoInstance(m) PROVE ChatInv'
  <2>1. PICK s : s = [stream[m] EXCEPT !.phase = "ended"]
    OBVIOUS
  <2>2. /\ s \in CHAT!Stream /\ s.kind = stream[m].kind /\ s.page = stream[m].page
        /\ s.failed = stream[m].failed /\ s.told = stream[m].told /\ s.phase = "ended"
    BY <1>4, <2>1 DEF CHAT!Stream
  <2>3. /\ stream[m].kind = "panel" /\ CHAT!Mark(stream[m].page, m, "error")
        /\ stream' = [stream EXCEPT ![m].phase = "ended"]
        /\ UNCHANGED <<abandoned, synced, current, running>>
    BY <1>13 DEF CHAT!PanelNoInstance, CHAT!history
  <2>4. stream' = [stream EXCEPT ![m] = s]
    BY <1>1, <2>1, <2>3
  <2>5. PanelTells(s)
    <3>1. PanelTells(stream[m])
      BY <1>1
    <3> QED
      BY <2>2, <3>1 DEF PanelTells
  <2> QED
    BY <1>7, <2>2, <2>3, <2>4, <2>5
<1>14. ASSUME NEW m \in CHAT!Messages, NEW phase \in {"open", "ended"}, CHAT!PanelError(m, phase) PROVE ChatInv'
  <2>1. PICK s : s = CHAT!Told([stream[m] EXCEPT !.failed = TRUE, !.phase = phase], "error")
    OBVIOUS
  <2>2. /\ s \in CHAT!Stream /\ s.kind = stream[m].kind /\ s.page = stream[m].page
        /\ s.failed = TRUE /\ s.told = (IF stream[m].told = {} THEN {"error"} ELSE stream[m].told)
    BY <1>4, <2>1 DEF CHAT!Stream, CHAT!Told
  <2>3. /\ stream[m].kind = "panel" /\ stream[m].phase = "open" /\ CHAT!Mark(stream[m].page, m, "error")
        /\ stream' = [stream EXCEPT ![m] = s]
        /\ UNCHANGED <<abandoned, synced, current, running>>
    BY <1>1, <1>14, <2>1 DEF CHAT!PanelError, CHAT!history
  <2>4. PanelTells(s)
    BY <1>1, <1>4, <2>2, <2>3 DEF PanelTells
  <2> QED
    BY <1>7, <2>2, <2>3, <2>4
<1>15. ASSUME NEW m \in CHAT!Messages, CHAT!PanelDone(m) PROVE ChatInv'
  <2>1. PICK s : s = stream[m]
    OBVIOUS
  <2>2. s \in CHAT!Stream /\ PanelTells(s)
    BY <1>1, <2>1
  <2>3. /\ stream[m].kind = "panel" /\ CHAT!Mark(stream[m].page, m, "done") /\ s.phase = "open"
        /\ UNCHANGED <<abandoned, synced, current, running, stream>>
    BY <1>15, <2>1 DEF CHAT!PanelDone, CHAT!history
  <2>4. stream' = [stream EXCEPT ![m] = s]
    BY <1>1, <2>1, <2>3
  <2> QED
    BY <1>7, <2>1, <2>2, <2>3, <2>4
<1>16. ASSUME NEW m \in CHAT!Messages, CHAT!PanelEnds(m) PROVE ChatInv'
  <2>1. PICK s : s = CHAT!Told([stream[m] EXCEPT !.phase = "ended"], "done")
    OBVIOUS
  <2>2. /\ s \in CHAT!Stream /\ s.kind = stream[m].kind /\ s.page = stream[m].page
        /\ s.failed = stream[m].failed /\ s.told = (IF stream[m].told = {} THEN {"done"} ELSE stream[m].told)
        /\ s.phase = "ended"
    BY <1>4, <2>1 DEF CHAT!Stream, CHAT!Told
  <2>3. /\ stream[m].kind = "panel" /\ stream[m].phase = "open"
        /\ stream' = [stream EXCEPT ![m] = s]
        /\ UNCHANGED <<abandoned, synced, current, running>>
        /\ IF sessions[stream[m].page].status[m] = "streaming" THEN CHAT!Mark(stream[m].page, m, "done")
           ELSE UNCHANGED <<sessions, storage>>
    BY <1>1, <1>16, <2>1 DEF CHAT!PanelEnds, CHAT!history, CHAT!pageVars
  <2>4. PanelTells(s)
    <3>1. PICK o : o = stream[m]
      OBVIOUS
    <3>2. PanelTells(o)
      BY <1>1, <3>1
    <3>3. /\ o.kind = "panel" /\ o.phase = "open" /\ s.kind = "panel" /\ s.phase = "ended"
          /\ s.failed = o.failed /\ s.told = (IF o.told = {} THEN {"done"} ELSE o.told)
      BY <2>2, <2>3, <3>1
    <3>4. CASE o.failed
      BY <3>2, <3>3, <3>4 DEF PanelTells
    <3>5. CASE ~o.failed
      BY <3>2, <3>3, <3>5 DEF PanelTells
    <3> QED
      BY <3>4, <3>5
  <2>5. CASE CHAT!Mark(stream[m].page, m, "done")
    BY <1>7, <2>2, <2>3, <2>4, <2>5
  <2>6. CASE sessions[stream[m].page].status[m] # "streaming" /\ UNCHANGED <<sessions, storage>>
    <3>1. CopiesOK'
      BY <1>1, <2>3, <2>6 DEF CopiesOK, CopyOK
    <3>2. \A q \in Pages : running'[q] => running[q] /\ current[q] # m
      BY <1>1, <1>3, <2>3
    <3>4. \A k \in CHAT!Messages : sessions'[s.page].status[k] = "streaming" =>
              sessions[s.page].status[k] = "streaming" /\ (s.phase = "ended" => k # m)
      BY <2>2, <2>6
    <3>5. running' \in [Pages -> BOOLEAN]
      BY <1>1, <2>3
    <3>6. s.kind # "none" /\ \A q \in Pages \ {s.page} : sessions'[q] = sessions[q]
      BY <2>2, <2>3, <2>6
    <3>7. ~synced => /\ CopiesOK'
                     /\ \A q \in Pages \ {s.page} : sessions'[q] = sessions[q]
                     /\ \A k \in CHAT!Messages : sessions'[s.page].status[k] = "streaming" =>
                           sessions[s.page].status[k] = "streaming" /\ (s.phase = "ended" => k # m)
      BY <3>1, <3>4, <3>6
    <3>8. \A q \in Pages : running'[q] => running[q] /\ (s.phase = "ended" => current[q] # m)
      BY <3>2
    <3> QED
      BY <1>6, <2>2, <2>3, <2>4, <3>5, <3>6, <3>7, <3>8
  <2> QED
    BY <2>3, <2>5, <2>6
(* The number of the next question.                                         *)
<1>17. \E n \in 0 .. MaxQuestions : CHAT!Asked = 1 .. n /\ CHAT!Cardinality(CHAT!Asked) = n
  <2>1. PICK n \in 0 .. MaxQuestions : CHAT!Asked = 1 .. n
    BY <1>1
  <2>2. Cardinality(1 .. n) = n
    BY <1>3, <2>1, FS_Interval
  <2> QED
    BY <2>1, <2>2, ChatCounts
(* A question, whose request may take the place of the page's last one.     *)
<1>18. ASSUME NEW p \in Pages, NEW m, m = CHAT!Cardinality(CHAT!Asked) + 1, m \in CHAT!Messages,
              NEW fresh \in BOOLEAN, CHAT!Question(p, m, fresh), NEW kind \in {"chat", "panel"},
              NEW base \in [CHAT!Messages -> CHAT!Stream],
              stream' = [base EXCEPT ![m] = CHAT!Request(p, kind, "open")],
              \A k \in CHAT!Messages : \/ base[k] = stream[k]
                                       \/ /\ k = current[p] /\ stream[k].phase = "open" /\ k \in abandoned'
                                          /\ base[k] = [stream[k] EXCEPT !.phase = "ended"],
              abandoned \subseteq abandoned', abandoned' \subseteq CHAT!Messages, synced' = synced,
              \/ kind = "panel" /\ UNCHANGED <<running, current>> /\ base = stream
              \/ /\ kind = "chat" /\ running' = [running EXCEPT ![p] = TRUE]
                 /\ current' = [current EXCEPT ![p] = m]
       PROVE  ChatInv'
  <2>1. PICK n \in 0 .. MaxQuestions : CHAT!Asked = 1 .. n /\ m = n + 1
    BY <1>17, <1>18
  <2>2. m \notin CHAT!Asked
    BY <2>1
  <2>3. stream[m].kind = "none" /\ stream[m].phase = "ended"
    BY <1>1, <1>18, <2>2 DEF CHAT!Asked
  <2>4. PICK s : s = CHAT!Request(p, kind, "open")
    OBVIOUS
  <2>5. s \in CHAT!Stream /\ s.kind = kind /\ s.page = p /\ s.phase = "open" /\ s.told = {} /\ s.failed = FALSE
    BY <2>4 DEF CHAT!Request, CHAT!Stream
  <2>6. \A k \in CHAT!Messages : /\ base[k].kind = stream[k].kind /\ base[k].page = stream[k].page
                                 /\ base[k].failed = stream[k].failed /\ base[k].told = stream[k].told
                                 /\ \/ base[k] = stream[k]
                                    \/ /\ k = current[p] /\ stream[k].phase = "open" /\ k \in abandoned'
                                       /\ base[k].phase = "ended"
    BY <1>4, <1>18 DEF CHAT!Stream
  <2>7. /\ stream' \in [CHAT!Messages -> CHAT!Stream] /\ stream'[m] = s
        /\ \A k \in CHAT!Messages \ {m} : stream'[k] = base[k]
    BY <1>18, <2>4, <2>5
  <2>8. \E l \in 0 .. MaxQuestions : CHAT!Asked' = 1 .. l
    <3>1. CHAT!Asked' = CHAT!Asked \cup {m}
      <4>1. \A k \in CHAT!Messages : stream'[k].kind # "none" <=> k = m \/ stream[k].kind # "none"
        BY <1>18, <2>5, <2>6, <2>7
      <4> QED
        BY <1>18, <4>1 DEF CHAT!Asked
    <3>2. 1 .. (n + 1) = (1 .. n) \cup {n + 1} /\ n + 1 \in 0 .. MaxQuestions
      BY <1>3, <1>18, <2>1 DEF CHAT!Messages
    <3> QED
      BY <2>1, <3>1, <3>2
  <2>9. \A k \in CHAT!Messages : /\ PanelTells(stream'[k])
                                 /\ stream'[k].kind = "none" => stream'[k].phase = "ended"
    <3> SUFFICES ASSUME NEW k \in CHAT!Messages
                 PROVE  PanelTells(stream'[k]) /\ (stream'[k].kind = "none" => stream'[k].phase = "ended")
      OBVIOUS
    <3>1. CASE k = m
      BY <2>5, <2>7, <3>1 DEF PanelTells
    <3>2. CASE k # m
      <4>1. PanelTells(base[k])
        BY <1>1, <2>6 DEF PanelTells
      <4> QED
        BY <1>1, <2>6, <2>7, <3>2, <4>1
    <3> QED
      BY <3>1, <3>2
  <2>10. \A q \in Pages : current[q] # CHAT!None => current[q] \in CHAT!Messages \ {m}
                                                    /\ (q # p => current[q] # current[p])
    BY <1>1, <2>3
  <2>11. current' \in [Pages -> CHAT!Messages \cup {CHAT!None}] /\ running' \in [Pages -> BOOLEAN]
    BY <1>1, <1>18
  <2>12. \A q \in Pages : current'[q] # CHAT!None =>
             stream'[current'[q]].kind = "chat" /\ stream'[current'[q]].page = q
    <3> SUFFICES ASSUME NEW q \in Pages, current'[q] # CHAT!None
                 PROVE  stream'[current'[q]].kind = "chat" /\ stream'[current'[q]].page = q
      OBVIOUS
    <3>1. CASE current'[q] = current[q]
      BY <1>1, <2>6, <2>7, <2>10, <3>1
    <3>2. CASE kind = "chat" /\ q = p /\ current'[q] = m
      BY <2>5, <2>7, <3>2
    <3> QED
      BY <1>1, <1>18, <3>1, <3>2
  <2>13. CHAT!InputIsFreed'
    <3> SUFFICES ASSUME NEW q \in Pages, running'[q]
                 PROVE  current'[q] # CHAT!None /\ CHAT!Live(current[q])'
      BY DEF CHAT!InputIsFreed
    <3>1. CASE kind = "chat" /\ q = p
      <4>1. current'[q] = m
        BY <1>1, <1>18, <3>1
      <4>2. CHAT!Live(m)'
        BY <1>18, <2>5, <2>7 DEF CHAT!Live
      <4> QED
        BY <1>3, <1>18, <4>1, <4>2
    <3>2. CASE kind = "panel" \/ q # p
      <4>1. running[q] /\ current'[q] = current[q]
        BY <1>1, <1>18, <3>2
      <4>2. current[q] # CHAT!None /\ CHAT!Live(current[q]) /\ current[q] \in CHAT!Messages \ {m}
        BY <1>2, <2>10, <4>1
      <4>3. stream'[current[q]] = stream[current[q]]
        BY <1>18, <2>6, <2>7, <2>10, <3>2, <4>2
      <4> QED
        BY <4>1, <4>2, <4>3 DEF CHAT!Live
    <3> QED
      BY <1>18, <3>1, <3>2
  <2>14. ~synced => /\ CopiesOK'
                    /\ \A k \in CHAT!Messages : sessions'[p].status[k] = "streaming" =>
                           k = m \/ sessions[p].status[k] = "streaming"
                    /\ \A q \in Pages \ {p} : sessions'[q] = sessions[q]
    BY <1>1, <1>18, QuestionKeeps
  <2>15. CHAT!SpinningIsAnswered'
    <3> SUFFICES ASSUME ~synced, NEW q \in Pages, NEW k \in CHAT!Messages \ abandoned',
                        sessions'[q].status[k] = "streaming", stream'[k].page = q
                 PROVE  CHAT!Live(k)'
      BY <1>18 DEF CHAT!SpinningIsAnswered
    <3>1. CASE k = m
      BY <1>18, <2>5, <2>7, <3>1 DEF CHAT!Live
    <3>2. CASE k # m
      <4>1. stream'[k] = stream[k] /\ k \in CHAT!Messages \ abandoned
        BY <1>18, <2>6, <2>7, <3>2
      <4>2. sessions[q].status[k] = "streaming"
        BY <2>14, <3>2
      <4>3. CHAT!Live(k)
        BY <1>2, <4>1, <4>2
      <4> QED
        BY <4>1, <4>3 DEF CHAT!Live
    <3> QED
      BY <3>1, <3>2
  <2>16. CopiesOK'
    BY <1>18, <2>14 DEF CopiesOK
  <2> QED
    BY <1>18, <2>7, <2>8, <2>9, <2>11, <2>12, <2>13, <2>15, <2>16 DEF ChatInv
<1>19. ASSUME NEW p \in Pages, NEW blocked \in BOOLEAN, CHAT!Send(p, blocked) PROVE ChatInv'
  <2>1. PICK m : m = CHAT!Cardinality(CHAT!Asked) + 1
    OBVIOUS
  <2>2. PICK base : base = CHAT!Aborted(p)
    OBVIOUS
  <2>3. /\ m \in CHAT!Messages /\ CHAT!Question(p, m, FALSE)
        /\ stream' = [base EXCEPT ![m] = CHAT!Request(p, "chat", "open")]
        /\ abandoned' = abandoned \cup {n \in CHAT!Messages : n = current[p] /\ stream[n].phase = "open"}
        /\ running' = [running EXCEPT ![p] = TRUE]
        /\ current' = [current EXCEPT ![p] = m]
        /\ synced' = synced
    BY <1>19, <2>1, <2>2 DEF CHAT!Send
  <2>4. \A k \in CHAT!Messages : [stream[k] EXCEPT !.phase = "ended"] \in CHAT!Stream
    BY <1>4 DEF CHAT!Stream
  <2>5. base \in [CHAT!Messages -> CHAT!Stream]
        /\ \A k \in CHAT!Messages : \/ base[k] = stream[k]
                                    \/ /\ k = current[p] /\ stream[k].phase = "open" /\ k \in abandoned'
                                       /\ base[k] = [stream[k] EXCEPT !.phase = "ended"]
    BY <1>4, <2>2, <2>3, <2>4 DEF CHAT!Aborted
  <2>6. abandoned \subseteq abandoned' /\ abandoned' \subseteq CHAT!Messages
    BY <1>1, <2>3
  <2> QED
    BY <1>18, <2>1, <2>3, <2>5, <2>6
<1>20. ASSUME NEW p \in Pages, NEW fresh \in BOOLEAN, CHAT!Analyze(p, fresh) PROVE ChatInv'
  <2>1. PICK m : m = CHAT!Cardinality(CHAT!Asked) + 1
    OBVIOUS
  <2>2. /\ m \in CHAT!Messages /\ CHAT!Question(p, m, fresh)
        /\ stream' = [stream EXCEPT ![m] = CHAT!Request(p, "panel", "open")]
        /\ UNCHANGED <<running, current, abandoned, synced>>
    BY <1>20, <2>1 DEF CHAT!Analyze, CHAT!history
  <2> QED
    BY <1>1, <1>18, <2>1, <2>2
<1>21. ASSUME NEW p \in Pages, CHAT!Stop(p) PROVE ChatInv'
  <2>1. PICK m : m = current[p]
    OBVIOUS
  <2>2. /\ running[p] /\ CHAT!Mark(p, m, "done") /\ stream' = CHAT!Aborted(p)
        /\ running' = [running EXCEPT ![p] = FALSE]
        /\ UNCHANGED <<abandoned, synced, current>>
    BY <1>21, <2>1 DEF CHAT!Stop, CHAT!history
  <2>3. m # CHAT!None /\ m \in CHAT!Messages
    BY <1>1, <1>2, <2>1, <2>2
  <2>4. stream[m].kind = "chat" /\ stream[m].page = p
    BY <1>1, <2>1, <2>3
  <2>5. PICK s : s = IF stream[m].phase = "open" THEN [stream[m] EXCEPT !.phase = "ended"] ELSE stream[m]
    OBVIOUS
  <2>6. s \in CHAT!Stream /\ s.kind = "chat" /\ s.page = p
    BY <1>4, <2>3, <2>4, <2>5 DEF CHAT!Stream
  <2>7. stream' = [stream EXCEPT ![m] = s]
    BY <1>1, <2>1, <2>2, <2>3, <2>5 DEF CHAT!Aborted
  <2> QED
    BY <1>7, <2>2, <2>3, <2>4, <2>6, <2>7 DEF PanelTells
(* The streams stay as they are.                                            *)
<1>22. ASSUME UNCHANGED <<running, current, stream, abandoned>>, ~synced' => ~synced,
              ~synced' => /\ CopiesOK'
                          /\ \A q \in Pages, k \in CHAT!Messages :
                                sessions'[q].status[k] = "streaming" => sessions[q].status[k] = "streaming"
       PROVE  ChatInv'
  <2>1. CHAT!Asked' = CHAT!Asked /\ \A k : CHAT!Live(k)' <=> CHAT!Live(k)
    BY <1>22 DEF CHAT!Asked, CHAT!Live
  <2>2. CHAT!InputIsFreed'
    BY <1>2, <1>22, <2>1 DEF CHAT!InputIsFreed
  <2>3. CHAT!SpinningIsAnswered'
    BY <1>2, <1>22, <2>1 DEF CHAT!SpinningIsAnswered
  <2>4. CopiesOK'
    BY <1>22 DEF CopiesOK
  <2> QED
    BY <1>1, <1>22, <2>1, <2>2, <2>3, <2>4 DEF ChatInv, PanelTells
<1>23. ASSUME NEW p \in Pages, NEW s, CHAT!Activate(p, s) PROVE ChatInv'
  <2>1. UNCHANGED <<sessions, storage, running, current, stream, abandoned, synced>>
    BY <1>23 DEF CHAT!Activate, CHAT!pageVars, CHAT!history
  <2>2. CopiesOK'
    BY <1>1, <2>1 DEF CopiesOK, CopyOK
  <2> QED
    BY <1>22, <2>1, <2>2
<1>24. ASSUME NEW p \in Pages, NEW s, CHAT!Delete(p, s) PROVE ChatInv'
  <2>1. PICK c : c = CHAT!Without(sessions[p], s)
    OBVIOUS
  <2>2. CHAT!SetChatSessions(p, c) /\ UNCHANGED <<running, current, stream, abandoned, synced>>
    BY <1>24, <2>1 DEF CHAT!Delete, CHAT!history
  <2>3. ~synced => CopyOK(sessions[p])
    BY <1>1 DEF CopiesOK
  <2>4. ~synced => /\ CopyOK(c)
                   /\ \A k \in CHAT!Messages : c.status[k] \in {sessions[p].status[k], "absent"}
    BY <2>1, <2>3, TrimmedIsOK
  <2>5. ~synced => /\ CopiesOK'
                   /\ \A k \in CHAT!Messages : sessions'[p].status[k] \in {c.status[k], "absent"}
                   /\ \A q \in Pages \ {p} : sessions'[q] = sessions[q]
    BY <1>1, <2>2, <2>4, SetKeeps
  <2>6. ~synced => \A q \in Pages, k \in CHAT!Messages :
            sessions'[q].status[k] = "streaming" => sessions[q].status[k] = "streaming"
    BY <2>4, <2>5
  <2> QED
    BY <1>22, <2>2, <2>5, <2>6
<1>25. ASSUME NEW p \in Pages, CHAT!Storage(p) PROVE ChatInv'
  BY <1>22, <1>25 DEF CHAT!Storage
<1>26. ASSUME NEW p \in Pages, CHAT!Reload(p) PROVE ChatInv'
  <2>1. PICK c : c = CHAT!Healed(storage)
    OBVIOUS
  <2>2. /\ sessions' = [sessions EXCEPT ![p] = c]
        /\ running' = [running EXCEPT ![p] = FALSE]
        /\ current' = [current EXCEPT ![p] = CHAT!None]
        /\ stream' = [m \in CHAT!Messages |->
              IF stream[m].page = p THEN [stream[m] EXCEPT !.phase = "ended"] ELSE stream[m]]
        /\ UNCHANGED <<storage, abandoned, synced>>
    BY <1>26, <2>1 DEF CHAT!Reload, CHAT!history
  <2>3. \A m \in CHAT!Messages : /\ [stream[m] EXCEPT !.phase = "ended"] \in CHAT!Stream
                                 /\ [stream[m] EXCEPT !.phase = "ended"].kind = stream[m].kind
                                 /\ [stream[m] EXCEPT !.phase = "ended"].page = stream[m].page
                                 /\ [stream[m] EXCEPT !.phase = "ended"].failed = stream[m].failed
                                 /\ [stream[m] EXCEPT !.phase = "ended"].told = stream[m].told
                                 /\ [stream[m] EXCEPT !.phase = "ended"].phase = "ended"
    BY <1>4 DEF CHAT!Stream
  <2>4. /\ stream' \in [CHAT!Messages -> CHAT!Stream]
        /\ \A m \in CHAT!Messages :
              /\ stream'[m].kind = stream[m].kind /\ stream'[m].page = stream[m].page
              /\ stream'[m].failed = stream[m].failed /\ stream'[m].told = stream[m].told
              /\ IF stream[m].page = p THEN stream'[m].phase = "ended" ELSE stream'[m] = stream[m]
    BY <1>4, <2>2, <2>3
  <2>5. CHAT!Asked' = CHAT!Asked
    BY <2>4 DEF CHAT!Asked
  <2>6. \A m \in CHAT!Messages : /\ PanelTells(stream'[m])
                                 /\ stream'[m].kind = "none" => stream'[m].phase = "ended"
    BY <1>1, <2>4 DEF PanelTells
  <2>7. /\ running' \in [Pages -> BOOLEAN] /\ current' \in [Pages -> CHAT!Messages \cup {CHAT!None}]
        /\ running'[p] = FALSE /\ current'[p] = CHAT!None
        /\ \A q \in Pages \ {p} : running'[q] = running[q] /\ current'[q] = current[q]
    BY <1>1, <2>2
  <2>8. \A q \in Pages : current'[q] # CHAT!None =>
            stream'[current'[q]].kind = "chat" /\ stream'[current'[q]].page = q
    BY <1>1, <2>4, <2>7
  <2>9. CHAT!InputIsFreed'
    <3> SUFFICES ASSUME NEW q \in Pages, running'[q]
                 PROVE  current'[q] # CHAT!None /\ CHAT!Live(current[q])'
      BY DEF CHAT!InputIsFreed
    <3>1. q # p /\ running[q] /\ current'[q] = current[q]
      BY <2>7
    <3>2. current[q] # CHAT!None /\ CHAT!Live(current[q]) /\ current[q] \in CHAT!Messages
          /\ stream[current[q]].page = q
      BY <1>1, <1>2, <3>1
    <3> QED
      BY <2>4, <3>1, <3>2 DEF CHAT!Live
  <2>10. ~synced => /\ c.status \in [CHAT!Messages -> CHAT!Statuses] /\ CopyOK(c)
                    /\ \A k \in CHAT!Messages : c.status[k] # "streaming"
    <3> SUFFICES ASSUME ~synced
                 PROVE  /\ c.status \in [CHAT!Messages -> CHAT!Statuses] /\ CopyOK(c)
                        /\ \A k \in CHAT!Messages : c.status[k] # "streaming"
      OBVIOUS
    <3>1. CopyOK(storage)
      BY <1>1 DEF CopiesOK
    <3>2. c = [ids |-> storage.ids, home |-> storage.home,
               status |-> [m \in CHAT!Messages |->
                  IF storage.status[m] = "streaming" THEN "done" ELSE storage.status[m]]]
      BY <2>1, <3>1 DEF CHAT!Healed, CopyOK
    <3> QED
      BY <3>1, <3>2 DEF CopyOK, CHAT!Statuses
  <2>11. CopiesOK'
    <3> SUFFICES ASSUME ~synced PROVE CopiesOK'
      BY <2>2 DEF CopiesOK
    <3>1. sessions = [q \in Pages |-> sessions[q]] /\ (\A q \in Pages : CopyOK(sessions[q])) /\ CopyOK(storage)
      BY <1>1 DEF CopiesOK
    <3>2. sessions' = [q \in Pages |-> sessions'[q]] /\ sessions'[p] = c
          /\ \A q \in Pages \ {p} : sessions'[q] = sessions[q]
      BY <2>2, <3>1
    <3> QED
      BY <2>2, <2>10, <3>1, <3>2 DEF CopiesOK, CopyOK
  <2>12. CHAT!SpinningIsAnswered'
    <3> SUFFICES ASSUME ~synced, NEW q \in Pages, NEW k \in CHAT!Messages \ abandoned,
                        sessions'[q].status[k] = "streaming", stream'[k].page = q
                 PROVE  CHAT!Live(k)'
      BY <2>2 DEF CHAT!SpinningIsAnswered
    <3>1. sessions = [r \in Pages |-> sessions[r]]
      BY <1>1 DEF CopiesOK
    <3>2. sessions'[p] = c /\ \A r \in Pages \ {p} : sessions'[r] = sessions[r]
      BY <2>2, <3>1
    <3>3. q # p /\ sessions[q].status[k] = "streaming"
      BY <2>10, <3>2
    <3>4. stream[k].page = q /\ stream'[k] = stream[k]
      BY <2>4, <3>3
    <3>5. CHAT!Live(k)
      BY <1>2, <3>3, <3>4
    <3> QED
      BY <3>4, <3>5 DEF CHAT!Live
  <2> QED
    BY <1>1, <2>2, <2>4, <2>5, <2>6, <2>7, <2>8, <2>9, <2>11, <2>12 DEF ChatInv
<1>27. CASE UNCHANGED CHAT!vars
  <2>1. UNCHANGED <<sessions, storage, running, current, stream, abandoned, synced>>
    BY <1>27 DEF CHAT!vars, CHAT!pageVars, CHAT!history
  <2>2. CopiesOK'
    BY <1>1, <2>1 DEF CopiesOK, CopyOK
  <2> QED
    BY <1>22, <2>1, <2>2
<1> QED
  BY <1>8, <1>9, <1>10, <1>11, <1>12, <1>13, <1>14, <1>15, <1>16, <1>19, <1>20, <1>21, <1>23, <1>24, <1>25,
     <1>26, <1>27 DEF CHAT!Next

(* What the pages and the storage hold is a copy of the sessions.           *)
CopiesTyped ==
    /\ sessions \in [Pages -> CHAT!Copy] /\ storage \in CHAT!Copy
    /\ events \in [Pages -> Seq(CHAT!Copy)] /\ \A p \in Pages : Len(events[p]) <= MaxEvents
    /\ active \in [Pages -> CHAT!Messages \cup {CHAT!None}]
    /\ synced \in BOOLEAN

LEMMA ChatTyped == ChatInv /\ CopiesTyped => CHAT!TypeOK
BY DEF ChatInv, CopiesTyped, CHAT!TypeOK

LEMMA CopiesTypedStart == CHAT!Init => CopiesTyped
<1> SUFFICES ASSUME CHAT!Init PROVE CopiesTyped
  OBVIOUS
<1>1. CHAT!NoSessions \in CHAT!Copy
  BY DEF CHAT!NoSessions, CHAT!Copy, CHAT!Statuses, CHAT!None
<1>2. <<>> \in Seq(CHAT!Copy) /\ Len(<<>>) = 0
  BY EmptySeq
<1>3. MaxEvents \in Nat
  BY PartsFit DEF CHAT!ConstantsOK
<1>4. events = [p \in Pages |-> <<>>] /\ \A p \in Pages : Len(events[p]) = 0
  BY <1>2 DEF CHAT!Init
<1>5. \A p \in Pages : Len(events[p]) <= MaxEvents
  BY <1>3, <1>4
<1> QED
  BY <1>1, <1>2, <1>4, <1>5 DEF CHAT!Init, CopiesTyped, CHAT!None

(* What is written stays a copy.                                            *)
LEMMA WithoutIsACopy ==
  ASSUME NEW c \in CHAT!Copy, NEW s
  PROVE  CHAT!Without(c, s) \in CHAT!Copy
<1>1. c.ids \subseteq CHAT!Messages /\ c.status \in [CHAT!Messages -> CHAT!Statuses]
      /\ c.home \in [CHAT!Messages -> CHAT!Messages \cup {CHAT!None}]
  BY DEF CHAT!Copy
<1> QED
  BY <1>1 DEF CHAT!Without, CHAT!Copy, CHAT!Statuses

LEMMA WritesAreCopies ==
  ASSUME CopiesTyped, NEW p \in Pages, NEW c \in CHAT!Copy, CHAT!SetChatSessions(p, c),
         active' \in [Pages -> CHAT!Messages \cup {CHAT!None}], synced' = synced
  PROVE  CopiesTyped'
<1>1. PICK n : n = CHAT!Trimmed(c)
  OBVIOUS
<1>2. n \in CHAT!Copy
  BY <1>1, WithoutIsACopy DEF CHAT!Trimmed
<1>3. /\ sessions' = [sessions EXCEPT ![p] = n] /\ storage' = n
      /\ events' = [q \in Pages |-> IF q = p \/ n = storage THEN events[q] ELSE Append(events[q], n)]
      /\ \A q \in Pages : Len(events'[q]) <= MaxEvents
  BY <1>1 DEF CHAT!SetChatSessions
<1>4. \A q \in Pages : events[q] \in Seq(CHAT!Copy) /\ Append(events[q], n) \in Seq(CHAT!Copy)
  BY <1>2, AppendProperties DEF CopiesTyped
<1>5. events' \in [Pages -> Seq(CHAT!Copy)]
  BY <1>3, <1>4
<1> QED
  BY <1>2, <1>3, <1>5 DEF CopiesTyped

LEMMA MarksAreCopies ==
  ASSUME CopiesTyped, NEW p \in Pages, NEW m \in CHAT!Messages, NEW st \in {"done", "error"},
         CHAT!Mark(p, m, st), UNCHANGED <<active, synced>>
  PROVE  CopiesTyped'
<1>1. PICK c : c = CHAT!Marked(sessions[p], m, st)
  OBVIOUS
<1>2. sessions[p] \in CHAT!Copy /\ st \in CHAT!Statuses
  BY DEF CopiesTyped, CHAT!Statuses
<1>3. c \in CHAT!Copy
  BY <1>1, <1>2 DEF CHAT!Marked, CHAT!Copy
<1>4. active' \in [Pages -> CHAT!Messages \cup {CHAT!None}] /\ synced' = synced
  BY DEF CopiesTyped
<1> QED
  BY <1>1, <1>3, <1>4, WritesAreCopies DEF CHAT!Mark

LEMMA QuestionsAreCopies ==
  ASSUME CopiesTyped, NEW p \in Pages, NEW m \in CHAT!Messages, NEW fresh \in BOOLEAN,
         CHAT!Question(p, m, fresh), synced' = synced
  PROVE  CopiesTyped'
<1>1. PICK c, s : /\ c = sessions[p]
                  /\ s = (IF fresh \/ ~CHAT!Has(c, active[p]) THEN m ELSE active[p])
  OBVIOUS
<1>2. c \in CHAT!Copy /\ active \in [Pages -> CHAT!Messages \cup {CHAT!None}]
  BY <1>1 DEF CopiesTyped
<1>3. c.ids \subseteq CHAT!Messages /\ c.status \in [CHAT!Messages -> CHAT!Statuses]
      /\ c.home \in [CHAT!Messages -> CHAT!Messages \cup {CHAT!None}]
  BY <1>2 DEF CHAT!Copy
<1>4. s \in CHAT!Messages
  BY <1>1, <1>3 DEF CHAT!Has
<1>5. PICK d : d = [ids |-> c.ids \cup {s}, status |-> [c.status EXCEPT ![m] = "streaming"],
                    home |-> [c.home EXCEPT ![m] = s]]
  OBVIOUS
<1>6. "streaming" \in CHAT!Statuses
  BY DEF CHAT!Statuses
<1>7. d \in CHAT!Copy
  BY <1>3, <1>4, <1>5, <1>6 DEF CHAT!Copy
<1>8. CHAT!SetChatSessions(p, d) /\ active' = [active EXCEPT ![p] = s]
  BY <1>1, <1>5 DEF CHAT!Question
<1>9. active' \in [Pages -> CHAT!Messages \cup {CHAT!None}]
  BY <1>2, <1>4, <1>8
<1> QED
  BY <1>7, <1>8, <1>9, WritesAreCopies

LEMMA CopiesTypedKept ==
  ASSUME ChatInv, CopiesTyped, [CHAT!Next]_(CHAT!vars)
  PROVE  CopiesTyped'
<1>1. /\ current \in [Pages -> CHAT!Messages \cup {CHAT!None}]
      /\ \A p \in Pages : running[p] => current[p] \in CHAT!Messages
      /\ \A m \in CHAT!Messages : stream[m].page \in Pages
  BY DEF ChatInv, CHAT!InputIsFreed, CHAT!Stream
<1>2. /\ sessions \in [Pages -> CHAT!Copy] /\ storage \in CHAT!Copy
      /\ events \in [Pages -> Seq(CHAT!Copy)] /\ \A p \in Pages : Len(events[p]) <= MaxEvents
      /\ active \in [Pages -> CHAT!Messages \cup {CHAT!None}] /\ synced \in BOOLEAN
  BY DEF CopiesTyped
<1>3. ASSUME UNCHANGED <<sessions, storage, events, synced>>,
             active' \in [Pages -> CHAT!Messages \cup {CHAT!None}]
      PROVE  CopiesTyped'
  BY <1>2, <1>3 DEF CopiesTyped
<1>4. ASSUME NEW p \in Pages, NEW blocked \in BOOLEAN, CHAT!Send(p, blocked) PROVE CopiesTyped'
  <2>1. PICK m : m = CHAT!Cardinality(CHAT!Asked) + 1
    OBVIOUS
  <2>2. m \in CHAT!Messages /\ CHAT!Question(p, m, FALSE) /\ synced' = synced
    BY <1>4, <2>1 DEF CHAT!Send
  <2> QED
    BY <2>2, QuestionsAreCopies
<1>5. ASSUME NEW p \in Pages, NEW fresh \in BOOLEAN, CHAT!Analyze(p, fresh) PROVE CopiesTyped'
  <2>1. PICK m : m = CHAT!Cardinality(CHAT!Asked) + 1
    OBVIOUS
  <2>2. m \in CHAT!Messages /\ CHAT!Question(p, m, fresh) /\ synced' = synced
    BY <1>5, <2>1 DEF CHAT!Analyze, CHAT!history
  <2> QED
    BY <2>2, QuestionsAreCopies
<1>6. ASSUME NEW p \in Pages, CHAT!Stop(p) PROVE CopiesTyped'
  <2>1. CHAT!Mark(p, current[p], "done") /\ UNCHANGED <<active, synced>> /\ current[p] \in CHAT!Messages
    BY <1>1, <1>6 DEF CHAT!Stop, CHAT!history
  <2> QED
    BY <2>1, MarksAreCopies
<1>7. ASSUME NEW m \in CHAT!Messages, CHAT!ChatError(m) \/ CHAT!ChatLost(m) \/ CHAT!ChatRejectedText(m)
                                       \/ CHAT!PanelNoInstance(m) \/ \E phase \in {"open", "ended"} : CHAT!PanelError(m, phase)
      PROVE CopiesTyped'
  <2>1. CHAT!Mark(stream[m].page, m, "error") /\ UNCHANGED <<active, synced>>
    BY <1>7 DEF CHAT!ChatError, CHAT!ChatLost, CHAT!ChatRejectedText, CHAT!PanelNoInstance, CHAT!PanelError, CHAT!history
  <2> QED
    BY <1>1, <2>1, MarksAreCopies
<1>8. ASSUME NEW m \in CHAT!Messages, CHAT!ChatEnds(m) \/ CHAT!PanelDone(m) PROVE CopiesTyped'
  <2>1. CHAT!Mark(stream[m].page, m, "done") /\ UNCHANGED <<active, synced>>
    BY <1>8 DEF CHAT!ChatEnds, CHAT!PanelDone, CHAT!history
  <2> QED
    BY <1>1, <2>1, MarksAreCopies
<1>9. ASSUME NEW m \in CHAT!Messages, CHAT!PanelEnds(m) PROVE CopiesTyped'
  <2>1. CASE CHAT!Mark(stream[m].page, m, "done")
    <3>1. UNCHANGED <<active, synced>>
      BY <1>9 DEF CHAT!PanelEnds, CHAT!history
    <3> QED
      BY <1>1, <2>1, <3>1, MarksAreCopies
  <2>2. CASE UNCHANGED CHAT!pageVars
    BY <1>2, <1>3, <1>9, <2>2 DEF CHAT!PanelEnds, CHAT!pageVars, CHAT!history
  <2> QED
    BY <1>9, <2>1, <2>2 DEF CHAT!PanelEnds
<1>10. ASSUME NEW m \in CHAT!Messages, CHAT!ChatRejected(m) PROVE CopiesTyped'
  BY <1>2, <1>3, <1>10 DEF CHAT!ChatRejected, CHAT!pageVars, CHAT!history
<1>11. ASSUME NEW p \in Pages, NEW s \in CHAT!Messages \cup {CHAT!None}, CHAT!Activate(p, s) PROVE CopiesTyped'
  BY <1>2, <1>3, <1>11 DEF CHAT!Activate, CHAT!pageVars, CHAT!history
<1>12. ASSUME NEW p \in Pages, NEW s \in CHAT!Messages, CHAT!Delete(p, s) PROVE CopiesTyped'
  <2>1. PICK c : c = CHAT!Without(sessions[p], s)
    OBVIOUS
  <2>2. c \in CHAT!Copy
    BY <1>2, <2>1, WithoutIsACopy
  <2>3. active' \in [Pages -> CHAT!Messages \cup {CHAT!None}]
    BY <1>2, <1>12 DEF CHAT!Delete
  <2> QED
    BY <1>12, <2>1, <2>2, <2>3, WritesAreCopies DEF CHAT!Delete, CHAT!history
<1>13. ASSUME NEW p \in Pages, CHAT!Storage(p) PROVE CopiesTyped'
  <2>1. PICK es : es = events[p]
    OBVIOUS
  <2>2. es \in Seq(CHAT!Copy) /\ es # <<>> /\ Len(es) <= MaxEvents
    BY <1>2, <1>13, <2>1 DEF CHAT!Storage
  <2>3. Head(es) \in CHAT!Copy /\ Tail(es) \in Seq(CHAT!Copy) /\ Len(Tail(es)) <= Len(es)
    BY <2>2, HeadTailProperties, LenProperties
  <2>4. Len(Tail(es)) <= MaxEvents
    <3>1. MaxEvents \in Nat /\ Len(es) \in Nat /\ Len(Tail(es)) \in Nat
      BY <2>2, <2>3, LenProperties, PartsFit DEF CHAT!ConstantsOK
    <3> QED
      BY <2>2, <2>3, <3>1
  <2>5. /\ sessions' = [sessions EXCEPT ![p] = Head(es)] /\ events' = [events EXCEPT ![p] = Tail(es)]
        /\ synced' = TRUE /\ UNCHANGED <<storage, active>>
    BY <1>13, <2>1 DEF CHAT!Storage
  <2>6. sessions' \in [Pages -> CHAT!Copy] /\ events' \in [Pages -> Seq(CHAT!Copy)]
    BY <1>2, <2>3, <2>5
  <2>7. \A q \in Pages : Len(events'[q]) <= MaxEvents
    BY <1>2, <2>4, <2>5
  <2> QED
    BY <1>2, <2>5, <2>6, <2>7 DEF CopiesTyped
<1>14. ASSUME NEW p \in Pages, CHAT!Reload(p) PROVE CopiesTyped'
  <2>1. PICK h : h = CHAT!Healed(storage)
    OBVIOUS
  <2>2. h \in CHAT!Copy
    BY <1>2, <2>1 DEF CHAT!Healed, CHAT!Copy, CHAT!Statuses
  <2>3. /\ sessions' = [sessions EXCEPT ![p] = h] /\ events' = [events EXCEPT ![p] = <<>>]
        /\ UNCHANGED <<storage, synced>>
    BY <1>14, <2>1 DEF CHAT!Reload, CHAT!history
  <2>4. active' \in [Pages -> CHAT!Messages \cup {CHAT!None}]
    <3>1. \A q \in Pages : active[q] \in CHAT!Messages \cup {CHAT!None}
      BY <1>2
    <3>2. active' = [active EXCEPT ![p] = IF CHAT!Has(storage, @) THEN @ ELSE CHAT!None]
      BY <1>14 DEF CHAT!Reload
    <3> QED
      BY <1>2, <3>1, <3>2
  <2>5. Len(<<>>) = 0 /\ <<>> \in Seq(CHAT!Copy) /\ MaxEvents \in Nat
    BY EmptySeq, PartsFit DEF CHAT!ConstantsOK
  <2>6. sessions' \in [Pages -> CHAT!Copy] /\ events' \in [Pages -> Seq(CHAT!Copy)]
    BY <1>2, <2>2, <2>3, <2>5
  <2>7. \A q \in Pages : Len(events'[q]) <= MaxEvents
    <3>1. \A q \in Pages : events'[q] = IF q = p THEN <<>> ELSE events[q]
      BY <1>2, <2>3
    <3> QED
      BY <1>2, <2>5, <3>1
  <2> QED
    BY <1>2, <2>3, <2>4, <2>6, <2>7 DEF CopiesTyped
<1>15. CASE UNCHANGED CHAT!vars
  BY <1>2, <1>3, <1>15 DEF CHAT!vars, CHAT!pageVars, CHAT!history
<1> QED
  BY <1>4, <1>5, <1>6, <1>7, <1>8, <1>9, <1>10, <1>11, <1>12, <1>13, <1>14, <1>15 DEF CHAT!Next

-----------------------------------------------------------------------------
(* Run-check                                                                *)

RcTypes ==
    /\ collectorMetas \subseteq Collectors /\ instanceList \subseteq Instances
    /\ tabs \in [{"run", "dry"} -> RC!Tab]
    /\ rcRequests \subseteq RC!Request /\ runs \in 0 .. MaxRuns
    /\ triggers \subseteq RC!Trigger /\ pressed \in 0 .. MaxTriggers

(* A collector that reports errors and came back clean has looked.          *)
CleanIsUnmet(x) ==
    /\ x \in RC!Result
    /\ x.pair[2] \in Reporting /\ x.outcome = "clean" => ~x.met

(* A run has its tab to itself, and gets to each of the pairs of the tab.   *)
RunsCover ==
    /\ \A r, q \in rcRequests : r.tab = q.tab => r = q
    /\ \A r \in rcRequests :
          /\ r.todo \cup {x.pair : x \in r.results} = tabs[r.tab].ran
          /\ \A x \in r.results : CleanIsUnmet(x)
    /\ \A t \in {"run", "dry"} : \A x \in tabs[t].results : CleanIsUnmet(x)

RunsInv == RcTypes /\ RunsCover /\ RC!ButtonsReturn /\ RC!ResultsAreOfLastRun

LEMMA AllClear == RunsInv => RC!AllClearIsTrue
<1> SUFFICES ASSUME RunsInv, RC!NoAlertsShown, NEW pair \in tabs["dry"].ran
             PROVE  \E r \in tabs["dry"].results :
                       r.pair = pair /\ (pair[2] \in Reporting => r.outcome = "clean" /\ ~r.met)
  BY DEF RC!AllClearIsTrue
<1>1. PICK r \in tabs["dry"].results : r.pair = pair
  BY DEF RunsInv, RC!ResultsAreOfLastRun, RC!NoAlertsShown
<1>2. r.outcome # "alert" /\ r.outcome # "error"
  BY <1>1 DEF RC!NoAlertsShown, RC!drAlertRows, RC!drErrorResults, RC!Of
<1>3. CleanIsUnmet(r)
  BY <1>1 DEF RunsInv, RunsCover
<1>4. r.outcome = "clean"
  BY <1>2, <1>3 DEF CleanIsUnmet, RC!Result
<1> QED
  BY <1>1, <1>3, <1>4 DEF CleanIsUnmet

LEMMA RunsStart == RC!Init => RunsInv
<1> SUFFICES ASSUME RC!Init PROVE RunsInv
  OBVIOUS
<1> DEFINE none == [results |-> {}, running |-> FALSE, error |-> FALSE, ran |-> {}]
<1>1. /\ tabs = [t \in {"run", "dry"} |-> none] /\ rcRequests = {} /\ runs = 0 /\ triggers = {} /\ pressed = 0
      /\ collectorMetas \subseteq Collectors /\ instanceList \subseteq Instances /\ triggeringKey = RC!NoKey
  BY DEF RC!Init
<1>2. none \in RC!Tab /\ none.results = {} /\ none.running = FALSE
  BY DEF RC!Tab
<1>3. MaxRuns \in Nat /\ MaxTriggers \in Nat
  BY PartsFit DEF RC!ConstantsOK
<1> HIDE DEF none
<1>4. RcTypes
  BY <1>1, <1>2, <1>3 DEF RcTypes
<1>5. RunsCover /\ RC!ButtonsReturn /\ RC!ResultsAreOfLastRun
  BY <1>1, <1>2 DEF RunsCover, RC!ButtonsReturn, RC!ResultsAreOfLastRun
<1> QED
  BY <1>4, <1>5 DEF RunsInv

LEMMA RunsKept ==
  ASSUME RunsInv, [RC!Next]_(RC!vars)
  PROVE  RunsInv'
<1>1. /\ collectorMetas \subseteq Collectors /\ instanceList \subseteq Instances
      /\ tabs \in [{"run", "dry"} -> RC!Tab]
      /\ rcRequests \subseteq RC!Request /\ runs \in 0 .. MaxRuns
      /\ triggers \subseteq RC!Trigger /\ pressed \in 0 .. MaxTriggers
  BY DEF RunsInv, RcTypes
<1>2. /\ \A r, q \in rcRequests : r.tab = q.tab => r = q
      /\ \A r \in rcRequests : /\ r.todo \cup {x.pair : x \in r.results} = tabs[r.tab].ran
                               /\ \A x \in r.results : CleanIsUnmet(x)
      /\ \A t \in {"run", "dry"} : \A x \in tabs[t].results : CleanIsUnmet(x)
  BY DEF RunsInv, RunsCover
<1>3. /\ \A t \in {"run", "dry"} : tabs[t].running <=> \E r \in rcRequests : r.tab = t
      /\ triggeringKey # RC!NoKey => \E t \in triggers : t.key = triggeringKey
      /\ \A t \in {"run", "dry"} :
            tabs[t].results # {} => {r.pair : r \in tabs[t].results} = tabs[t].ran
  BY DEF RunsInv, RC!ButtonsReturn, RC!ResultsAreOfLastRun
<1>4. \A t \in {"run", "dry"} : /\ tabs[t].results \subseteq RC!Result /\ tabs[t].running \in BOOLEAN
                                /\ tabs[t].error \in BOOLEAN /\ tabs[t].ran \subseteq RC!Pairs
  BY <1>1 DEF RC!Tab
<1>5. \A r \in rcRequests : /\ r.tab \in {"run", "dry"} /\ r.todo \subseteq RC!Pairs
                            /\ r.results \subseteq RC!Result /\ r.nr \in 1 .. MaxRuns
  BY <1>1 DEF RC!Request
<1>6. MaxRuns \in Nat /\ MaxTriggers \in Nat
  BY PartsFit DEF RC!ConstantsOK
(* What the triggers do leaves the runs alone.                              *)
<1>7. ASSUME UNCHANGED <<tabs, rcRequests, runs, collectorMetas, instanceList>>,
             triggers' \subseteq RC!Trigger, pressed' \in 0 .. MaxTriggers,
             triggeringKey' # RC!NoKey => \E t \in triggers' : t.key = triggeringKey'
      PROVE  RunsInv'
  <2>1. RcTypes' /\ RunsCover'
    BY <1>1, <1>2, <1>7 DEF RcTypes, RunsCover, CleanIsUnmet
  <2> QED
    BY <1>3, <1>7, <2>1 DEF RunsInv, RC!ButtonsReturn, RC!ResultsAreOfLastRun
<1>8. ASSUME NEW t \in {"run", "dry"}, NEW cs \in SUBSET Collectors, NEW is \in SUBSET Instances, RC!Run(t, cs, is)
      PROVE  RunsInv'
  <2> DEFINE pairs == is \X cs
  <2>1. pairs \subseteq RC!Pairs
    BY DEF RC!Pairs
  <2> HIDE DEF pairs
  <2>2. /\ ~tabs[t].running /\ runs < MaxRuns /\ runs' = runs + 1
        /\ tabs' = [tabs EXCEPT ![t] = [@ EXCEPT !.running = TRUE, !.error = FALSE, !.results = {}, !.ran = pairs]]
        /\ rcRequests' = rcRequests \cup {[nr |-> runs', tab |-> t, todo |-> pairs, results |-> {}]}
        /\ UNCHANGED <<collectorMetas, instanceList, triggeringKey, triggers, pressed>>
    BY <1>8 DEF RC!Run, RC!mounted, pairs
  <2>3. PICK n : n = [nr |-> runs', tab |-> t, todo |-> pairs, results |-> {}]
    OBVIOUS
  <2>4. runs' \in 1 .. MaxRuns
    BY <1>1, <1>6, <2>2
  <2>5. n \in RC!Request /\ n.tab = t /\ n.todo = pairs /\ n.results = {} /\ rcRequests' = rcRequests \cup {n}
    BY <2>1, <2>2, <2>3, <2>4 DEF RC!Request
  <2>6. /\ tabs' \in [{"run", "dry"} -> RC!Tab]
        /\ tabs'[t].running = TRUE /\ tabs'[t].results = {} /\ tabs'[t].ran = pairs
        /\ \A u \in {"run", "dry"} \ {t} : tabs'[u] = tabs[u]
    BY <1>1, <2>1, <2>2 DEF RC!Tab
  <2>7. \A r \in rcRequests : r.tab # t
    BY <1>3, <2>2
  <2>8. RcTypes'
    BY <1>1, <1>6, <2>2, <2>4, <2>5, <2>6 DEF RcTypes
  <2>9. RunsCover'
    <3>1. \A r \in rcRequests' : /\ r.todo \cup {x.pair : x \in r.results} = tabs'[r.tab].ran
                                 /\ \A x \in r.results : CleanIsUnmet(x)
      <4>1. n.todo \cup {x.pair : x \in n.results} = tabs'[n.tab].ran
        BY <2>5, <2>6
      <4>2. \A r \in rcRequests : tabs'[r.tab] = tabs[r.tab]
        BY <1>5, <2>6, <2>7
      <4> QED
        BY <1>2, <2>5, <4>1, <4>2
    <3>2. \A r, q \in rcRequests' : r.tab = q.tab => r = q
      BY <1>2, <2>5, <2>7
    <3>3. \A u \in {"run", "dry"} : \A x \in tabs'[u].results : CleanIsUnmet(x)
      BY <1>2, <2>6
    <3> QED
      BY <3>1, <3>2, <3>3 DEF RunsCover, CleanIsUnmet
  <2>10. RC!ButtonsReturn' /\ RC!ResultsAreOfLastRun'
    BY <1>3, <2>2, <2>5, <2>6 DEF RC!ButtonsReturn, RC!ResultsAreOfLastRun
  <2> QED
    BY <2>8, <2>9, <2>10 DEF RunsInv
<1>9. ASSUME NEW r \in rcRequests, NEW pair \in RC!Pairs, NEW answered \in BOOLEAN, RC!RunPair(r, pair, answered)
      PROVE  RunsInv'
  <2>1. PICK x : x = [pair |-> pair, outcome |-> RC!Outcome(pair, answered), met |-> pair \in condition]
    OBVIOUS
  <2>2. PICK n : n = [r EXCEPT !.todo = @ \ {pair}, !.results = @ \cup {x}]
    OBVIOUS
  <2>3. /\ pair \in r.todo /\ rcRequests' = (rcRequests \ {r}) \cup {n}
        /\ UNCHANGED <<collectorMetas, instanceList, tabs, runs, triggeringKey, triggers, pressed>>
    BY <1>9, <2>1, <2>2 DEF RC!RunPair, RC!mounted, RC!triggering
  <2>4. CleanIsUnmet(x) /\ x.pair = pair
    <3>1. RC!Outcome(pair, answered) \in {"clean", "alert", "error"}
          /\ (pair[2] \in Reporting /\ RC!Outcome(pair, answered) = "clean" => pair \notin condition)
      BY DEF RC!Outcome
    <3>2. x.pair = pair /\ x.outcome = RC!Outcome(pair, answered) /\ x.met = (pair \in condition)
      BY <2>1
    <3>3. x \in RC!Result
      <4>1. (pair \in condition) \in BOOLEAN
        OBVIOUS
      <4> QED
        BY <2>1, <3>1, <4>1 DEF RC!Result
    <3> QED
      BY <3>1, <3>2, <3>3 DEF CleanIsUnmet
  <2>5. n \in RC!Request /\ n.tab = r.tab /\ n.todo = r.todo \ {pair} /\ n.results = r.results \cup {x}
    BY <1>1, <2>2, <2>4 DEF RC!Request, CleanIsUnmet
  <2>6. n.todo \cup {y.pair : y \in n.results} = tabs[n.tab].ran
    <3>1. {y.pair : y \in n.results} = {y.pair : y \in r.results} \cup {pair}
      BY <2>4, <2>5
    <3> QED
      BY <1>2, <2>3, <2>5, <3>1
  <2>7. RcTypes'
    BY <1>1, <2>3, <2>5 DEF RcTypes
  <2>8. RunsCover'
    <3>1. \A q \in rcRequests' : /\ q.todo \cup {y.pair : y \in q.results} = tabs[q.tab].ran
                                 /\ \A y \in q.results : CleanIsUnmet(y)
      BY <1>2, <2>3, <2>4, <2>5, <2>6
    <3>2. \A q, s \in rcRequests' : q.tab = s.tab => q = s
      BY <1>2, <2>3, <2>5
    <3> QED
      BY <1>2, <2>3, <3>1, <3>2 DEF RunsCover, CleanIsUnmet
  <2>9. RC!ButtonsReturn' /\ RC!ResultsAreOfLastRun'
    BY <1>3, <2>3, <2>5 DEF RC!ButtonsReturn, RC!ResultsAreOfLastRun
  <2> QED
    BY <2>7, <2>8, <2>9 DEF RunsInv
<1>10. ASSUME NEW r \in rcRequests, NEW tab1 \in RC!Tab,
              tabs' = [tabs EXCEPT ![r.tab] = tab1], rcRequests' = rcRequests \ {r},
              tab1.running = FALSE, tab1.ran = tabs[r.tab].ran,
              tab1.results # {} => {x.pair : x \in tab1.results} = tab1.ran,
              \A x \in tab1.results : CleanIsUnmet(x),
              UNCHANGED <<collectorMetas, instanceList, runs, triggeringKey, triggers, pressed>>
       PROVE  RunsInv'
  <2>1. tabs' \in [{"run", "dry"} -> RC!Tab] /\ tabs'[r.tab] = tab1
        /\ \A u \in {"run", "dry"} \ {r.tab} : tabs'[u] = tabs[u]
    BY <1>1, <1>5, <1>10
  <2>2. \A q \in rcRequests' : q.tab # r.tab
    BY <1>2, <1>10
  <2>3. RcTypes'
    BY <1>1, <1>10, <2>1 DEF RcTypes
  <2>4. RunsCover'
    <3>1. \A q \in rcRequests' : tabs'[q.tab] = tabs[q.tab] /\ q \in rcRequests
      BY <1>5, <1>10, <2>1, <2>2
    <3>2. \A u \in {"run", "dry"} : \A x \in tabs'[u].results : CleanIsUnmet(x)
      BY <1>2, <1>10, <2>1
    <3> QED
      BY <1>2, <3>1, <3>2 DEF RunsCover, CleanIsUnmet
  <2>5. RC!ButtonsReturn'
    BY <1>3, <1>5, <1>10, <2>1, <2>2 DEF RC!ButtonsReturn
  <2>6. RC!ResultsAreOfLastRun'
    BY <1>3, <1>5, <1>10, <2>1 DEF RC!ResultsAreOfLastRun
  <2> QED
    BY <2>3, <2>4, <2>5, <2>6 DEF RunsInv
<1>11. ASSUME NEW r \in rcRequests, RC!Answered(r) PROVE RunsInv'
  <2>1. PICK n : n = [tabs[r.tab] EXCEPT !.results = r.results, !.running = FALSE]
    OBVIOUS
  <2>2. n \in RC!Tab /\ n.running = FALSE /\ n.ran = tabs[r.tab].ran /\ n.results = r.results
    BY <1>1, <1>5, <2>1 DEF RC!Tab
  <2>3. /\ r.todo = {} /\ rcRequests' = rcRequests \ {r}
        /\ tabs' = [tabs EXCEPT ![r.tab].results = r.results, ![r.tab].running = FALSE]
        /\ UNCHANGED <<collectorMetas, instanceList, runs, triggeringKey, triggers, pressed>>
    BY <1>11 DEF RC!Answered, RC!mounted, RC!triggering
  <2>4. tabs' = [tabs EXCEPT ![r.tab] = n]
    BY <1>1, <1>5, <2>1, <2>3
  <2>5. {x.pair : x \in n.results} = n.ran
    BY <1>2, <2>2, <2>3
  <2> QED
    BY <1>2, <1>10, <2>2, <2>3, <2>4, <2>5
<1>12. ASSUME NEW r \in rcRequests, RC!RunFails(r) PROVE RunsInv'
  <2>1. PICK n : n = [tabs[r.tab] EXCEPT !.error = TRUE, !.running = FALSE]
    OBVIOUS
  <2>2. n \in RC!Tab /\ n.running = FALSE /\ n.ran = tabs[r.tab].ran /\ n.results = tabs[r.tab].results
    BY <1>1, <1>5, <2>1 DEF RC!Tab
  <2>3. /\ rcRequests' = rcRequests \ {r}
        /\ tabs' = [tabs EXCEPT ![r.tab].error = TRUE, ![r.tab].running = FALSE]
        /\ UNCHANGED <<collectorMetas, instanceList, runs, triggeringKey, triggers, pressed>>
    BY <1>12 DEF RC!RunFails, RC!mounted, RC!triggering
  <2>4. tabs' = [tabs EXCEPT ![r.tab] = n]
    BY <1>1, <1>5, <2>1, <2>3
  <2>5. /\ n.results # {} => {x.pair : x \in n.results} = n.ran
        /\ \A x \in n.results : CleanIsUnmet(x)
    BY <1>2, <1>3, <1>5, <2>2
  <2> QED
    BY <1>10, <2>2, <2>3, <2>4, <2>5
<1>13. ASSUME NEW pair \in RC!Pairs, RC!ConditionChanges(pair) PROVE RunsInv'
  BY <1>1, <1>3, <1>7, <1>13 DEF RC!ConditionChanges, RC!mounted, RC!triggering
<1>14. ASSUME NEW key \in RC!Pairs, RC!TriggerAlert(key) PROVE RunsInv'
  <2>1. PICK n : n = [nr |-> pressed', key |-> key, inserted |-> FALSE]
    OBVIOUS
  <2>2. /\ pressed < MaxTriggers /\ pressed' = pressed + 1 /\ triggeringKey' = key
        /\ triggers' = triggers \cup {n}
        /\ UNCHANGED <<collectorMetas, instanceList, tabs, rcRequests, runs>>
    BY <1>14, <2>1 DEF RC!TriggerAlert, RC!mounted
  <2>3. pressed' \in 1 .. MaxTriggers
    BY <1>1, <1>6, <2>2
  <2>4. n \in RC!Trigger /\ n.key = key
    BY <2>1, <2>3 DEF RC!Trigger
  <2> QED
    BY <1>1, <1>7, <2>2, <2>3, <2>4
<1>15. ASSUME NEW t \in triggers, RC!InsertAlert(t) PROVE RunsInv'
  <2>1. PICK n : n = [t EXCEPT !.inserted = TRUE]
    OBVIOUS
  <2>2. n \in RC!Trigger /\ n.key = t.key
    BY <1>1, <2>1 DEF RC!Trigger
  <2>3. /\ triggers' = (triggers \ {t}) \cup {n}
        /\ UNCHANGED <<collectorMetas, instanceList, tabs, rcRequests, runs, triggeringKey, pressed>>
    BY <1>15, <2>1 DEF RC!InsertAlert, RC!mounted
  <2> QED
    BY <1>1, <1>3, <1>7, <2>2, <2>3
<1>16. ASSUME NEW t \in triggers, RC!Triggered(t) \/ RC!TriggerFails(t) PROVE RunsInv'
  BY <1>1, <1>7, <1>16 DEF RC!Triggered, RC!TriggerFails, RC!TriggerEnds, RC!mounted
<1>17. CASE UNCHANGED RC!vars
  BY <1>1, <1>3, <1>7, <1>17 DEF RC!vars, RC!mounted, RC!triggering
<1> QED
  BY <1>8, <1>9, <1>11, <1>12, <1>13, <1>14, <1>15, <1>16, <1>17 DEF RC!Next

(* What the triggers rely on, and the state that the runs do not look at.   *)
TriggerTypes ==
    /\ collectorMetas \in {{}, Collectors} /\ instanceList \in {{}, Instances} /\ initError \in BOOLEAN
    /\ condition \subseteq RC!Pairs
    /\ triggers \subseteq RC!Trigger
    /\ triggeringKey \in RC!Pairs \cup {RC!NoKey} /\ triggeredKeys \subseteq RC!Pairs
    /\ rcRows \in [RC!Pairs -> Nat] /\ written \subseteq RC!Pairs /\ rcCrossed \in BOOLEAN

(* A pair with a row has been triggered, or is the one being triggered.     *)
Accounted(p) ==
    rcRows[p] = 0 \/ (rcRows[p] = 1 /\ (p \in triggeredKeys \/ \E t \in triggers : t.key = p /\ t.inserted))

(* Unless triggers crossed, there is one at a time, for a pair that has not *)
(* been triggered.                                                          *)
TriggersInv ==
    /\ TriggerTypes
    /\ triggeredKeys \subseteq written
    /\ \A t \in triggers : t.inserted => t.key \in written
    /\ ~rcCrossed =>
          /\ \A t, u \in triggers : t = u
          /\ \A t \in triggers : t.key \notin triggeredKeys
          /\ \A p \in RC!Pairs : Accounted(p)

LEMMA WrittenOnce == TriggersInv => RC!TriggersWriteOnce
<1> SUFFICES ASSUME TriggersInv, ~rcCrossed, NEW p \in RC!Pairs PROVE rcRows[p] <= 1
  BY DEF TriggersInv, RC!TriggersWriteOnce
<1> QED
  BY DEF TriggersInv, Accounted

LEMMA TriggersStart == RC!Init => TriggersInv
<1> SUFFICES ASSUME RC!Init PROVE TriggersInv
  OBVIOUS
<1>1. /\ collectorMetas \in {{}, Collectors} /\ instanceList \in {{}, Instances}
      /\ condition \subseteq RC!Pairs
      /\ triggeringKey = RC!NoKey /\ triggeredKeys = {} /\ triggers = {}
      /\ rcRows = [p \in RC!Pairs |-> 0] /\ written = {} /\ rcCrossed = FALSE
  BY DEF RC!Init
<1>2. initError \in BOOLEAN
  <2>1. initError = (collectorMetas = {} \/ instanceList = {})
    BY DEF RC!Init
  <2>2. (collectorMetas = {} \/ instanceList = {}) \in BOOLEAN
    OBVIOUS
  <2> QED
    BY <2>1, <2>2
<1>3. TriggerTypes
  BY <1>1, <1>2 DEF TriggerTypes
<1> QED
  BY <1>1, <1>3 DEF TriggersInv, Accounted

LEMMA TriggersKept ==
  ASSUME TriggersInv, pressed \in 0 .. MaxTriggers, [RC!Next]_(RC!vars)
  PROVE  TriggersInv'
<1>1. /\ collectorMetas \in {{}, Collectors} /\ instanceList \in {{}, Instances} /\ initError \in BOOLEAN
      /\ condition \subseteq RC!Pairs
      /\ triggers \subseteq RC!Trigger
      /\ triggeringKey \in RC!Pairs \cup {RC!NoKey} /\ triggeredKeys \subseteq RC!Pairs
      /\ rcRows \in [RC!Pairs -> Nat] /\ written \subseteq RC!Pairs /\ rcCrossed \in BOOLEAN
  BY DEF TriggersInv, TriggerTypes
<1>2. /\ triggeredKeys \subseteq written
      /\ \A t \in triggers : t.inserted => t.key \in written
      /\ ~rcCrossed => /\ \A t, u \in triggers : t = u
                       /\ \A t \in triggers : t.key \notin triggeredKeys
                       /\ \A p \in RC!Pairs : Accounted(p)
  BY DEF TriggersInv
<1>3. \A t \in triggers : t.key \in RC!Pairs /\ t.inserted \in BOOLEAN
  BY <1>1 DEF RC!Trigger
(* What the runs do leaves the triggers alone.                              *)
<1>4. ASSUME UNCHANGED <<collectorMetas, instanceList, initError, triggeringKey, triggeredKeys, triggers, rcRows, written, rcCrossed>>,
             condition' \subseteq RC!Pairs
      PROVE  TriggersInv'
  <2>1. TriggerTypes'
    BY <1>1, <1>4 DEF TriggerTypes
  <2> QED
    BY <1>2, <1>4, <2>1 DEF TriggersInv, Accounted
<1>5. ASSUME NEW t \in {"run", "dry"}, NEW cs \in SUBSET Collectors, NEW is \in SUBSET Instances, RC!Run(t, cs, is)
      PROVE  TriggersInv'
  <2>1. UNCHANGED <<collectorMetas, instanceList, initError, condition, triggeringKey, triggers, written, rcCrossed>>
    BY <1>5 DEF RC!Run, RC!mounted
  <2>2. CASE t # "dry"
    <3>1. UNCHANGED <<triggeredKeys, rcRows>>
      BY <1>5, <2>2 DEF RC!Run
    <3> QED
      BY <1>1, <1>4, <2>1, <3>1
  <2>3. CASE t = "dry"
    <3>1. triggeredKeys' = {} /\ rcRows' = [p \in RC!Pairs |-> 0]
      BY <1>5, <2>3 DEF RC!Run
    <3>2. TriggerTypes'
      BY <1>1, <2>1, <3>1 DEF TriggerTypes
    <3> QED
      BY <1>2, <2>1, <3>1, <3>2 DEF TriggersInv, Accounted
  <2> QED
    BY <2>2, <2>3
<1>6. ASSUME NEW r \in rcRequests,
             (\E pair \in RC!Pairs, answered \in BOOLEAN : RC!RunPair(r, pair, answered)) \/ RC!Answered(r) \/ RC!RunFails(r)
      PROVE  TriggersInv'
  <2>1. UNCHANGED <<collectorMetas, instanceList, initError, condition, triggeringKey, triggeredKeys, triggers, rcRows, written, rcCrossed>>
    BY <1>6 DEF RC!RunPair, RC!Answered, RC!RunFails, RC!mounted, RC!triggering
  <2> QED
    BY <1>1, <1>4, <2>1
<1>7. ASSUME NEW pair \in RC!Pairs, RC!ConditionChanges(pair) PROVE TriggersInv'
  <2>1. UNCHANGED <<collectorMetas, instanceList, initError, triggeringKey, triggeredKeys, triggers, rcRows, written, rcCrossed>>
    BY <1>7 DEF RC!ConditionChanges, RC!mounted, RC!triggering
  <2>2. condition' \subseteq RC!Pairs
    BY <1>1, <1>7 DEF RC!ConditionChanges
  <2> QED
    BY <1>4, <2>1, <2>2
<1>8. ASSUME NEW key \in RC!Pairs, RC!TriggerAlert(key) PROVE TriggersInv'
  <2>1. PICK n : n = [nr |-> pressed', key |-> key, inserted |-> FALSE]
    OBVIOUS
  <2>2. /\ key \notin triggeredKeys /\ pressed < MaxTriggers /\ pressed' = pressed + 1 /\ triggeringKey' = key
        /\ triggers' = triggers \cup {n}
        /\ UNCHANGED <<collectorMetas, instanceList, initError, condition, triggeredKeys, rcRows, written>>
    BY <1>8, <2>1 DEF RC!TriggerAlert, RC!mounted
  <2>3. rcCrossed' = (rcCrossed \/ triggers # {})
    BY <1>8 DEF RC!TriggerAlert
  <2>4. rcCrossed' \in BOOLEAN /\ (~rcCrossed' => ~rcCrossed /\ triggers = {})
    BY <2>3
  <2>5. pressed' \in 1 .. MaxTriggers
    BY <2>2, PartsFit DEF RC!ConstantsOK
  <2>6. n \in RC!Trigger /\ n.key = key /\ ~n.inserted
    BY <2>1, <2>5 DEF RC!Trigger
  <2>7. TriggerTypes'
    BY <1>1, <2>2, <2>4, <2>6 DEF TriggerTypes
  <2>8. \A t \in triggers' : t.inserted => t.key \in written'
    BY <1>2, <2>2, <2>6
  <2>9. ASSUME ~rcCrossed' PROVE /\ \A t, u \in triggers' : t = u
                                /\ \A t \in triggers' : t.key \notin triggeredKeys'
                                /\ \A p \in RC!Pairs : Accounted(p)'
    BY <1>2, <2>2, <2>4, <2>6, <2>9 DEF Accounted
  <2> QED
    BY <1>2, <2>2, <2>7, <2>8, <2>9 DEF TriggersInv
<1>9. ASSUME NEW t \in triggers, RC!InsertAlert(t) PROVE TriggersInv'
  <2>1. PICK n : n = [t EXCEPT !.inserted = TRUE]
    OBVIOUS
  <2>2. /\ ~t.inserted /\ triggers' = (triggers \ {t}) \cup {n}
        /\ rcRows' = [rcRows EXCEPT ![t.key] = @ + 1] /\ written' = written \cup {t.key}
        /\ UNCHANGED <<collectorMetas, instanceList, initError, condition, triggeringKey, triggeredKeys, rcCrossed>>
    BY <1>9, <2>1 DEF RC!InsertAlert, RC!mounted
  <2>3. n \in RC!Trigger /\ n.key = t.key /\ n.inserted
    BY <1>1, <2>1 DEF RC!Trigger
  <2>4. rcRows' \in [RC!Pairs -> Nat]
    BY <1>1, <1>3, <2>2
  <2>5. TriggerTypes'
    BY <1>1, <1>3, <2>2, <2>3, <2>4 DEF TriggerTypes
  <2>6. triggeredKeys' \subseteq written' /\ \A u \in triggers' : u.inserted => u.key \in written'
    BY <1>2, <2>2, <2>3
  <2>7. ASSUME ~rcCrossed' PROVE /\ triggers' = {n} /\ n.key \notin triggeredKeys'
                                /\ \A p \in RC!Pairs : Accounted(p)'
    <3>1. \A u \in triggers : u = t
      BY <1>2, <2>2, <2>7
    <3>2. triggers' = {n}
      BY <2>2, <3>1
    <3>3. rcRows[t.key] = 0
      BY <1>2, <1>3, <2>2, <2>7, <3>1 DEF Accounted
    <3>4. rcRows'[t.key] = 1 /\ \A p \in RC!Pairs \ {t.key} : rcRows'[p] = rcRows[p]
      BY <1>1, <1>3, <2>2, <3>3
    <3>5. ASSUME NEW p \in RC!Pairs PROVE Accounted(p)'
      <4>1. CASE p = t.key
        BY <2>3, <3>2, <3>4, <4>1 DEF Accounted
      <4>2. CASE p # t.key
        BY <1>2, <2>2, <2>7, <3>1, <3>4, <4>2 DEF Accounted
      <4> QED
        BY <4>1, <4>2
    <3> QED
      BY <1>2, <2>2, <2>3, <2>7, <3>2, <3>5
  <2> QED
    BY <2>5, <2>6, <2>7 DEF TriggersInv
<1>10. ASSUME NEW t \in triggers, RC!Triggered(t) PROVE TriggersInv'
  <2>1. /\ t.inserted /\ triggers' = triggers \ {t} /\ triggeringKey' = RC!NoKey
        /\ triggeredKeys' = triggeredKeys \cup {t.key}
        /\ UNCHANGED <<collectorMetas, instanceList, initError, condition, rcRows, written, rcCrossed>>
    BY <1>10 DEF RC!Triggered, RC!TriggerEnds, RC!mounted
  <2>2. TriggerTypes'
    BY <1>1, <1>3, <2>1 DEF TriggerTypes
  <2>3. triggeredKeys' \subseteq written' /\ \A u \in triggers' : u.inserted => u.key \in written'
    BY <1>2, <2>1
  <2>4. ASSUME ~rcCrossed' PROVE triggers' = {} /\ \A p \in RC!Pairs : Accounted(p)'
    BY <1>2, <2>1, <2>4 DEF Accounted
  <2> QED
    BY <2>2, <2>3, <2>4 DEF TriggersInv
<1>11. ASSUME NEW t \in triggers, RC!TriggerFails(t) PROVE TriggersInv'
  <2>1. /\ triggers' = triggers \ {t} /\ triggeringKey' = RC!NoKey
        /\ UNCHANGED <<collectorMetas, instanceList, initError, condition, triggeredKeys, rcRows, written>>
    BY <1>11 DEF RC!TriggerFails, RC!TriggerEnds, RC!mounted
  <2>2. rcCrossed' \in BOOLEAN /\ (~rcCrossed' => ~rcCrossed /\ ~t.inserted)
    BY <1>11 DEF RC!TriggerFails
  <2>3. TriggerTypes'
    BY <1>1, <2>1, <2>2 DEF TriggerTypes
  <2>4. ASSUME ~rcCrossed' PROVE triggers' = {} /\ \A p \in RC!Pairs : Accounted(p)'
    BY <1>2, <2>1, <2>2, <2>4 DEF Accounted
  <2> QED
    BY <1>2, <2>1, <2>3, <2>4 DEF TriggersInv
<1>12. CASE UNCHANGED RC!vars
  BY <1>1, <1>4, <1>12 DEF RC!vars, RC!mounted, RC!triggering
<1> QED
  BY <1>5, <1>6, <1>7, <1>8, <1>9, <1>10, <1>11, <1>12 DEF RC!Next

RcInv == RunsInv /\ TriggersInv

LEMMA RcTyped == RcInv => RC!TypeOK
BY DEF RcInv, RunsInv, RcTypes, TriggersInv, TriggerTypes, RC!TypeOK

LEMMA RcStarts == RC!Init => RcInv
BY RunsStart, TriggersStart DEF RcInv

LEMMA RcKept ==
  ASSUME RcInv, [RC!Next]_(RC!vars)
  PROVE  RcInv'
BY RunsKept, TriggersKept DEF RcInv, RunsInv, RcTypes

-----------------------------------------------------------------------------
(* The scanner                                                              *)

(* The request that ended last is the last one, unless one was overtaken or *)
(* it is under way; if nothing has failed its answer is the result.         *)
TsInv ==
    /\ TS!TypeOK
    /\ sent.nr = 0 => tsApplied = 0 /\ result = <<>> /\ loads = {} /\ selectedDb = "all"
    /\ sent.nr # 0 => sent \in TS!Request /\ sent.instance = tsInstance
    /\ \A r \in loads : r.nr < sent.nr \/ r = sent
    /\ ~tsOvertaken => sent.nr = tsApplied \/ sent \in loads
    /\ tsApplied <= sent.nr
    /\ ~tsError /\ sent.nr # 0 /\ tsApplied = sent.nr => result = <<sent>>
    /\ ~tsError /\ ~tsOvertaken /\ ~between /\ selectedDb # "all" => sent.db \in {"all", selectedDb}

LEMMA TsLoaded ==
  ASSUME NEW r, result = <<r>>
  PROVE  TS!Loaded = TS!Found(r)
<1>1. DOMAIN result = {1} /\ result[1] = r
  OBVIOUS
<1> QED
  BY <1>1 DEF TS!Loaded

LEMMA ChosenDbIsWhole == TsInv => TS!ChosenDbIsComplete
<1> SUFFICES ASSUME TsInv, loads = {}, ~tsError, ~tsOvertaken, ~between, result # <<>>, selectedDb # "all"
             PROVE  TS!sorted = {t \in Tables : /\ t.instance = tsInstance
                                                /\ t.database = selectedDb /\ TS!Passes(t)}
  BY DEF TS!ChosenDbIsComplete
<1>1. sent.nr # 0 /\ sent.nr = tsApplied /\ result = <<sent>>
  BY DEF TsInv
<1>2. TS!Loaded = TS!Found(sent)
  BY <1>1, TsLoaded
<1>3. sent.instance = tsInstance /\ sent.db \in {"all", selectedDb}
  BY <1>1 DEF TsInv
<1>4. "all" \notin Databases /\ \A t \in Tables : t.database \in Databases
  BY PartsFit DEF TS!ConstantsOK
<1> QED
  BY <1>2, <1>3, <1>4 DEF TS!sorted, TS!Found

LEMMA TsStarts == TS!Init => TsInv
<1> SUFFICES ASSUME TS!Init PROVE TsInv
  OBVIOUS
<1>1. MaxLoads \in Nat
  BY PartsFit DEF TS!ConstantsOK
<1>2. sent = [nr |-> 0] /\ sent.nr = 0 /\ tsApplied = 0 /\ result = <<>> /\ loads = {} /\ selectedDb = "all"
  BY DEF TS!Init, TS!NotSent
<1>3. TS!TypeOK
  <2>1. sent \in TS!Request \cup {TS!NotSent} /\ result \in {<<>>} \cup {<<r>> : r \in TS!Request}
    BY <1>2 DEF TS!Init
  <2>2. {tsLoading, tsError, tsOvertaken, between} \subseteq BOOLEAN
    BY DEF TS!Init
  <2>3. tsApplied \in 0 .. MaxLoads
    BY <1>1, <1>2
  <2> QED
    BY <1>2, <2>1, <2>2, <2>3 DEF TS!Init, TS!TypeOK, TS!Choices
<1> QED
  BY <1>2, <1>3 DEF TsInv, TS!Init

(* A request is sent: for the instance of the view.                         *)
LEMMA TsSends ==
  ASSUME TsInv, NEW i \in Nodes, NEW sys \in BOOLEAN, TS!Load(i, sys, selectedDb), tsInstance' = i,
         includeSystem' = sys, selectedDb' \in {"all", selectedDb}, selectedInstance' = selectedInstance,
         result' = <<>> \/ result' = result,
         UNCHANGED <<rowFilter, tsApplied, tsOvertaken>>
  PROVE  TsInv'
<1> DEFINE r == [nr |-> sent.nr + 1, instance |-> i, system |-> sys, db |-> selectedDb]
<1>1. sent.nr \in Nat /\ sent.nr < MaxLoads /\ MaxLoads \in Nat
  <2>1. sent \in TS!Request \cup {TS!NotSent} /\ MaxLoads \in Nat /\ sent.nr < MaxLoads
    BY PartsFit DEF TsInv, TS!TypeOK, TS!Load, TS!ConstantsOK
  <2> QED
    BY <2>1 DEF TS!Request, TS!NotSent
<1>2. selectedDb \in TS!Choices /\ selectedDb' \in TS!Choices
  BY DEF TsInv, TS!TypeOK, TS!Choices
<1>3. r \in TS!Request /\ sent' = r /\ loads' = loads \cup {r}
  BY <1>1, <1>2 DEF TS!Load, TS!Request
<1>4. sent'.nr = sent.nr + 1 /\ sent'.instance = i /\ sent'.db = selectedDb
  BY <1>3
<1>5. tsLoading' = TRUE /\ tsError' = FALSE /\ between' = FALSE /\ tsOvertaken' \in BOOLEAN
  BY DEF TS!Load, TsInv, TS!TypeOK
<1>6. result' \in {<<>>} \cup {<<q>> : q \in TS!Request}
  BY DEF TsInv, TS!TypeOK
<1> HIDE DEF r
<1>7. TS!TypeOK'
  BY <1>2, <1>3, <1>5, <1>6 DEF TsInv, TS!TypeOK
<1>8. \A q \in loads' : q.nr < sent'.nr \/ q = sent'
  <2>1. \A q \in loads : q.nr \in Nat
    BY DEF TsInv, TS!TypeOK, TS!Request
  <2> QED
    BY <1>1, <1>3, <1>4, <2>1 DEF TsInv
<1>9. tsApplied' <= sent.nr /\ tsApplied \in Nat
  BY DEF TsInv, TS!TypeOK
<1> QED
  BY <1>1, <1>3, <1>4, <1>5, <1>7, <1>8, <1>9 DEF TsInv

LEMMA TsEnds ==
  ASSUME TsInv, NEW r, TS!Ends(r),
         (result' = <<r>> /\ tsError' = tsError) \/ (tsError' = TRUE /\ result' = result)
  PROVE  TsInv'
<1>1. r \in loads /\ r \in TS!Request /\ r.nr \in 1 .. MaxLoads /\ (r.nr < sent.nr \/ r = sent) /\ MaxLoads \in Nat
  BY PartsFit DEF TsInv, TS!TypeOK, TS!Ends, TS!Request, TS!ConstantsOK
<1>2. /\ loads' = loads \ {r} /\ tsLoading' = FALSE /\ tsApplied' = r.nr
      /\ tsOvertaken' = (tsOvertaken \/ r.nr < tsApplied)
      /\ UNCHANGED <<tsInstance, selectedInstance, includeSystem, selectedDb, rowFilter, sent, between>>
  BY DEF TS!Ends, TS!controls
<1>3. sent.nr \in Nat /\ tsApplied \in Nat
  BY DEF TsInv, TS!TypeOK, TS!Request, TS!NotSent
<1>4. sent.nr # 0 /\ sent \in TS!Request
  BY <1>1, <1>3 DEF TsInv
<1>5. TS!TypeOK'
  <2>1. result' \in {<<>>} \cup {<<q>> : q \in TS!Request}
    BY <1>1 DEF TsInv, TS!TypeOK
  <2>2. tsOvertaken' \in BOOLEAN /\ tsError' \in BOOLEAN
    BY <1>2 DEF TsInv, TS!TypeOK
  <2>3. {tsLoading', tsError', tsOvertaken', between'} \subseteq BOOLEAN
    BY <1>2, <2>2 DEF TsInv, TS!TypeOK
  <2>4. loads' \subseteq TS!Request /\ tsApplied' \in 0 .. MaxLoads
    BY <1>1, <1>2 DEF TsInv, TS!TypeOK
  <2> QED
    BY <1>2, <2>1, <2>3, <2>4 DEF TsInv, TS!TypeOK
<1>6. ~tsOvertaken' => ~tsOvertaken /\ ~(r.nr < tsApplied)
  BY <1>2
<1>7. ~tsOvertaken' => sent'.nr = tsApplied' \/ sent' \in loads'
  <2>1. CASE r = sent
    BY <1>2, <2>1
  <2>2. CASE r # sent
    BY <1>1, <1>2, <1>3, <1>6, <2>2 DEF TsInv
  <2> QED
    BY <2>1, <2>2
<1>8. ~tsError' /\ tsApplied' = sent'.nr => result' = <<sent>>
  BY <1>1, <1>2, <1>3
<1>9. tsApplied' <= sent'.nr
  BY <1>1, <1>2, <1>3
<1>10. ~tsError' => ~tsError
  OBVIOUS
<1> QED
  BY <1>2, <1>4, <1>5, <1>6, <1>7, <1>8, <1>9, <1>10 DEF TsInv

LEMMA TsKept ==
  ASSUME TsInv, [TS!Next]_(TS!vars)
  PROVE  TsInv'
<1>1. ASSUME TS!AdoptInstance PROVE TsInv'
  <2>1. PICK i \in Nodes : TS!Depend(i, includeSystem) /\ UNCHANGED <<selectedInstance, result>>
    BY <1>1 DEF TS!AdoptInstance
  <2> QED
    BY <2>1, TsSends DEF TS!Depend, TsInv, TS!TypeOK
<1>2. ASSUME NEW i \in Nodes, TS!ChooseInstance(i) PROVE TsInv'
  BY <1>2, TsSends DEF TS!ChooseInstance, TS!Depend, TsInv, TS!TypeOK
<1>3. ASSUME TS!ToggleSystem PROVE TsInv'
  <2>1. tsInstance \in Nodes
    BY <1>3 DEF TS!ToggleSystem, TsInv, TS!TypeOK
  <2> QED
    BY <1>3, <2>1, TsSends DEF TS!ToggleSystem, TS!Depend
<1>4. ASSUME TS!Refresh PROVE TsInv'
  <2>1. tsInstance \in Nodes /\ includeSystem \in BOOLEAN
    BY <1>4 DEF TS!Refresh, TsInv, TS!TypeOK
  <2> QED
    BY <1>4, <2>1, TsSends DEF TS!Refresh, TS!controls
<1>5. ASSUME NEW db \in TS!Choices, TS!ChooseDb(db) PROVE TsInv'
  <2>1. /\ db \in {"all"} \cup TS!availableDbs /\ TS!availableDbs # {} /\ selectedDb' = db
        /\ between' = (loads # {})
        /\ UNCHANGED <<tsInstance, selectedInstance, includeSystem, rowFilter, result, loads, tsLoading,
                       tsError, sent, tsApplied, tsOvertaken>>
    BY <1>5 DEF TS!ChooseDb
  <2>2. between' \in BOOLEAN /\ (~between' => loads = {})
    BY <2>1
  <2>3. TS!TypeOK'
    BY <2>1, <2>2 DEF TsInv, TS!TypeOK
  <2>4. result # <<>>
    BY <2>1 DEF TS!availableDbs, TS!Loaded
  <2>5. ~tsError /\ ~tsOvertaken /\ loads = {} /\ db # "all" => sent.db \in {"all", db}
    <3> SUFFICES ASSUME ~tsError, ~tsOvertaken, loads = {}, db # "all" PROVE sent.db \in {"all", db}
      OBVIOUS
    <3>1. sent.nr # 0 /\ result = <<sent>>
      BY <2>4 DEF TsInv
    <3>2. TS!Loaded = TS!Found(sent)
      BY <3>1, TsLoaded
    <3> QED
      BY <2>1, <3>2 DEF TS!availableDbs, TS!Found
  <2> QED
    BY <2>1, <2>2, <2>3, <2>4, <2>5 DEF TsInv
<1>6. ASSUME NEW f \in {"all", "active", "idle", "issues"}, TS!FilterRows(f) PROVE TsInv'
  BY <1>6 DEF TS!FilterRows, TsInv, TS!TypeOK
<1>7. ASSUME NEW r \in loads, TS!Succeed(r) \/ TS!Fail(r) PROVE TsInv'
  BY <1>7, TsEnds DEF TS!Succeed, TS!Fail
<1>8. ASSUME UNCHANGED TS!vars PROVE TsInv'
  BY <1>8 DEF TS!vars, TS!controls, TsInv, TS!TypeOK
<1> QED
  BY <1>1, <1>2, <1>3, <1>4, <1>5, <1>6, <1>7, <1>8 DEF TS!Next

-----------------------------------------------------------------------------
(* What is saved in the browser                                             *)

LEMMA SlConstants ==
  /\ Cap \in Nat /\ Cap > 0 /\ MaxSaved \in Nat
  /\ \A S : SL!Cardinality(S) = Cardinality(S)
  BY PartsFit DEF SL!ConstantsOK, SL!Cardinality, Cardinality

(* What is due is stored, and what was removed is not: of notifications     *)
(* always, of the other lists while one page alone has written its copy,    *)
(* which is then what is stored.                                            *)
SlKeeps ==
    /\ \A n \in 1 .. made : SL!Due(n) => n \in stored
    /\ removed \cap stored = {}

SlInv ==
    /\ SL!TypeOK /\ IsFiniteSet(writers)
    /\ stored \subseteq 1 .. made /\ \A p \in Pages : copies[p] \subseteq 1 .. made
    /\ list = "notifications" => SlKeeps
    /\ \A p : writers \subseteq {p} => SlKeeps
    /\ list # "notifications" => \A p \in Pages : writers \subseteq {p} => copies[p] = stored

LEMMA EntriesStay == SlInv => SL!EntriesLast
<1> SUFFICES ASSUME SlInv, list = "notifications" \/ SL!Cardinality(writers) <= 1 PROVE SlKeeps
  BY DEF SL!EntriesLast, SlKeeps
<1>1. CASE list = "notifications"
  BY <1>1 DEF SlInv
<1>2. CASE SL!Cardinality(writers) <= 1
  <2>1. IsFiniteSet(writers) /\ Cardinality(writers) <= 1 /\ Cardinality(writers) \in Nat
    BY <1>2, SlConstants, FS_CardinalityType DEF SlInv
  <2>2. PICK p : writers \subseteq {p}
    <3>1. CASE Cardinality(writers) = 0
      BY <2>1, <3>1, FS_EmptySet
    <3>2. CASE Cardinality(writers) = 1
      BY <2>1, <3>2, FS_Singleton
    <3> QED
      BY <2>1, <3>1, <3>2
  <2> QED
    BY <2>2 DEF SlInv
<1> QED
  BY <1>1, <1>2

(* The cut keeps what is among the last Cap that were made.                 *)
LEMMA NewestKeeps ==
  ASSUME NEW k \in Nat, NEW S \in SUBSET (1 .. k), NEW n \in S, n > k - Cap
  PROVE  n \in SL!Newest(S)
<1> DEFINE T == {m \in S : m > n}
<1>1. n \in 1 .. k /\ Cap \in Nat /\ Cap > 0
  BY SlConstants
<1>2. T \subseteq (n + 1) .. k
  <2>1. ASSUME NEW m \in T PROVE m \in (n + 1) .. k
    <3>1. m \in 1 .. k /\ m > n
      OBVIOUS
    <3> QED
      BY <1>1, <3>1
  <2> QED
    BY <2>1
<1>3. IsFiniteSet((n + 1) .. k) /\ Cardinality((n + 1) .. k) = IF n + 1 > k THEN 0 ELSE k - (n + 1) + 1
  BY <1>1, FS_Interval
<1>4. Cardinality(T) <= Cardinality((n + 1) .. k) /\ Cardinality(T) \in Nat
  <2>1. IsFiniteSet(T) /\ Cardinality(T) <= Cardinality((n + 1) .. k)
    BY <1>2, <1>3, FS_Subset
  <2> QED
    BY <2>1, FS_CardinalityType
<1>5. Cardinality(T) < Cap
  BY <1>1, <1>3, <1>4
<1> QED
  BY <1>5, SlConstants DEF SL!Newest

LEMMA SlStarts == SL!Init => SlInv
<1> SUFFICES ASSUME SL!Init PROVE SlInv
  OBVIOUS
<1>1. /\ made = 0 /\ aged = 0 /\ stored = {} /\ removed = {} /\ writers = {} /\ MaxSaved \in Nat
      /\ copies = [p \in Pages |-> {}] /\ flashes = [p \in Pages |-> 0]
  BY SlConstants DEF SL!Init
<1>2. copies \in [Pages -> SUBSET SL!Numbers] /\ flashes \in [Pages -> 0 .. 1]
  BY <1>1
<1>3. SL!TypeOK
  BY <1>1, <1>2 DEF SL!Init, SL!TypeOK
<1>4. SlKeeps
  BY <1>1 DEF SlKeeps
<1> QED
  BY <1>1, <1>3, <1>4, FS_EmptySet DEF SlInv

(* A new entry n comes on top of what is kept, K, which the cut may shorten *)
LEMMA AddingKeeps ==
  ASSUME SlInv, SlKeeps, SL!Make, list # "views",
         NEW K, K \subseteq stored, \A n \in stored : n > aged => n \in K,
         stored' = SL!Newest({made + 1} \cup K), list' = list, aged' = aged, removed' = removed
  PROVE  SlKeeps' /\ stored' \subseteq 1 .. made'
<1>1. made \in Nat /\ made' = made + 1 /\ aged \in 0 .. made /\ removed \subseteq 1 .. made /\ stored \subseteq 1 .. made
  BY SlConstants DEF SlInv, SL!TypeOK, SL!Make
<1> DEFINE S == {made + 1} \cup K
<1>5. S \in SUBSET (1 .. made + 1)
  BY <1>1
<1>6. stored' = SL!Newest(S) /\ stored' \subseteq S /\ made + 1 \in S /\ K \subseteq S
  BY DEF SL!Newest
<1> HIDE DEF S
<1>2. stored' \subseteq 1 .. made' /\ made + 1 \in Nat
  <2>1. stored' \subseteq 1 .. made + 1
    BY <1>5, <1>6
  <2>2. made + 1 \in Nat /\ made' = made + 1
    BY <1>1
  <2> QED
    BY <2>1, <2>2
<1>3. ASSUME NEW n \in 1 .. made', SL!Due(n)' PROVE n \in stored'
  <2>1. n \notin removed /\ n > aged /\ n > (made + 1) - Cap
    BY <1>1, <1>3 DEF SL!Due
  <2>2. CASE n = made + 1
    BY <1>2, <1>5, <1>6, <2>1, <2>2, NewestKeeps
  <2>3. CASE n # made + 1
    <3>1. n \in 1 .. made /\ n > made - Cap
      BY <1>1, <2>1, <2>3, SlConstants
    <3>2. SL!Due(n)
      BY <2>1, <3>1 DEF SL!Due
    <3>3. n \in K
      BY <2>1, <3>1, <3>2 DEF SlKeeps
    <3> QED
      BY <1>2, <1>5, <1>6, <2>1, <3>3, NewestKeeps
  <2> QED
    BY <2>2, <2>3
<1>4. removed' \cap stored' = {}
  <2>1. made + 1 \notin removed
    BY <1>1
  <2>2. stored' \subseteq {made + 1} \cup stored
    BY <1>6 DEF S
  <2> QED
    BY <2>1, <2>2 DEF SlKeeps
<1> QED
  BY <1>2, <1>3, <1>4 DEF SlKeeps

LEMMA SlLoadedIs ==
  /\ SL!Loaded \subseteq stored
  /\ list # "notifications" => SL!Loaded = stored
  /\ aged \in Nat /\ stored \subseteq Nat => \A n \in stored : n > aged => n \in SL!Loaded
  BY DEF SL!Loaded

(* A step that writes nothing.                                              *)
LEMMA SlSame ==
  ASSUME SlKeeps, UNCHANGED <<list, stored, made, names, removed, aged>>
  PROVE  SlKeeps'
  BY DEF SlKeeps, SL!Due

(* A page that has written its copy.                                        *)
LEMMA SlWrites ==
  ASSUME SlInv, NEW p \in Pages, NEW next, SL!Write(p, next), list # "notifications",
         next \subseteq 1 .. made', made' \in made .. MaxSaved, removed' \subseteq 1 .. made',
         writers \subseteq {p} /\ SlKeeps => SlKeeps'
  PROVE  SlInv'
<1>1. /\ copies' = [copies EXCEPT ![p] = next] /\ stored' = next /\ writers' = writers \cup {p}
      /\ UNCHANGED <<list, aged, flashes, names>>
  BY DEF SL!Write
<1>2. made \in Nat /\ aged \in 0 .. made /\ MaxSaved \in Nat
  BY SlConstants DEF SlInv, SL!TypeOK
<1>3. copies \in [Pages -> SUBSET SL!Numbers] /\ \A q \in Pages : copies[q] \subseteq 1 .. made
  BY DEF SlInv, SL!TypeOK
<1>4. next \in SUBSET SL!Numbers /\ made' \in 0 .. MaxSaved /\ aged \in 0 .. made' /\ 1 .. made \subseteq 1 .. made'
  BY <1>2 DEF SL!Numbers
<1>5. copies' \in [Pages -> SUBSET SL!Numbers] /\ \A q \in Pages : copies'[q] = IF q = p THEN next ELSE copies[q]
  BY <1>1, <1>3, <1>4
<1>6. SL!TypeOK'
  BY <1>1, <1>2, <1>4, <1>5 DEF SlInv, SL!TypeOK
<1>7. IsFiniteSet(writers')
  BY <1>1, FS_AddElement DEF SlInv
<1>8. ASSUME NEW q, writers' \subseteq {q} PROVE q = p /\ SlKeeps'
  <2>1. q = p /\ writers \subseteq {p}
    BY <1>1, <1>8
  <2> QED
    BY <2>1 DEF SlInv
<1> QED
  BY <1>1, <1>3, <1>4, <1>5, <1>6, <1>7, <1>8 DEF SlInv

(* A step on a notification, and one that concerns what is shown.           *)
LEMMA SlOtherSteps ==
  ASSUME SlInv, SL!TypeOK', UNCHANGED <<list, writers>>, made' >= made,
         stored' \subseteq 1 .. made', \A p \in Pages : copies'[p] \subseteq 1 .. made',
         SlKeeps => SlKeeps',
         list = "notifications" \/
            (stored' = stored /\ \A p \in Pages : copies'[p] \in {copies[p], stored})
  PROVE  SlInv'
<1>1. ASSUME list # "notifications", NEW p \in Pages, writers \subseteq {p} PROVE copies'[p] = stored'
  BY <1>1 DEF SlInv
<1> QED
  BY <1>1 DEF SlInv

LEMMA SlKept ==
  ASSUME SlInv, [SL!Next]_(SL!vars)
  PROVE  SlInv'
<1>1. /\ SL!TypeOK /\ made \in Nat /\ aged \in 0 .. made /\ MaxSaved \in Nat /\ made <= MaxSaved
      /\ copies \in [Pages -> SUBSET SL!Numbers] /\ flashes \in [Pages -> 0 .. 1]
      /\ \A p \in Pages : copies[p] \subseteq 1 .. made
      /\ stored \subseteq 1 .. made /\ removed \subseteq 1 .. made
      /\ stored \subseteq SL!Numbers /\ names \in [SL!Numbers -> SavedNames]
  BY SlConstants DEF SlInv, SL!TypeOK
<1>2. 1 .. made \subseteq SL!Numbers /\ aged \in Nat /\ stored \subseteq Nat
  BY <1>1 DEF SL!Numbers
<1>3. ASSUME NEW p \in Pages, SL!Mount(p) PROVE SlInv'
  <2>1. SL!Loaded \subseteq 1 .. made /\ SL!Loaded \in SUBSET SL!Numbers
    BY <1>1, <1>2, SlLoadedIs
  <2>2. /\ copies' \in [Pages -> SUBSET SL!Numbers] /\ flashes' \in [Pages -> 0 .. 1]
        /\ \A q \in Pages : copies'[q] = IF q = p THEN SL!Loaded ELSE copies[q]
    BY <1>1, <1>3, <2>1 DEF SL!Mount
  <2>3. UNCHANGED <<list, stored, made, aged, names, removed, writers>>
    BY <1>3 DEF SL!Mount
  <2>4. SL!TypeOK'
    BY <1>1, <2>2, <2>3 DEF SL!TypeOK
  <2> QED
    <3>1. SlKeeps => SlKeeps'
      BY <2>3, SlSame
    <3>2. list # "notifications" => \A q \in Pages : copies'[q] \in {copies[q], stored}
      BY <2>2, SlLoadedIs
    <3>3. stored' \subseteq 1 .. made' /\ \A q \in Pages : copies'[q] \subseteq 1 .. made'
      BY <1>1, <2>1, <2>2, <2>3
    <3>4. made' >= made
      BY <1>1, <2>3
    <3> QED
      BY <2>3, <2>4, <3>1, <3>2, <3>3, <3>4, SlOtherSteps
<1>4. ASSUME NEW p \in Pages, SL!saveBookmark(p) PROVE SlInv'
  <2> DEFINE next == SL!Newest({made + 1} \cup copies[p])
  <2>1. /\ list = "bookmarks" /\ SL!Make /\ SL!Write(p, next) /\ stored' = next
        /\ removed' = removed /\ list' = list /\ aged' = aged
    BY <1>4 DEF SL!saveBookmark, SL!Write
  <2>2. made' = made + 1 /\ made < MaxSaved
    BY <2>1 DEF SL!Make
  <2>3. next \subseteq 1 .. made' /\ made' \in made .. MaxSaved /\ removed' \subseteq 1 .. made'
    BY <1>1, <2>1, <2>2 DEF SL!Newest
  <2>4. ASSUME writers \subseteq {p}, SlKeeps PROVE SlKeeps'
    <3>1. copies[p] = stored
      BY <2>1, <2>4 DEF SlInv
    <3> QED
      BY <2>1, <2>4, <3>1, AddingKeeps
  <2> HIDE DEF next
  <2> QED
    BY <2>1, <2>3, <2>4, SlWrites
<1>5. ASSUME NEW p \in Pages, SL!saveCurrentView(p) PROVE SlInv'
  <2> DEFINE next == {n \in copies[p] : names[n] # names[made + 1]} \cup {made + 1}
  <2>1. list = "views" /\ SL!Make /\ SL!Write(p, next) /\ removed' = removed /\ stored' = next
        /\ UNCHANGED <<list, aged, names>>
    BY <1>5 DEF SL!saveCurrentView, SL!Write
  <2>2. made' = made + 1 /\ made < MaxSaved
    BY <2>1 DEF SL!Make
  <2>3. next \subseteq 1 .. made' /\ made' \in made .. MaxSaved /\ removed' \subseteq 1 .. made'
    BY <1>1, <2>1, <2>2
  <2>4. ASSUME writers \subseteq {p}, SlKeeps PROVE SlKeeps'
    <3>1. copies[p] = stored
      BY <2>1, <2>4 DEF SlInv
    <3>2. ASSUME NEW n \in 1 .. made', SL!Due(n)' PROVE n \in stored'
      <4>1. CASE n = made + 1
        BY <2>1, <4>1
      <4>2. CASE n # made + 1
        <5>1. n \in 1 .. made /\ n + 1 .. made \subseteq n + 1 .. made + 1 /\ made + 1 \in n + 1 .. made + 1
          BY <1>1, <2>2, <4>2
        <5>2. \A k \in n + 1 .. made + 1 : names[k] # names[n]
          BY <2>1, <2>2, <3>2 DEF SL!Due
        <5>3. SL!Due(n)
          BY <2>1, <3>2, <5>1, <5>2 DEF SL!Due
        <5>4. n \in stored
          BY <2>4, <5>1, <5>3 DEF SlKeeps
        <5> QED
          BY <2>1, <3>1, <5>1, <5>2, <5>4
      <4> QED
        BY <4>1, <4>2
    <3>3. removed' \cap stored' = {}
      BY <1>1, <2>1, <2>4, <3>1 DEF SlKeeps
    <3> QED
      BY <3>2, <3>3 DEF SlKeeps
  <2> HIDE DEF next
  <2> QED
    BY <2>1, <2>3, <2>4, SlWrites
<1>6. ASSUME NEW p \in Pages, NEW n \in 1 .. made, SL!Delete(p, n) PROVE SlInv'
  <2>1. /\ list # "notifications" /\ SL!Write(p, copies[p] \ {n}) /\ removed' = removed \cup {n} /\ made' = made
        /\ stored' = copies[p] \ {n} /\ UNCHANGED <<list, aged, names>>
    BY <1>6 DEF SL!Delete, SL!Write
  <2>2. copies[p] \ {n} \subseteq 1 .. made' /\ made' \in made .. MaxSaved /\ removed' \subseteq 1 .. made'
    BY <1>1, <2>1
  <2>3. ASSUME writers \subseteq {p}, SlKeeps PROVE SlKeeps'
    <3>1. copies[p] = stored
      BY <2>1, <2>3 DEF SlInv
    <3> QED
      BY <2>1, <2>3, <3>1 DEF SlKeeps, SL!Due
  <2> QED
    BY <2>1, <2>2, <2>3, SlWrites
<1>7. ASSUME NEW p \in Pages, SL!Notify(p) PROVE SlInv'
  <2>1. /\ list = "notifications" /\ SL!Make /\ stored' = SL!Newest({made + 1} \cup SL!Loaded)
        /\ copies' = [copies EXCEPT ![p] = @ \cup {made + 1}]
        /\ UNCHANGED <<list, aged, flashes, names, removed, writers>>
    BY <1>7 DEF SL!Notify
  <2>2. made' = made + 1 /\ made < MaxSaved
    BY <2>1 DEF SL!Make
  <2>3. SlKeeps' /\ stored' \subseteq 1 .. made'
    <3>1. SlKeeps
      BY <2>1 DEF SlInv
    <3>2. SL!Loaded \subseteq stored /\ \A n \in stored : n > aged => n \in SL!Loaded
      BY <1>2, SlLoadedIs
    <3> QED
      BY <2>1, <3>1, <3>2, AddingKeeps
  <2>4. made' \in 0 .. MaxSaved /\ 1 .. made \subseteq 1 .. made' /\ made + 1 \in 1 .. made' /\ aged \in 0 .. made'
        /\ 1 .. made' \subseteq SL!Numbers
    BY <1>1, <2>2 DEF SL!Numbers
  <2>5. /\ copies' \in [Pages -> SUBSET SL!Numbers]
        /\ \A q \in Pages : copies'[q] \subseteq 1 .. made'
    BY <1>1, <2>1, <2>4
  <2>6. SL!TypeOK'
    BY <1>1, <2>1, <2>3, <2>4, <2>5 DEF SL!TypeOK
  <2>7. made' >= made
    BY <1>1, <2>2
  <2> QED
    BY <2>1, <2>3, <2>5, <2>6, <2>7, SlOtherSteps
<1>8. ASSUME NEW p \in Pages, NEW n \in 1 .. made, SL!dismiss(p, n) PROVE SlInv'
  <2>1. /\ list = "notifications" /\ stored' = SL!Loaded \ {n} /\ copies' = [copies EXCEPT ![p] = @ \ {n}]
        /\ removed' = removed \cup {n} /\ UNCHANGED <<list, made, aged, flashes, names, writers>>
    BY <1>8 DEF SL!dismiss
  <2>2. copies' \in [Pages -> SUBSET SL!Numbers] /\ \A q \in Pages : copies'[q] \subseteq 1 .. made
    BY <1>1, <2>1
  <2>3. stored' \subseteq 1 .. made /\ stored' \subseteq SL!Numbers
    BY <1>1, <2>1, SlLoadedIs
  <2>4. SL!TypeOK'
    BY <1>1, <2>1, <2>2, <2>3 DEF SL!TypeOK
  <2>5. SlKeeps => SlKeeps'
    BY <1>2, <2>1, SlLoadedIs DEF SlKeeps, SL!Due
  <2>6. made' >= made
    BY <1>1, <2>1
  <2> QED
    BY <2>1, <2>2, <2>3, <2>4, <2>5, <2>6, SlOtherSteps
<1>9. ASSUME NEW p \in Pages, SL!dismissAll(p) PROVE SlInv'
  <2>1. /\ list = "notifications" /\ stored' = {} /\ copies' = [copies EXCEPT ![p] = {}]
        /\ flashes' = [flashes EXCEPT ![p] = 0] /\ removed' = (removed \cup stored) \cup copies[p]
        /\ UNCHANGED <<list, made, aged, names, writers>>
    BY <1>9 DEF SL!dismissAll
  <2>2. /\ copies' \in [Pages -> SUBSET SL!Numbers] /\ flashes' \in [Pages -> 0 .. 1]
        /\ \A q \in Pages : copies'[q] \subseteq 1 .. made
    BY <1>1, <2>1
  <2>3. removed' \subseteq 1 .. made
    BY <1>1, <2>1
  <2>4. SL!TypeOK'
    BY <1>1, <2>1, <2>2, <2>3 DEF SL!TypeOK
  <2>5. SlKeeps => SlKeeps'
    BY <2>1 DEF SlKeeps, SL!Due
  <2>6. made' >= made
    BY <1>1, <2>1
  <2> QED
    BY <2>1, <2>2, <2>4, <2>5, <2>6, SlOtherSteps
<1>10. ASSUME NEW p \in Pages, SL!flashToast(p) PROVE SlInv'
  <2>1. /\ flashes' = [flashes EXCEPT ![p] = 1]
        /\ UNCHANGED <<list, stored, copies, made, aged, names, removed, writers>>
    BY <1>10 DEF SL!flashToast
  <2>2. SL!TypeOK'
    BY <1>1, <2>1 DEF SL!TypeOK
  <2> QED
    BY <1>1, <2>1, <2>2, SlSame, SlOtherSteps
<1>11. ASSUME NEW p \in Pages, SL!FlashEnds(p) PROVE SlInv'
  <2>1. /\ flashes' = [flashes EXCEPT ![p] = 0] /\ stored' \in {stored, SL!Loaded}
        /\ UNCHANGED <<list, copies, made, aged, names, removed, writers>>
    BY <1>11 DEF SL!FlashEnds
  <2>2. stored' \subseteq stored /\ (list # "notifications" => stored' = stored)
        /\ \A n \in stored : n > aged => n \in stored'
    BY <1>2, <2>1, SlLoadedIs
  <2>3. SL!TypeOK'
    BY <1>1, <2>1, <2>2 DEF SL!TypeOK
  <2>4. SlKeeps => SlKeeps'
    BY <2>1, <2>2 DEF SlKeeps, SL!Due
  <2>5. made' >= made
    BY <1>1, <2>1
  <2> QED
    BY <1>1, <2>1, <2>2, <2>3, <2>4, <2>5, SlOtherSteps
<1>12. ASSUME SL!SevenDaysPass PROVE SlInv'
  <2>1. /\ list = "notifications" /\ aged' \in aged + 1 .. made
        /\ UNCHANGED <<list, stored, copies, made, flashes, names, removed, writers>>
    BY <1>12 DEF SL!SevenDaysPass
  <2>2. aged' \in 0 .. made /\ aged' > aged
    BY <1>1, <2>1
  <2>3. SL!TypeOK'
    BY <1>1, <2>1, <2>2 DEF SL!TypeOK
  <2>4. \A n \in 1 .. made : SL!Due(n)' => SL!Due(n)
    BY <1>1, <2>1, <2>2 DEF SL!Due
  <2>5. SlKeeps => SlKeeps'
    BY <2>1, <2>4 DEF SlKeeps
  <2>6. made' >= made
    BY <1>1, <2>1
  <2> QED
    BY <1>1, <2>1, <2>3, <2>5, <2>6, SlOtherSteps
<1>13. ASSUME UNCHANGED SL!vars PROVE SlInv'
  BY <1>13 DEF SL!vars, SlInv, SlKeeps, SL!Due, SL!TypeOK
<1> QED
  BY <1>3, <1>4, <1>5, <1>6, <1>7, <1>8, <1>9, <1>10, <1>11, <1>12, <1>13 DEF SL!Next
=============================================================================
