------------------------------ MODULE SavedLists ------------------------------
(***************************************************************************)
(* Lists that the dashboard keeps in the browser's localStorage, which all  *)
(* open pages share: the bookmarks of the terminal (views/Terminal.tsx),    *)
(* the saved filters of the alerts (views/Alerts.tsx) and the               *)
(* notifications (lib/notify.ts, components/NotificationToasts.tsx).  The   *)
(* first two write the copy that the view read when it was mounted; a       *)
(* notification is read, changed and written back in one go.  Every list is *)
(* in the order its entries were made in, so a set of their numbers says    *)
(* what it is.                                                              *)
(***************************************************************************)
EXTENDS Naturals, FiniteSets

CONSTANTS
    Pages, Names,
    Cap,       \* how many bookmarks or notifications are kept
    MaxEntries \* bound: entries ever made

ConstantsOK == Cap \in Nat \ {0} /\ MaxEntries \in Nat

VARIABLES
    list,    \* which of the lists this is
    stored,  \* localStorage
    copies,  \* the state of each page
    made,    \* entries made so far, numbered in their order
    aged,    \* notifications up to this one are older than seven days
    flashes, \* per page, toasts that are not stored
    names,   \* history: the name each entry was made with
    removed, \* history: entries that a user has removed
    writers  \* history: pages that have written their copy

vars == <<list, stored, copies, made, aged, flashes, names, removed, writers>>

Lists == {"bookmarks", "views", "notifications"}
Numbers == 1 .. MaxEntries

TypeOK ==
    /\ list \in Lists
    /\ stored \subseteq Numbers /\ copies \in [Pages -> SUBSET Numbers]
    /\ made \in 0 .. MaxEntries /\ aged \in 0 .. made
    /\ flashes \in [Pages -> 0 .. 1]
    /\ names \in [Numbers -> Names]
    /\ removed \subseteq 1 .. made /\ writers \subseteq Pages

(* slice(0, Cap)                                                            *)
Newest(S) == {n \in S : Cardinality({m \in S : m > n}) < Cap}

(* loadStoredNotifs drops what is old; the others read what there is.       *)
Loaded == IF list = "notifications" THEN stored \ 1 .. aged ELSE stored

Init ==
    /\ list \in Lists
    /\ stored = {} /\ copies = [p \in Pages |-> {}]
    /\ made = 0 /\ aged = 0 /\ flashes = [p \in Pages |-> 0]
    /\ names \in [Numbers -> Names]
    /\ removed = {} /\ writers = {}

(* The view is opened, or the page reloaded.                                *)
Mount(p) ==
    /\ copies' = [copies EXCEPT ![p] = Loaded]
    /\ flashes' = [flashes EXCEPT ![p] = 0]
    /\ UNCHANGED <<list, stored, made, aged, names, removed, writers>>

Write(p, next) ==
    /\ copies' = [copies EXCEPT ![p] = next]
    /\ stored' = next
    /\ writers' = writers \cup {p}
    /\ UNCHANGED <<list, aged, flashes, names>>

Make == made < MaxEntries /\ made' = made + 1

saveBookmark(p) ==
    /\ list = "bookmarks"
    /\ Make /\ Write(p, Newest({made + 1} \cup copies[p]))
    /\ UNCHANGED removed

(* saveCurrentView: a view of the same name gives way.                      *)
saveCurrentView(p) ==
    /\ list = "views"
    /\ Make
    /\ Write(p, {n \in copies[p] : names[n] # names[made + 1]} \cup {made + 1})
    /\ UNCHANGED removed

(* deleteBookmark, deleteSavedView                                          *)
Delete(p, n) ==
    /\ list \in {"bookmarks", "views"} /\ n \in copies[p]
    /\ Write(p, copies[p] \ {n})
    /\ removed' = removed \cup {n}
    /\ UNCHANGED made

NotifyOverCopy(p) ==                                                \* mutant
    /\ list = "notifications"
    /\ Make
    /\ stored' = Newest({made + 1} \cup copies[p])
    /\ copies' = [copies EXCEPT ![p] = @ \cup {made + 1}]
    /\ UNCHANGED <<list, aged, flashes, names, removed, writers>>

(* notifyDone and notifyError: storeNotif, then the toast on this page.     *)
Notify(p) ==
    /\ list = "notifications"
    /\ Make
    /\ stored' = Newest({made + 1} \cup Loaded)
    /\ copies' = [copies EXCEPT ![p] = @ \cup {made + 1}]
    /\ UNCHANGED <<list, aged, flashes, names, removed, writers>>

dismiss(p, n) ==
    /\ list = "notifications" /\ n \in copies[p]
    /\ stored' = Loaded \ {n}
    /\ copies' = [copies EXCEPT ![p] = @ \ {n}]
    /\ removed' = removed \cup {n}
    /\ UNCHANGED <<list, made, aged, flashes, names, writers>>

(* dismissAll, offered over two toasts or more, empties the storage: also   *)
(* of what other pages have stored and this one does not show.              *)
dismissAll(p) ==
    /\ list = "notifications" /\ Cardinality(copies[p]) + flashes[p] > 1
    /\ stored' = {}
    /\ copies' = [copies EXCEPT ![p] = {}] /\ flashes' = [flashes EXCEPT ![p] = 0]
    /\ removed' = removed \cup stored \cup copies[p]
    /\ UNCHANGED <<list, made, aged, names, writers>>

(* flashToast comes and, three seconds later or when it is dismissed, goes; *)
(* dismissing it stores the others again.                                   *)
flashToast(p) ==
    /\ list = "notifications" /\ flashes[p] = 0
    /\ flashes' = [flashes EXCEPT ![p] = 1]
    /\ UNCHANGED <<list, stored, copies, made, aged, names, removed, writers>>

FlashEnds(p) ==
    /\ flashes[p] = 1
    /\ flashes' = [flashes EXCEPT ![p] = 0]
    /\ stored' \in {stored, Loaded}
    /\ UNCHANGED <<list, copies, made, aged, names, removed, writers>>

SevenDaysPass ==
    /\ list = "notifications" /\ aged' \in aged + 1 .. made
    /\ UNCHANGED <<list, stored, copies, made, flashes, names, removed, writers>>

Next ==
    \/ \E p \in Pages :
          \/ Mount(p)
          \/ saveBookmark(p) \/ saveCurrentView(p) \/ \E n \in 1 .. made : Delete(p, n)
          \/ Notify(p) \/ dismissAll(p) \/ \E n \in 1 .. made : dismiss(p, n)
          \/ flashToast(p) \/ FlashEnds(p)
    \/ SevenDaysPass

Spec == Init /\ [][Next]_vars

-----------------------------------------------------------------------------
(* An entry that should still be there: nobody has removed it, it is not    *)
(* too old, and neither the cap nor its name has given way to a later one.  *)
Due(n) ==
    /\ n \notin removed /\ n > aged
    /\ list # "views" => n > made - Cap
    /\ list = "views" => \A k \in n + 1 .. made : names[k] # names[n]

(* A notification stays stored, whatever the other pages do, and an entry   *)
(* of the other lists does if one page alone writes them; and what was      *)
(* removed stays removed.                                                   *)
EntriesLast ==
    list = "notifications" \/ Cardinality(writers) <= 1 =>
        /\ \A n \in 1 .. made : Due(n) => n \in stored
        /\ removed \cap stored = {}
=============================================================================
