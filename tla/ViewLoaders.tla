----------------------------- MODULE ViewLoaders -----------------------------
(***************************************************************************)
(* How a view of the dashboard gets its data (web/frontend/src).  A React   *)
(* component keeps the answer of a request in its state, next to a loading  *)
(* flag and an error, and asks again in an effect whenever one of the       *)
(* effect's dependencies changes.  Answers come in any order: what differs  *)
(* between components is what they do about an answer to a question that    *)
(* is no longer asked.  A component's loader is a record (module            *)
(* LoaderCatalog has one for each); this module is their common behaviour.  *)
(***************************************************************************)
EXTENDS Naturals

CONSTANTS
    Loaders,     \* the loaders under study, see LoaderType
    Values,      \* values of an input
    MaxVersion,  \* bound: states of the server's data
    MaxRequests  \* bound: requests of one loader

(* What the user selects, the refresh ticks aside.                          *)
Inputs == {"instance", "range", "filter"}

LoaderType ==
    [ deps    : SUBSET (Inputs \cup {"refresh"}), \* what runs the effect again
      uses    : SUBSET Inputs,     \* what the request says
      blanks  : SUBSET (Inputs \cup {"refresh"}), \* of deps: what drops the data first
      start   : {"effect", "button", "latch"}, \* what asks: an effect, a button, a
                                   \* button that is disabled while it is loading
      cleanup : BOOLEAN,           \* a new run cancels the requests before it
      poll    : {"none", "silent", "loud"}, \* asks again by an interval, setting loading or not
      failure : {"empty", "keep"}, \* what a failed request does to the data
      clears  : BOOLEAN,           \* a new run clears the error
      spinner : BOOLEAN,           \* loading is visible, also while there is data
      banner  : BOOLEAN ]          \* the error is visible, also while there is data

ASSUME LoadersAssumption == Loaders \subseteq LoaderType
ASSUME BoundsAssumption == MaxVersion \in Nat \ {0} /\ MaxRequests \in Nat

VARIABLES
    loader,    \* the loader of this behaviour
    selection, \* what the user has selected
    version,   \* of the server's data
    requests,  \* unanswered requests
    asked,     \* requests so far
    shown,     \* the answer in the component's state
    loading,   \* its loading flag
    failed,    \* its error
    applied,   \* history: which request's outcome was applied last
    overtaken  \* history: an outcome was applied after that of a later request

history == <<applied, overtaken>>
component == <<shown, loading, failed>>
vars == <<loader, selection, version, requests, asked, component, history>>

Selections == [Inputs -> Values]

(* The data of an answer: what was asked for, and how new it is.            *)
Answer == [for : Selections, version : 1 .. MaxVersion, nr : 1 .. MaxRequests]
Nothing == [nr |-> 0]

Request == [answer : Answer, cancelled : BOOLEAN]

TypeOK ==
    /\ loader \in Loaders
    /\ selection \in Selections
    /\ version \in 1 .. MaxVersion
    /\ requests \subseteq Request
    /\ asked \in 0 .. MaxRequests
    /\ shown \in Answer \cup {Nothing}
    /\ loading \in BOOLEAN /\ failed \in BOOLEAN
    /\ applied \in 0 .. MaxRequests /\ overtaken \in BOOLEAN

Live == {r \in requests : ~r.cancelled}

Init ==
    /\ loader \in Loaders
    /\ selection \in Selections
    /\ version = 1
    /\ requests = {}
    /\ asked = 0
    /\ shown = Nothing
    /\ loading = FALSE /\ failed = FALSE
    /\ applied = 0 /\ overtaken = FALSE

-----------------------------------------------------------------------------
AskOfLastRender(sel) ==                                             \* mutant
    [answer |-> [for |-> selection, version |-> version, nr |-> asked + 1], cancelled |-> FALSE]

(* The request is for what is selected now; the server answers from the     *)
(* data it has now, and the answer takes its time.                          *)
Ask(sel) ==
    [answer |-> [for |-> sel, version |-> version, nr |-> asked + 1], cancelled |-> FALSE]

CancelledNever(open) == open                                        \* mutant

(* The cleanup of the effect's last run, if it has one.                     *)
Cancelled(open) ==
    IF loader.cleanup THEN {[r EXCEPT !.cancelled = TRUE] : r \in open} ELSE open

RunKeepingError(i, sel) ==                                          \* mutant
    /\ asked < MaxRequests
    /\ requests' = Cancelled(requests) \cup {Ask(sel)}
    /\ asked' = asked + 1
    /\ shown' = IF i \in loader.blanks THEN Nothing ELSE shown
    /\ loading' = TRUE
    /\ failed' = failed
    /\ UNCHANGED history

(* The effect, or the button's handler, because of a change of input i:     *)
(* the cleanup, setLoading(true), setError(null), the request.              *)
Run(i, sel) ==
    /\ asked < MaxRequests
    /\ requests' = Cancelled(requests) \cup {Ask(sel)}
    /\ asked' = asked + 1
    /\ shown' = IF i \in loader.blanks THEN Nothing ELSE shown
    /\ loading' = TRUE
    /\ failed' = (failed /\ ~loader.clears)
    /\ UNCHANGED history

Running == loader.start # "effect" \/ asked > 0

Mount ==
    /\ ~Running
    /\ Run("mount", selection)
    /\ UNCHANGED <<loader, selection, version>>

(* The user selects another instance, time range, filter or item.           *)
Select(i, v) ==
    /\ Running
    /\ i \in loader.uses \cup loader.deps /\ v # selection[i]
    /\ selection' = [selection EXCEPT ![i] = v]
    /\ IF i \in loader.deps
       THEN Run(i, selection')
       ELSE UNCHANGED <<requests, asked, component, history>>
    /\ UNCHANGED <<loader, version>>

(* The page's refresh tick or a refresh button; or the button that starts   *)
(* the loader, which is disabled while it is loading.                       *)
Refresh ==
    /\ Running /\ "refresh" \in loader.deps
    /\ loader.start = "latch" => ~loading
    /\ Run("refresh", selection)
    /\ UNCHANGED <<loader, selection, version>>

(* An interval asks again without a new run: nothing is cancelled.          *)
Poll ==
    /\ loader.poll # "none" /\ asked \in 1 .. MaxRequests - 1
    /\ requests' = requests \cup {Ask(selection)}
    /\ asked' = asked + 1
    /\ loading' = (loading \/ loader.poll = "loud")
    /\ UNCHANGED <<loader, selection, version, shown, failed, history>>

Apply(r) ==
    /\ loading' = FALSE
    /\ applied' = r.answer.nr
    /\ overtaken' = (overtaken \/ r.answer.nr < applied)

SucceedAlsoCancelled(r) ==                                          \* mutant
    /\ requests' = requests \ {r}
    /\ Apply(r)
    /\ shown' = r.answer
    /\ failed' = (failed /\ loader.poll = "none")
    /\ UNCHANGED <<loader, selection, version, asked>>

(* .then and .finally of a request.  Only an interval clears the error of   *)
(* the request before it.                                                   *)
Succeed(r) ==
    /\ requests' = requests \ {r}
    /\ IF r.cancelled
       THEN UNCHANGED <<component, history>>
       ELSE /\ Apply(r)
            /\ shown' = r.answer
            /\ failed' = (failed /\ loader.poll = "none")
    /\ UNCHANGED <<loader, selection, version, asked>>

(* .catch and .finally; api.ts gives up on a request after 30 seconds, so   *)
(* each of them ends in one of the two ways.                                *)
Fail(r) ==
    /\ requests' = requests \ {r}
    /\ IF r.cancelled
       THEN UNCHANGED <<component, history>>
       ELSE /\ Apply(r)
            /\ shown' = IF loader.failure = "empty" THEN Nothing ELSE shown
            /\ failed' = TRUE
    /\ UNCHANGED <<loader, selection, version, asked>>

DataChanges ==
    /\ version < MaxVersion
    /\ version' = version + 1
    /\ UNCHANGED <<loader, selection, requests, asked, component, history>>

Next ==
    \/ Mount
    \/ \E i \in Inputs, v \in Values : Select(i, v)
    \/ Refresh
    \/ Poll
    \/ \E r \in requests : Succeed(r) \/ Fail(r)
    \/ DataChanges

Spec == Init /\ [][Next]_vars

-----------------------------------------------------------------------------
(* Properties                                                               *)

IsFor(answer, sel) == \A i \in loader.uses : answer.for[i] = sel[i]

(* Every input of the request runs the effect again.                        *)
Follows == loader.uses \subseteq loader.deps

(* It cancels what it no longer asks for, and does not hide that it is      *)
(* loading or has failed.                                                   *)
Candid ==
    /\ Follows /\ loader.cleanup
    /\ loader.spinner \/ loader.uses \subseteq loader.blanks
    /\ loader.banner \/ loader.failure = "empty"

(* A view whose effect cleans up after itself never shows the data of       *)
(* another instance, range or filter than the selected one, unless it shows *)
(* that it is loading or has failed: an answer that comes late, out of      *)
(* order or after a failure changes nothing (the `cancelled` flags of the   *)
(* tabs of Explore.tsx and others).                                         *)
NothingStaleUnmarked ==
    Candid /\ shown # Nothing =>
        \/ IsFor(shown, selection)
        \/ loading /\ loader.spinner
        \/ failed /\ loader.banner

(* Any view, also one without a cleanup, comes to rest on what is selected, *)
(* or on an error, when its answers come in the order of their requests.    *)
SettlesOnSelection ==
    Follows /\ Live = {} /\ ~overtaken /\ shown # Nothing =>
        IsFor(shown, selection) \/ (failed /\ applied > shown.nr)

(* No spinner turns for ever: a view that says it is loading has a request  *)
(* that will end and that it has not cancelled.                             *)
SpinnerEnds == loading => Live # {}

(* An error does not outlive the failure it is about: where it is cleared   *)
(* at all, it is the last outcome that was a failure.  Without a cleanup    *)
(* this fails: a request's error may come after the next one was asked,     *)
(* whose success does not clear it.                                         *)
ErrorsAreCurrent ==
    /\ failed /\ Live = {} /\ ~overtaken
    /\ (loader.clears /\ loader.cleanup) \/ loader.poll # "none"
    => shown.nr < applied

(* A view that cleans up never falls back from newer data to older data.    *)
DataAdvances ==
    [][ loader.cleanup /\ loader.poll = "none" /\ shown # Nothing /\ shown' # Nothing
        => shown'.version >= shown.version ]_vars
=============================================================================
