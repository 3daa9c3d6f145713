-------------------------- MODULE Reauthentication --------------------------
(***************************************************************************)
(* What the dashboard does when the Claude session has expired (TopBar.tsx  *)
(* and App.tsx): it tries to refresh the token, and when that fails opens   *)
(* the modal, where the user pastes a token or completes a login that the   *)
(* server runs and streams the events of.  Closing the modal aborts the     *)
(* stream; it stops neither a paste that is under way nor the timer that    *)
(* reports a success.                                                       *)
(***************************************************************************)
EXTENDS Naturals, FiniteSets

CONSTANTS
    MaxChecks, \* bound: times the session is found expired
    MaxOpened, \* bound: times the modal is opened
    MaxPastes  \* bound: pastes under way or waiting to be reported

ConstantsOK == {MaxChecks, MaxOpened, MaxPastes} \subseteq Nat

VARIABLES
    authExpired, refreshing, showReAuth,
    refreshes,   \* refresh requests that were not answered
    checks, opened,
    pasteState,
    pastes,      \* pastes that were not answered: whose modal sent them
    state,       \* of the login
    loginUrl,    \* was received
    errorLine,   \* an error line was received before the URL
    login,       \* the server's run of the login, as the stream tells it
    timers,      \* timers that will report a success
    dismissed    \* history: the user closed the modal of this expiry

modal == <<pasteState, state, loginUrl, errorLine, login>>
session == <<authExpired, refreshing, refreshes, checks>>
vars == <<session, showReAuth, opened, modal, pastes, timers, dismissed>>

TypeOK ==
    /\ {authExpired, refreshing, showReAuth, loginUrl, errorLine, dismissed} \subseteq BOOLEAN
    /\ refreshes \in 0 .. MaxChecks /\ checks \in 0 .. MaxChecks /\ opened \in 0 .. MaxOpened
    /\ pasteState \in {"idle", "submitting", "ok", "error"}
    /\ pastes \subseteq 1 .. MaxOpened
    /\ state \in {"idle", "running", "done", "error"}
    /\ login \in {"none", "running", "succeeded", "failed", "ended"}
    /\ timers \in 0 .. MaxPastes + MaxOpened

Init ==
    /\ authExpired = FALSE /\ refreshing = FALSE /\ showReAuth = FALSE
    /\ refreshes = 0 /\ checks = 0 /\ opened = 0
    /\ pasteState = "idle" /\ pastes = {}
    /\ state = "idle" /\ loginUrl = FALSE /\ errorLine = FALSE /\ login = "none"
    /\ timers = 0 /\ dismissed = FALSE

-----------------------------------------------------------------------------
(* The modal's mount starts a login; its unmount aborts the stream.         *)
OpenModal ==
    /\ showReAuth' = TRUE
    /\ IF showReAuth
       THEN UNCHANGED <<opened, modal>>
       ELSE /\ opened < MaxOpened /\ opened' = opened + 1
            /\ pasteState' = "idle" /\ loginUrl' = FALSE /\ errorLine' = FALSE
            /\ state' = "running" /\ login' = "running"

CloseModal ==
    /\ showReAuth' = FALSE
    /\ pasteState' = "idle" /\ loginUrl' = FALSE /\ errorLine' = FALSE
    /\ state' = "idle" /\ login' = "none"

(* The 401 event of api.ts, the check at the mount, or the one every five   *)
(* minutes; the effect runs when authExpired changes.                       *)
Expire ==
    /\ checks < MaxChecks /\ checks' = checks + 1
    /\ authExpired' = TRUE
    /\ IF authExpired
       THEN UNCHANGED <<refreshing, refreshes>>
       ELSE refreshing' = TRUE /\ refreshes' = refreshes + 1
    /\ UNCHANGED <<showReAuth, opened, modal, pastes, timers, dismissed>>

Refreshed ==
    /\ refreshes > 0 /\ refreshes' = refreshes - 1
    /\ refreshing' = FALSE
    /\ authExpired' = FALSE /\ dismissed' = FALSE
    /\ UNCHANGED <<checks, showReAuth, opened, modal, pastes, timers>>

(* Refused, or not answered.                                                *)
NotRefreshed ==
    /\ refreshes > 0 /\ refreshes' = refreshes - 1
    /\ refreshing' = FALSE
    /\ OpenModal
    /\ UNCHANGED <<authExpired, checks, pastes, timers, dismissed>>

(* The lock button of the top bar.                                          *)
Ask ==
    /\ ~refreshing /\ ~showReAuth
    /\ OpenModal
    /\ UNCHANGED <<session, pastes, timers, dismissed>>

(* Escape, the cross, or a click beside the modal.                          *)
Dismiss ==
    /\ showReAuth
    /\ CloseModal
    /\ dismissed' = authExpired
    /\ UNCHANGED <<session, opened, pastes, timers>>

-----------------------------------------------------------------------------
SubmitPaste ==
    /\ showReAuth /\ pasteState # "submitting"
    /\ Cardinality(pastes) + timers < MaxPastes
    /\ pasteState' = "submitting" /\ pastes' = pastes \cup {opened}
    /\ UNCHANGED <<session, showReAuth, opened, state, loginUrl, errorLine, login, timers, dismissed>>

(* What is set on a modal that is closed is lost; its timer is not.         *)
Pasted(m, outcome) ==
    /\ pastes' = pastes \ {m}
    /\ pasteState' = IF showReAuth /\ m = opened THEN outcome ELSE pasteState
    /\ timers' = IF outcome = "ok" THEN timers + 1 ELSE timers
    /\ UNCHANGED <<session, showReAuth, opened, state, loginUrl, errorLine, login, dismissed>>

(* onSuccess                                                                *)
TimerFires ==
    /\ timers > 0 /\ timers' = timers - 1
    /\ CloseModal
    /\ authExpired' = FALSE /\ dismissed' = FALSE
    /\ UNCHANGED <<refreshing, refreshes, checks, opened, pastes>>

-----------------------------------------------------------------------------
(* The events of the login's stream.                                        *)
UrlArrives ==
    /\ login = "running" /\ ~loginUrl
    /\ loginUrl' = TRUE
    /\ UNCHANGED <<session, showReAuth, opened, pasteState, state, errorLine, login, pastes, timers, dismissed>>

(* The server sends done when the command has succeeded, and error when it  *)
(* has failed or did not start.                                             *)
LoginSucceeds ==
    /\ login = "running" /\ login' = "succeeded"
    /\ state' = "done" /\ timers' = timers + 1
    /\ UNCHANGED <<session, showReAuth, opened, pasteState, loginUrl, errorLine, pastes, dismissed>>

LoginFails ==
    /\ login = "running" /\ login' = "failed"
    /\ errorLine' = ~loginUrl
    /\ UNCHANGED <<session, showReAuth, opened, pasteState, state, loginUrl, pastes, timers, dismissed>>

(* The stream ends after its last event.                                    *)
StreamEnds ==
    /\ login \in {"succeeded", "failed"} /\ login' = "ended"
    /\ state' = IF loginUrl THEN state ELSE "done"
    /\ UNCHANGED <<session, showReAuth, opened, pasteState, loginUrl, errorLine, pastes, timers, dismissed>>

(* The request is refused, or the connection is lost.                       *)
StreamBreaks ==
    /\ login = "running" /\ login' = "ended"
    /\ state' = IF loginUrl THEN state ELSE "error"
    /\ errorLine' = ~loginUrl
    /\ UNCHANGED <<session, showReAuth, opened, pasteState, loginUrl, pastes, timers, dismissed>>

Next ==
    \/ Expire \/ Refreshed \/ NotRefreshed
    \/ Ask \/ Dismiss
    \/ SubmitPaste \/ \E m \in pastes, outcome \in {"ok", "error"} : Pasted(m, outcome)
    \/ TimerFires
    \/ UrlArrives \/ LoginSucceeds \/ LoginFails \/ StreamEnds \/ StreamBreaks

Spec == Init /\ [][Next]_vars

-----------------------------------------------------------------------------
(* An expired session is not passed over: a refresh is under way, or the    *)
(* modal is open, or the user has closed it; whatever becomes of refreshes, *)
(* pastes and timers of earlier modals.                                     *)
ExpiryIsHandled == authExpired => refreshes > 0 \/ showReAuth \/ dismissed

(* The lock button is disabled only while a refresh is under way.           *)
LockButtonReturns == refreshing => refreshes > 0
=============================================================================
