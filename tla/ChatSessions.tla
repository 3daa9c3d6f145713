---------------------------- MODULE ChatSessions ----------------------------
(***************************************************************************)
(* The conversations with the analysis back ends: the chat view             *)
(* (views/ChatAnalyzer.tsx), the panel at the bottom of every other view    *)
(* (hooks/useAIAnalysis.ts), and the sessions they share in the store       *)
(* (hooks/useStore.tsx), kept in localStorage for the browser's other pages *)
(* of the dashboard and for the next load.  Each question gets an           *)
(* assistant message, which the answer's event stream fills in.             *)
(***************************************************************************)
EXTENDS Naturals, Sequences, FiniteSets

CONSTANTS
    Pages,        \* pages of the dashboard open in the browser
    Askers,       \* bound: those on which questions are asked
    MaxQuestions, \* bound: questions asked
    MaxSessions,  \* sessions that are kept (100 in the code)
    MaxEvents     \* bound: storage events on their way to a page

ConstantsOK ==
    /\ Pages # {} /\ Askers \subseteq Pages
    /\ MaxQuestions \in Nat /\ MaxSessions \in Nat \ {0} /\ MaxEvents \in Nat

(* A message is its question's number; a session is its first message.      *)
Messages == 1 .. MaxQuestions
None == 0

Statuses == {"absent", "streaming", "done", "error"}

VARIABLES
    sessions,  \* a page's copy of chatSessions
    storage,   \* localStorage['ch-chat-sessions']
    events,    \* a page's storage events that have not been delivered
    active,    \* activeChatId
    running,   \* isRunning of the chat view
    current,   \* its abortRef and activeAssistantIdRef
    stream,    \* the request for a message
    abandoned, \* history: messages whose request a new question aborted
    synced     \* history: a page took over another page's sessions

pageVars == <<sessions, storage, events>>
history == <<abandoned, synced>>
vars == <<pageVars, active, running, current, stream, history>>

(* The sessions, the status of each message and its session.  New sessions  *)
(* go to the front and messages are numbered as they are asked, so that the *)
(* list, newest first, is the set of its numbers.                           *)
Copy ==
    [ ids    : SUBSET Messages,
      status : [Messages -> Statuses],
      home   : [Messages -> Messages \cup {None}] ]

Stream ==
    [ page   : Pages,
      kind   : {"none", "chat", "panel"},
      phase  : {"open", "rejected", "ended"}, \* rejected: not ok, its text is being read
      failed : BOOLEAN,                       \* an error event, or an error
      told   : SUBSET {"done", "error"} ]     \* the notifications for it

TypeOK ==
    /\ sessions \in [Pages -> Copy] /\ storage \in Copy
    /\ events \in [Pages -> Seq(Copy)] /\ \A p \in Pages : Len(events[p]) <= MaxEvents
    /\ active \in [Pages -> Messages \cup {None}]
    /\ running \in [Pages -> BOOLEAN]
    /\ current \in [Pages -> Messages \cup {None}]
    /\ stream \in [Messages -> Stream]
    /\ abandoned \subseteq Messages /\ synced \in BOOLEAN

NoSessions ==
    [ids |-> {}, status |-> [m \in Messages |-> "absent"], home |-> [m \in Messages |-> None]]

Init ==
    /\ sessions = [p \in Pages |-> NoSessions] /\ storage = NoSessions
    /\ events = [p \in Pages |-> <<>>]
    /\ active = [p \in Pages |-> None]
    /\ running = [p \in Pages |-> FALSE]
    /\ current = [p \in Pages |-> None]
    /\ stream \in [Messages -> {[page |-> CHOOSE p \in Pages : TRUE, kind |-> "none",
                                 phase |-> "ended", failed |-> FALSE, told |-> {}]}]
    /\ abandoned = {} /\ synced = FALSE

Asked == {m \in Messages : stream[m].kind # "none"}
Has(c, s) == s \in c.ids

(* The copy without session s.                                              *)
Without(c, s) ==
    [ ids    |-> c.ids \ {s},
      status |-> [m \in Messages |-> IF c.home[m] = s THEN "absent" ELSE c.status[m]],
      home   |-> [m \in Messages |-> IF c.home[m] = s THEN None ELSE c.home[m]] ]

(* next.slice(0, 100); one session is added at a time.                      *)
Trimmed(c) ==
    IF Cardinality(c.ids) > MaxSessions
    THEN Without(c, CHOOSE s \in c.ids : \A t \in c.ids : s <= t) ELSE c

(* setChatSessions: this page's copy and the storage; the other pages get   *)
(* an event.                                                                *)
SetChatSessions(p, c) ==
    LET next == Trimmed(c) IN
    /\ sessions' = [sessions EXCEPT ![p] = next]
    /\ storage' = next
    /\ events' = [q \in Pages |->
                     IF q = p \/ next = storage THEN events[q] ELSE Append(events[q], next)]
    /\ \A q \in Pages : Len(events'[q]) <= MaxEvents

(* updateAssistantMsg, updateMessage: nothing if the message is gone.       *)
Marked(c, m, status) ==
    IF c.status[m] = "absent" THEN c ELSE [c EXCEPT !.status[m] = status]
Mark(p, m, status) == SetChatSessions(p, Marked(sessions[p], m, status))

(* A question of page p in its active session, or in a new one.             *)
Question(p, m, fresh) ==
    LET c == sessions[p]
        s == IF fresh \/ ~Has(c, active[p]) THEN m ELSE active[p]
    IN /\ SetChatSessions(p, [ids    |-> c.ids \cup {s},
                              status |-> [c.status EXCEPT ![m] = "streaming"],
                              home   |-> [c.home EXCEPT ![m] = s]])
       /\ active' = [active EXCEPT ![p] = s]

Request(p, kind, phase) ==
    [page |-> p, kind |-> kind, phase |-> phase, failed |-> FALSE, told |-> {}]

(* abortRef.current.abort(): the pending read rejects, silently; a response *)
(* whose error text is being read goes on.                                  *)
Aborted(p) ==
    [m \in Messages |->
        IF m = current[p] /\ stream[m].phase = "open" THEN [stream[m] EXCEPT !.phase = "ended"] ELSE stream[m]]

-----------------------------------------------------------------------------
(* The chat view                                                            *)

(* handleSend.  The input field is blocked while an answer runs; the        *)
(* welcome page, the starter questions and Retry are not.                   *)
Send(p, blocked) ==
    LET m == Cardinality(Asked) + 1 IN
    /\ m \in Messages /\ p \in Askers
    /\ blocked => ~running[p]
    /\ Question(p, m, FALSE)
    /\ stream' = [Aborted(p) EXCEPT ![m] = Request(p, "chat", "open")]
    /\ abandoned' = abandoned \cup {n \in Messages : n = current[p] /\ stream[n].phase = "open"}
    /\ running' = [running EXCEPT ![p] = TRUE]
    /\ current' = [current EXCEPT ![p] = m]
    /\ UNCHANGED synced

(* handleStop, offered while an answer runs.                                *)
Stop(p) ==
    /\ running[p]
    /\ Mark(p, current[p], "done")
    /\ stream' = Aborted(p)
    /\ running' = [running EXCEPT ![p] = FALSE]
    /\ UNCHANGED <<active, current, history>>

(* An `error` event.                                                        *)
ChatError(m) ==
    /\ stream[m].kind = "chat" /\ stream[m].phase = "open"
    /\ Mark(stream[m].page, m, "error")
    /\ stream' = [stream EXCEPT ![m].failed = TRUE]
    /\ UNCHANGED <<active, running, current, history>>

(* The end of the stream, with or without an error event before it; the     *)
(* `auth_error` event is not looked at.                                     *)
ChatEnds(m) ==
    /\ stream[m].kind = "chat" /\ stream[m].phase = "open"
    /\ Mark(stream[m].page, m, "done")
    /\ stream' = [stream EXCEPT ![m].phase = "ended", ![m].told = @ \cup {"done"}]
    /\ running' = [running EXCEPT ![stream[m].page] = FALSE]
    /\ UNCHANGED <<active, current, history>>

ChatLost(m) ==
    /\ stream[m].kind = "chat" /\ stream[m].phase = "open"
    /\ Mark(stream[m].page, m, "error")
    /\ stream' = [stream EXCEPT ![m].phase = "ended", ![m].failed = TRUE, ![m].told = @ \cup {"error"}]
    /\ running' = [running EXCEPT ![stream[m].page] = FALSE]
    /\ UNCHANGED <<active, current, history>>

(* A response that is not ok: its text is read, then the message and the    *)
(* input field are told, the field also if it waits for another answer now. *)
ChatRejected(m) ==
    /\ stream[m].kind = "chat" /\ stream[m].phase = "open"
    /\ stream' = [stream EXCEPT ![m].phase = "rejected", ![m].failed = TRUE]
    /\ UNCHANGED <<pageVars, active, running, current, history>>

ChatRejectedText(m) ==
    /\ stream[m].phase = "rejected"
    /\ Mark(stream[m].page, m, "error")
    /\ stream' = [stream EXCEPT ![m].phase = "ended"]
    /\ running' = [running EXCEPT ![stream[m].page] = FALSE]
    /\ UNCHANGED <<active, current, history>>

-----------------------------------------------------------------------------
(* The panel: analyze, with a new session for another instance, and         *)
(* followUp; without an instance the message is an error at once.           *)

Analyze(p, fresh) ==
    LET m == Cardinality(Asked) + 1 IN
    /\ m \in Messages /\ p \in Askers
    /\ Question(p, m, fresh)
    /\ stream' = [stream EXCEPT ![m] = Request(p, "panel", "open")]
    /\ UNCHANGED <<running, current, history>>

PanelNoInstance(m) ==
    /\ stream[m].kind = "panel" /\ stream[m].phase = "open" /\ ~stream[m].failed
    /\ Mark(stream[m].page, m, "error")
    /\ stream' = [stream EXCEPT ![m].phase = "ended"]
    /\ UNCHANGED <<active, running, current, history>>

(* fireNotifyDone, fireNotifyError: the first of them notifies.             *)
Told(s, kind) == [s EXCEPT !.told = IF @ = {} THEN {kind} ELSE @]

(* An `error` or `auth_error` event; or a response that is not ok, a lost   *)
(* connection, ten minutes without an end: then it is over.                 *)
PanelError(m, phase) ==
    /\ stream[m].kind = "panel" /\ stream[m].phase = "open"
    /\ Mark(stream[m].page, m, "error")
    /\ stream' = [stream EXCEPT ![m] = Told([@ EXCEPT !.failed = TRUE, !.phase = phase], "error")]
    /\ UNCHANGED <<active, running, current, history>>

(* A `status` event with phase done; the server sends one after an error,   *)
(* too.                                                                     *)
PanelDone(m) ==
    /\ stream[m].kind = "panel" /\ stream[m].phase = "open"
    /\ Mark(stream[m].page, m, "done")
    /\ UNCHANGED <<active, running, current, stream, history>>

PanelEnds(m) ==
    LET p == stream[m].page IN
    /\ stream[m].kind = "panel" /\ stream[m].phase = "open"
    /\ IF sessions[p].status[m] = "streaming" THEN Mark(p, m, "done") ELSE UNCHANGED pageVars
    /\ stream' = [stream EXCEPT ![m] = Told([@ EXCEPT !.phase = "ended"], "done")]
    /\ UNCHANGED <<active, running, current, history>>

-----------------------------------------------------------------------------
(* The sessions                                                             *)

Activate(p, s) ==
    /\ s = None \/ Has(sessions[p], s)
    /\ active' = [active EXCEPT ![p] = s]
    /\ UNCHANGED <<pageVars, running, current, stream, history>>

(* handleDeleteChat, deleteSession: the session's streams go on.            *)
Delete(p, s) ==
    /\ Has(sessions[p], s)
    /\ SetChatSessions(p, Without(sessions[p], s))
    /\ active' = [active EXCEPT ![p] = IF @ = s THEN None ELSE @]
    /\ UNCHANGED <<running, current, stream, history>>

(* onStorage: the last write wins.                                          *)
Storage(p) ==
    /\ events[p] # <<>>
    /\ sessions' = [sessions EXCEPT ![p] = Head(events[p])]
    /\ events' = [events EXCEPT ![p] = Tail(@)]
    /\ synced' = TRUE
    /\ UNCHANGED <<storage, active, running, current, stream, abandoned>>

(* A message still marked streaming is taken for one whose connection was   *)
(* lost; the storage keeps it as it is until the page's next write.         *)
Healed(c) == [c EXCEPT !.status = [m \in Messages |-> IF @[m] = "streaming" THEN "done" ELSE @[m]]]

Reload(p) ==
    /\ sessions' = [sessions EXCEPT ![p] = Healed(storage)]
    /\ events' = [events EXCEPT ![p] = <<>>]
    /\ active' = [active EXCEPT ![p] = IF Has(storage, @) THEN @ ELSE None]
    /\ running' = [running EXCEPT ![p] = FALSE]
    /\ current' = [current EXCEPT ![p] = None]
    /\ stream' = [m \in Messages |->
                     IF stream[m].page = p THEN [stream[m] EXCEPT !.phase = "ended"] ELSE stream[m]]
    /\ UNCHANGED <<storage, history>>

Next ==
    \/ \E p \in Pages : \/ \E blocked \in BOOLEAN : Send(p, blocked)
                        \/ Stop(p)
                        \/ \E fresh \in BOOLEAN : Analyze(p, fresh)
                        \/ \E s \in Messages : Activate(p, s) \/ Delete(p, s)
                        \/ Activate(p, None)
                        \/ Storage(p)
                        \/ Reload(p)
    \/ \E m \in Messages : \/ ChatError(m) \/ ChatEnds(m) \/ ChatLost(m)
                           \/ ChatRejected(m) \/ ChatRejectedText(m)
                           \/ PanelNoInstance(m) \/ PanelDone(m) \/ PanelEnds(m)
                           \/ \E phase \in {"open", "ended"} : PanelError(m, phase)

Spec == Init /\ [][Next]_vars

-----------------------------------------------------------------------------
Live(m) == stream[m].kind # "none" /\ stream[m].phase # "ended"

(* The chat view's input field is never blocked for ever: while it says it  *)
(* is running, the request it can stop is on its way.                       *)
InputIsFreed == \A p \in Pages : running[p] => current[p] # None /\ Live(current[p])

(* A message that spins is being answered; except one whose request was     *)
(* aborted by the next question, and as long as the page has not taken over *)
(* the sessions of another page.                                            *)
SpinningIsAnswered ==
    ~synced =>
        \A p \in Pages, m \in Messages \ abandoned :
            sessions[p].status[m] = "streaming" /\ stream[m].page = p => Live(m)

(* The panel's notification of an analysis is one, and says whether it      *)
(* failed, even where the message is marked done after its error.           *)
PanelNotifiesTheOutcome ==
    \A m \in Messages :
        stream[m].kind = "panel" => /\ "done" \in stream[m].told => ~stream[m].failed
                                    /\ stream[m].failed => stream[m].told = {"error"}
=============================================================================
