-------------------------- MODULE ThresholdSettings --------------------------
(***************************************************************************)
(* The alert thresholds: the editor of the dashboard (ThresholdEditor.tsx), *)
(* possibly open on several pages, the server's two handlers (thresholds.go)*)
(* with its configuration and the override file, the restart that reads the *)
(* file, and the collectors of the poll loop (main.go).  All thresholds are *)
(* reduced to one warn level, next to a critical level that nobody touches. *)
(***************************************************************************)
EXTENDS Naturals

CONSTANTS
    Pages,
    Critical,    \* the critical level beside the warn level
    Default,     \* the warn level of the configuration file
    MaxSaves,    \* bound: POST requests
    MaxRestarts  \* bound

ConstantsOK ==
    /\ "nobody" \notin Pages
    /\ Critical \in Nat /\ Default \in 1 .. Critical - 1
    /\ MaxSaves \in Nat /\ MaxRestarts \in Nat

VARIABLES
    thresholds,  \* of the server's configuration, which GET and a run check read
    override,    \* the file
    collectors,  \* the level that the collectors of the poll loop compare with
    pages,       \* the editors
    posts,       \* POST requests that are not answered
    saves, restarts,
    overlapped,  \* history: two POST handlers ran at once, or a file was not written
    author,      \* history: whose POST was applied last, "nobody" after a restart
    unsure       \* history: pages one of whose requests failed after it was applied

server == <<thresholds, override, collectors>>
past == <<overlapped, author, unsure>>
vars == <<server, pages, posts, saves, restarts, past>>

Levels == 0 .. Critical
NoLevel == Critical + 1
Sent == Critical + 2

(* validateThresholds: warn is positive and below critical.                 *)
Valid(level) == 0 < level /\ level < Critical

Page ==
    [ loaded : Levels \cup {NoLevel}, draft : Levels \cup {NoLevel}, isDirty : BOOLEAN,
      saving : 0 .. MaxSaves, \* the POST that is waited for, or 0
      loading : BOOLEAN, error : BOOLEAN,
      load : Levels \cup {NoLevel, Sent} ] \* the GET request: its answer, none, or sent

Post ==
    [ nr : 1 .. MaxSaves, page : Pages, level : Levels,
      step : {"sent", "written", "applied", "refused"} ]
Awaited(post) == pages[post.page].saving = post.nr

TypeOK ==
    /\ thresholds \in Levels /\ override \in Levels \cup {NoLevel} /\ collectors \in Levels
    /\ pages \in [Pages -> Page]
    /\ posts \subseteq Post
    /\ saves \in 0 .. MaxSaves /\ restarts \in 0 .. MaxRestarts
    /\ overlapped \in BOOLEAN /\ author \in Pages \cup {"nobody"} /\ unsure \subseteq Pages

Init ==
    /\ thresholds = Default /\ override = NoLevel /\ collectors = Default
    /\ pages = [p \in Pages |->
           [ loaded |-> NoLevel, draft |-> NoLevel, isDirty |-> FALSE, saving |-> 0,
             loading |-> TRUE, error |-> FALSE, load |-> Sent ]]
    /\ posts = {} /\ saves = 0 /\ restarts = 0
    /\ overlapped = FALSE /\ author = "nobody" /\ unsure = {}

-----------------------------------------------------------------------------
(* The editor                                                               *)

Editable(p) == ~pages[p].loading /\ ~pages[p].error

(* The Retry button, which is there after a load has failed.                *)
load(p) ==
    /\ pages[p].error /\ ~pages[p].loading
    /\ pages' = [pages EXCEPT ![p].loading = TRUE, ![p].error = FALSE, ![p].load = Sent]
    /\ UNCHANGED <<server, posts, saves, restarts, past>>

(* GET: the answer is read under the lock and takes its time.               *)
ReadForPage(p) ==
    /\ pages[p].load = Sent
    /\ pages' = [pages EXCEPT ![p].load = thresholds]
    /\ UNCHANGED <<server, posts, saves, restarts, past>>

Loaded(p) ==
    /\ pages[p].load \in Levels
    /\ pages' = [pages EXCEPT ![p] =
           [@ EXCEPT !.loaded = pages[p].load, !.draft = pages[p].load, !.isDirty = FALSE,
                     !.loading = FALSE, !.load = NoLevel]]
    /\ UNCHANGED <<server, posts, saves, restarts, past>>

NotLoaded(p) ==
    /\ pages[p].load # NoLevel
    /\ pages' = [pages EXCEPT ![p].error = TRUE, ![p].loading = FALSE, ![p].load = NoLevel]
    /\ UNCHANGED <<server, posts, saves, restarts, past>>

handleChange(p, level) ==
    /\ Editable(p) /\ level # pages[p].draft
    /\ pages' = [pages EXCEPT ![p].draft = level, ![p].isDirty = TRUE]
    /\ UNCHANGED <<server, posts, saves, restarts, past>>

handleReset(p) ==
    /\ Editable(p) /\ pages[p].isDirty
    /\ pages' = [pages EXCEPT ![p].draft = pages[p].loaded, ![p].isDirty = FALSE]
    /\ UNCHANGED <<server, posts, saves, restarts, past>>

handleSave(p) ==
    /\ Editable(p) /\ pages[p].isDirty /\ pages[p].saving = 0
    /\ saves < MaxSaves
    /\ saves' = saves + 1
    /\ pages' = [pages EXCEPT ![p].saving = saves']
    /\ posts' = posts \cup {[nr |-> saves', page |-> p, level |-> pages[p].draft, step |-> "sent"]}
    /\ UNCHANGED <<server, restarts, past>>

SavedAsTyped(post) ==                                               \* mutant
    /\ post.step = "applied" /\ Awaited(post)
    /\ posts' = posts \ {post}
    /\ pages' = [pages EXCEPT ![post.page] =
           [@ EXCEPT !.loaded = post.level, !.isDirty = FALSE,
                     !.saving = 0]]
    /\ UNCHANGED <<server, saves, restarts, past>>

(* The answer replaces the draft, also what was typed since.                *)
Saved(post) ==
    /\ post.step = "applied" /\ Awaited(post)
    /\ posts' = posts \ {post}
    /\ pages' = [pages EXCEPT ![post.page] =
           [@ EXCEPT !.loaded = post.level, !.draft = post.level, !.isDirty = FALSE,
                     !.saving = 0]]
    /\ UNCHANGED <<server, saves, restarts, past>>

(* An error answer, or none within 30 seconds: the handler goes on if the   *)
(* request has reached it.                                                  *)
NotSaved(post) ==
    /\ Awaited(post)
    /\ pages' = [pages EXCEPT ![post.page].saving = 0]
    /\ posts' = IF post.step = "written" THEN posts ELSE posts \ {post}
    /\ unsure' = IF post.step \in {"written", "applied"} THEN unsure \cup {post.page} ELSE unsure
    /\ UNCHANGED <<server, saves, restarts, overlapped, author>>

-----------------------------------------------------------------------------
(* handlePostThresholds: validation and the file first, the configuration   *)
(* afterwards; a file that cannot be written is only logged.                *)
Refuse(post) ==
    /\ post.step = "sent" /\ ~Valid(post.level)
    /\ posts' = (posts \ {post}) \cup {[post EXCEPT !.step = "refused"]}
    /\ UNCHANGED <<server, pages, saves, restarts, past>>

WriteOverride(post, fails) ==
    /\ post.step = "sent" /\ Valid(post.level)
    /\ override' = IF fails THEN override ELSE post.level
    /\ posts' = (posts \ {post}) \cup {[post EXCEPT !.step = "written"]}
    /\ overlapped' = (overlapped \/ fails \/ \E q \in posts : q.step = "written")
    /\ UNCHANGED <<thresholds, collectors, pages, saves, restarts, author, unsure>>

(* The collectors hold copies of their own, which nothing changes.  Nobody   *)
(* waits for the answer of a request that has timed out.                    *)
Apply(post) ==
    /\ post.step = "written"
    /\ thresholds' = post.level
    /\ posts' = (posts \ {post}) \cup
           (IF Awaited(post) THEN {[post EXCEPT !.step = "applied"]} ELSE {})
    /\ author' = post.page
    /\ UNCHANGED <<override, collectors, pages, saves, restarts, overlapped, unsure>>

(* The override is unmarshalled into a struct whose fields have yaml names  *)
(* only: the groups are found whatever their case, but the key of no level  *)
(* ("warn_percent") is a field (WarnPercent), which is no error, and every  *)
(* threshold is zero.                                                       *)
Decoded(file) == 0

(* The collectors are built from the configuration before the override is   *)
(* read.                                                                    *)
Restart ==
    /\ restarts < MaxRestarts
    /\ restarts' = restarts + 1
    /\ collectors' = Default
    /\ thresholds' = IF override = NoLevel THEN Default ELSE Decoded(override)
    /\ posts' = {}
    /\ pages' = [p \in Pages |->
           [pages[p] EXCEPT !.saving = 0, !.load = NoLevel, !.loading = FALSE,
                            !.error = pages[p].error \/ pages[p].load # NoLevel]]
    /\ overlapped' = (overlapped \/ \E q \in posts : q.step = "written")
    /\ author' = "nobody"
    /\ UNCHANGED <<override, saves, unsure>>

Next ==
    \/ \E p \in Pages :
          \/ load(p) \/ ReadForPage(p) \/ Loaded(p) \/ NotLoaded(p)
          \/ handleReset(p) \/ handleSave(p)
          \/ \E level \in Levels : handleChange(p, level)
    \/ \E post \in posts :
          \/ Saved(post) \/ NotSaved(post) \/ Refuse(post) \/ Apply(post)
          \/ \E fails \in BOOLEAN : WriteOverride(post, fails)
    \/ Restart

Spec == Init /\ [][Next]_vars

-----------------------------------------------------------------------------
(* Properties                                                               *)

(* The "saving" and "loading" spinners have a request that will end them.   *)
EditorIsFreed ==
    \A p \in Pages :
        /\ pages[p].saving # 0 => \E post \in posts : post.page = p /\ Awaited(post)
        /\ pages[p].loading => pages[p].load # NoLevel

(* What the editor shows as saved is in the server's configuration, as long *)
(* as its page was the last to save, no answer of its got lost and the      *)
(* server did not restart.                                                  *)
ShownIsConfigured ==
    \A p \in Pages :
        author = p /\ p \notin unsure /\ pages[p].saving = 0 /\ ~pages[p].isDirty
        => pages[p].draft = thresholds

(* The file and the configuration agree once a save is over, unless two     *)
(* saves overlapped, a write failed or a crash came between the two steps.  *)
FileFollowsCopy ==
    /\ ~overlapped /\ author # "nobody"
    /\ \A post \in posts : post.step # "written"
    => override = thresholds

(* A restart reads the saved thresholds back into the configuration.        *)
RestartKeepsThresholds ==
    [][restarts' # restarts /\ override # NoLevel => thresholds' = override]_vars

(* Once a save is applied, the next poll cycle compares with it ("applies   *)
(* them in-memory so the next poll cycle picks them up", thresholds.go).    *)
NextPollUsesSaved ==
    author # "nobody" /\ (\A post \in posts : post.step # "written") => collectors = thresholds
===============================================================================
