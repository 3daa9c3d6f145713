------------------------------- MODULE Terminal -------------------------------
(***************************************************************************)
(* The SQL terminal (web/frontend/src/views/Terminal.tsx): one query on one *)
(* node or on several side by side.  An execution asks every node at once;  *)
(* the answers come in any order, the next execution or the Abort button    *)
(* abandons those still open, and nodes come and go meanwhile.              *)
(***************************************************************************)
EXTENDS SequencesExt

CONSTANTS
    Instances,     \* the monitored nodes
    MaxExecutions, \* bound: executions
    HistoryLimit   \* entries of the session's query history, 20 in the code

ConstantsOK == MaxExecutions \in Nat \ {0} /\ HistoryLimit \in Nat \ {0}

VARIABLES
    inst, splitInstances, \* the node of the selector, those added to it
    selectedInstance, terminalInstance, \* of the store
    nodeResults,          \* node -> its pane
    running,              \* a query runs: the Abort button is there
    controller,           \* abortControllerRef: the execution that can be aborted, or 0
    requests,             \* unanswered requests of executions that are not aborted
    succeeded,            \* a node has answered the running execution
    executions,           \* so far
    queryHistory          \* executions of this session, newest first

store == <<selectedInstance, terminalInstance>>
results == <<nodeResults, running, controller, requests, succeeded, queryHistory>>
vars == <<inst, splitInstances, store, results, executions>>

NoInstance == "none"
Empty == [state |-> "empty"]
Pane(st, e) == [state |-> st, exec |-> e]

(* A node that is both selected and added is asked twice.                   *)
allInstances == {<<inst, "first">>} \cup (splitInstances \X {"added"})

Request ==
    [ exec : 1 .. MaxExecutions, node : Instances, as : {"first", "added"},
      refused : BOOLEAN ] \* an error status has come, its body has not

TypeOK ==
    /\ inst \in Instances /\ splitInstances \subseteq Instances
    /\ selectedInstance \in Instances
    /\ terminalInstance \in Instances \cup {NoInstance}
    /\ nodeResults \in [Instances -> {Empty} \cup
           [state : {"loading", "result", "error", "cancelled"}, exec : 1 .. MaxExecutions]]
    /\ running \in BOOLEAN /\ succeeded \in BOOLEAN
    /\ controller \in 0 .. MaxExecutions /\ executions \in 0 .. MaxExecutions
    /\ requests \subseteq Request
    /\ \A r \in requests : r.exec = controller
    /\ queryHistory \in SeqOf(1 .. MaxExecutions, HistoryLimit)

Init ==
    /\ selectedInstance \in Instances
    /\ terminalInstance \in Instances \cup {NoInstance}
    /\ inst = IF terminalInstance = NoInstance THEN selectedInstance ELSE terminalInstance
    /\ splitInstances = {}
    /\ nodeResults = [i \in Instances |-> Empty]
    /\ running = FALSE /\ controller = 0 /\ requests = {} /\ succeeded = FALSE
    /\ executions = 0
    /\ queryHistory = <<>>

-----------------------------------------------------------------------------
(* Aborting a request rejects it with an AbortError, which is ignored; but  *)
(* where an error's body was being read, that rejection is swallowed and    *)
(* the pane is given the error (postWithSignal's inner catch).              *)
AfterAbort(panes) ==
    [i \in Instances |->
        IF \E r \in requests : r.node = i /\ r.refused
        THEN Pane("error", controller) ELSE panes[i]]

executeBeside ==                                                    \* mutant
    /\ executions < MaxExecutions
    /\ executions' = executions + 1
    /\ controller' = executions'
    /\ running' = TRUE /\ succeeded' = FALSE
    /\ requests' = requests \cup {[exec |-> executions', node |-> a[1], as |-> a[2], refused |-> FALSE]
                     : a \in allInstances}
    /\ nodeResults' = AfterAbort([i \in Instances |->
           IF i \in {inst} \cup splitInstances THEN Pane("loading", executions') ELSE Empty])
    /\ UNCHANGED <<inst, splitInstances, store, queryHistory>>

(* The button is disabled while a query runs, Ctrl-Enter is not.            *)
execute ==
    /\ executions < MaxExecutions
    /\ executions' = executions + 1
    /\ controller' = executions'
    /\ running' = TRUE /\ succeeded' = FALSE
    /\ requests' = {[exec |-> executions', node |-> a[1], as |-> a[2], refused |-> FALSE]
                     : a \in allInstances}
    /\ nodeResults' = AfterAbort([i \in Instances |->
           IF i \in {inst} \cup splitInstances THEN Pane("loading", executions') ELSE Empty])
    /\ UNCHANGED <<inst, splitInstances, store, queryHistory>>

abortQueryLeavingPanes ==                                           \* mutant
    /\ running
    /\ controller' = 0 /\ requests' = {}
    /\ running' = FALSE
    /\ nodeResults' = AfterAbort(nodeResults)
    /\ UNCHANGED <<inst, splitInstances, store, succeeded, executions, queryHistory>>

abortQuery ==
    /\ running
    /\ controller' = 0 /\ requests' = {}
    /\ running' = FALSE
    /\ nodeResults' = AfterAbort([i \in Instances |->
           IF nodeResults[i].state = "loading"
           THEN Pane("cancelled", nodeResults[i].exec) ELSE nodeResults[i]])
    /\ UNCHANGED <<inst, splitInstances, store, succeeded, executions, queryHistory>>

(* One node's answer; with the last of them Promise.all goes on: a query    *)
(* that any node has answered is remembered.                                *)
Answer(r, st) ==
    /\ requests' = requests \ {r}
    /\ nodeResults' = [nodeResults EXCEPT ![r.node] = Pane(st, r.exec)]
    /\ succeeded' = (succeeded \/ st = "result")
    /\ IF requests' = {}
       THEN /\ running' = FALSE /\ controller' = 0
            /\ queryHistory' = IF succeeded'
                 THEN SubSeq(<<r.exec>> \o queryHistory, 1,
                             IF Len(queryHistory) < HistoryLimit THEN Len(queryHistory) + 1
                             ELSE HistoryLimit)
                 ELSE queryHistory
       ELSE UNCHANGED <<running, controller, queryHistory>>
    /\ UNCHANGED <<inst, splitInstances, store, executions>>

Succeed(r) == ~r.refused /\ Answer(r, "result")
Fail(r) == Answer(r, "error")
Refuse(r) ==
    /\ ~r.refused
    /\ requests' = (requests \ {r}) \cup {[r EXCEPT !.refused = TRUE]}
    /\ UNCHANGED <<inst, splitInstances, store, nodeResults, running, controller, succeeded,
                   executions, queryHistory>>

-----------------------------------------------------------------------------
(* Ctrl-L empties the panes, also those of a query that runs.               *)
Clear ==
    /\ nodeResults' = [i \in Instances |-> Empty]
    /\ UNCHANGED <<inst, splitInstances, store, running, controller, requests, succeeded,
                   executions, queryHistory>>

(* The selector offers every node, an added one too.                        *)
SelectInstance(i) ==
    /\ inst' = i /\ selectedInstance' = i
    /\ UNCHANGED <<splitInstances, terminalInstance, results, executions>>

addSplitNode(i) ==
    /\ i # inst /\ i \notin splitInstances
    /\ splitInstances' = splitInstances \cup {i}
    /\ UNCHANGED <<inst, store, results, executions>>

removeSplitNode(i) ==
    /\ i \in splitInstances
    /\ splitInstances' = splitInstances \ {i}
    /\ nodeResults' = [nodeResults EXCEPT ![i] = Empty]
    /\ UNCHANGED <<inst, store, running, controller, requests, succeeded, executions, queryHistory>>

(* An entry of the server's history brings its node.                        *)
PickHistory(i) ==
    /\ inst' = i
    /\ UNCHANGED <<splitInstances, store, results, executions>>

(* The dashboard's own selector counts until a link has named a node.       *)
InstanceSelectedElsewhere(i) ==
    /\ selectedInstance' = i
    /\ inst' = IF terminalInstance = NoInstance /\ i # selectedInstance THEN i ELSE inst
    /\ UNCHANGED <<splitInstances, terminalInstance, results, executions>>

(* "Run in terminal" from the panel or the table drawer beside this view;   *)
(* nothing happens when it asks for what it asked for before.               *)
navToTerminal(i, sameQuery) ==
    /\ terminalInstance' = i
    /\ inst' = IF sameQuery /\ i = terminalInstance THEN inst ELSE i
    /\ UNCHANGED <<splitInstances, selectedInstance, results, executions>>

ClearHistory ==
    /\ queryHistory' = <<>>
    /\ UNCHANGED <<inst, splitInstances, store, nodeResults, running, controller, requests,
                   succeeded, executions>>

Next ==
    \/ execute \/ abortQuery \/ Clear \/ ClearHistory
    \/ \E r \in requests : Succeed(r) \/ Fail(r) \/ Refuse(r)
    \/ \E i \in Instances :
          \/ SelectInstance(i) \/ addSplitNode(i) \/ removeSplitNode(i)
          \/ PickHistory(i) \/ InstanceSelectedElsewhere(i)
          \/ \E sameQuery \in BOOLEAN : navToTerminal(i, sameQuery)

Spec == Init /\ [][Next]_vars

-----------------------------------------------------------------------------
(* Properties                                                               *)

(* The Abort button and a pane's "Running..." are there only while a        *)
(* request is open that will end them, whatever is cleared, removed, added  *)
(* or started again meanwhile.                                              *)
RunningEnds ==
    /\ running <=> requests # {}
    /\ \A i \in Instances : nodeResults[i].state = "loading" =>
          \E r \in requests : r.node = i /\ r.exec = nodeResults[i].exec

(* Panes side by side compare one query: whatever answers late, rows on the *)
(* screen are those of the last execution, never of an earlier one.         *)
RowsAreOfLastQuery ==
    \A i \in Instances : nodeResults[i].state = "result" => nodeResults[i].exec = executions

(* The session's history lists a query once, newest first.                  *)
HistoryIsOrdered ==
    \A m, n \in DOMAIN queryHistory : m < n => queryHistory[m] > queryHistory[n]
===============================================================================
