-------------------------- MODULE SettingsComparison --------------------------
(***************************************************************************)
(* The comparison of settings across instances (web/frontend/src/views/     *)
(* Compare.tsx, SettingsView, NodePill and the baseline; internal/web/      *)
(* compare.go, handleCompareSettings).  The server reads the settings that  *)
(* are changed on an instance; one that is not changed there has its        *)
(* default, which the answer does not say.                                  *)
(***************************************************************************)
EXTENDS Naturals, Sequences, SequencesExt, FiniteSets, Functions

CONSTANTS Instances, Settings, Values

Default == "default"
Absent == "undefined"

ConstantsOK ==
    /\ Instances # {} /\ IsFiniteSet(Instances) /\ IsFiniteSet(Settings)
    /\ {Default, Absent} \cap Values = {}

VARIABLES
    set,      \* what the settings of each instance are
    unread,   \* instances whose query failed in the last load
    loaded,   \* the answer is there
    baseline, \* the stored choice of a baseline
    diffsOnly

vars == <<set, unread, loaded, baseline, diffsOnly>>

TypeOK ==
    /\ set \in [Settings -> [Instances -> Values \cup {Default}]]
    /\ unread \subseteq Instances /\ loaded \in BOOLEAN
    /\ baseline \in Instances \cup {Absent} /\ diffsOnly \in BOOLEAN

-----------------------------------------------------------------------------
(* handleCompareSettings                                                    *)
values(s, n) == IF n \in unread \/ set[s][n] = Default THEN Absent ELSE set[s][n]
Names == {s \in Settings : \E n \in Instances : values(s, n) # Absent}
Differs(s) == \E n, k \in Instances : values(s, n) # values(s, k) /\ Absent \notin {values(s, n), values(s, k)}

-----------------------------------------------------------------------------
effectiveBaseline == IF baseline \in Instances THEN baseline ELSE SetToSeq(Instances)[1]
others == Instances \ {effectiveBaseline}

(* What the cells of the table mark, and what makes a row a difference.     *)
CellDiffers(s, n) == values(s, n) # values(s, effectiveBaseline)
Diffs == {s \in Names : Differs(s) /\ \E n \in others : CellDiffers(s, n)}

AllMatch == loaded /\ Diffs = {}
Rows == IF diffsOnly THEN Diffs ELSE Names
Shown == IF AllMatch THEN {} ELSE Rows

(* computeStatus, the badge of a node.                                      *)
settingsDiff(n) ==
    Cardinality({s \in Names : /\ Differs(s) /\ CellDiffers(s, n)
                               /\ Absent \notin {values(s, n), values(s, effectiveBaseline)}})

-----------------------------------------------------------------------------
Init ==
    /\ set \in [Settings -> [Instances -> Values \cup {Default}]]
    /\ unread = {} /\ loaded = FALSE
    /\ baseline \in Instances \cup {Absent} /\ diffsOnly = TRUE

Load ==
    /\ ~loaded /\ loaded' = TRUE
    /\ unread' \in SUBSET Instances
    /\ UNCHANGED <<set, baseline, diffsOnly>>

(* The tab is left, or the range changes.                                   *)
Leave ==
    /\ loaded /\ loaded' = FALSE /\ diffsOnly' = TRUE
    /\ UNCHANGED <<set, unread, baseline>>

handleSetBaseline(n) ==
    /\ loaded /\ baseline' = n
    /\ UNCHANGED <<set, unread, loaded, diffsOnly>>

ToggleDiffsOnly ==
    /\ loaded /\ diffsOnly' = ~diffsOnly
    /\ UNCHANGED <<set, unread, loaded, baseline>>

Next == Load \/ Leave \/ (\E n \in Instances : handleSetBaseline(n)) \/ ToggleDiffsOnly

Spec == Init /\ [][Next]_vars

-----------------------------------------------------------------------------
Changed(s, n) == set[s][n] # Default

(* A setting with two different changed values, on instances that were      *)
(* read, is listed whichever instance is the baseline, and each node whose  *)
(* changed value is not the baseline's has it counted on its badge.         *)
ChangedDifferencesAreShown ==
    loaded => \A s \in Settings : \A n, k \in Instances \ unread :
        Changed(s, n) /\ Changed(s, k) /\ set[s][n] # set[s][k] =>
            /\ s \in Shown
            /\ effectiveBaseline \in {n, k} => \E m \in {n, k} : settingsDiff(m) > 0
=============================================================================
