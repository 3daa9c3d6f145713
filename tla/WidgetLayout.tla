----------------------------- MODULE WidgetLayout -----------------------------
(***************************************************************************)
(* The layout of the overview's widgets (web/frontend/src/views/            *)
(* Overview.tsx): kept in localStorage, edited by the user, and completed   *)
(* when a newer build knows widgets that the stored layout lacks.           *)
(***************************************************************************)
EXTENDS Naturals, Sequences, SequencesExt, FiniteSets, FiniteSetsExt, Functions

CONSTANTS
    Types,     \* the widgets that the builds have had, oldest first, a sequence
    MaxBuilds  \* bound: builds, each with a widget more

ConstantsOK == Types \in Seq(STRING) /\ IsInjective(Types) /\ MaxBuilds \in 1 .. Len(Types)

VARIABLES
    build,   \* how many of the widgets this build knows
    widgets, \* the state of the page
    stored   \* ch-dashboard-layout; empty: none

vars == <<build, widgets, stored>>

Widget == [type : Range(Types), enabled : BOOLEAN, order : 0 .. Len(Types) - 1]

TypeOK ==
    /\ build \in 1 .. MaxBuilds
    /\ widgets \subseteq Widget /\ stored \subseteq Widget

DEFAULT_WIDGETS == {[type |-> Types[i], enabled |-> TRUE, order |-> i - 1] : i \in 1 .. build}

TypesOf(ws) == {w.type : w \in ws}

(* The widgets that the stored layout lacks come after its last one, in the *)
(* order of the defaults.                                                   *)
newWidgets ==
    LET new(i) == {j \in 1 .. i : Types[j] \notin TypesOf(stored)}
        maxOrder == Max({w.order : w \in stored})
    IN  {[type |-> Types[i], enabled |-> TRUE, order |-> maxOrder + Cardinality(new(i))] :
            i \in new(build)}

loadWidgetLayout == IF stored = {} THEN DEFAULT_WIDGETS ELSE stored \cup newWidgets

Init ==
    /\ build \in 1 .. MaxBuilds
    /\ stored = {} /\ widgets = DEFAULT_WIDGETS

Mount == widgets' = loadWidgetLayout /\ UNCHANGED <<build, stored>>

(* Another build is deployed, and the page is loaded anew.                  *)
Upgrade ==
    /\ build < MaxBuilds /\ build' = build + 1
    /\ UNCHANGED stored
    /\ widgets' = loadWidgetLayout'

Set(next) == widgets' = next /\ stored' = next /\ UNCHANGED build

toggleWidget(w) == Set((widgets \ {w}) \cup {[w EXCEPT !.enabled = ~@]})

(* moveWidget swaps the orders of two neighbours, also with a disabled one. *)
moveWidget(w, v) ==
    /\ w.order < v.order
    /\ \A u \in widgets : u.order <= w.order \/ u.order >= v.order
    /\ Set((widgets \ {w, v}) \cup {[w EXCEPT !.order = v.order], [v EXCEPT !.order = w.order]})

ResetToDefaults == Set(DEFAULT_WIDGETS)

Next ==
    \/ Mount \/ Upgrade
    \/ \E w \in widgets : toggleWidget(w) \/ \E v \in widgets : moveWidget(w, v)
    \/ ResetToDefaults

Spec == Init /\ [][Next]_vars

-----------------------------------------------------------------------------
(* The page has each widget of its build once, no two of them at one place, *)
(* and it is what the user has made of the layout: what is stored is shown  *)
(* as it was left, before the widgets that are new.                         *)
LayoutIsWhole ==
    /\ TypesOf(widgets) = Range(SubSeq(Types, 1, build))
    /\ Cardinality(widgets) = build /\ Cardinality({w.order : w \in widgets}) = build
    /\ stored \subseteq widgets
    /\ stored # {} => \A w \in widgets \ stored, v \in stored : v.order < w.order
=============================================================================
