---------------------------- MODULE TableScanner ----------------------------
(***************************************************************************)
(* The table scanner (views/TableScanner.tsx): the tables of an instance,   *)
(* read by a request that also carries the database that is selected in a   *)
(* drop-down list.  The request is not repeated when the database changes;  *)
(* the list offers the databases of the tables that were loaded, and the    *)
(* rows are filtered by it.  React runs the effects of a commit in the      *)
(* order they are written in, and commits what they set afterwards.         *)
(***************************************************************************)
EXTENDS Naturals, FiniteSets

CONSTANTS
    Instances,
    Databases,
    Tables,
    MaxLoads \* bound

ConstantsOK ==
    /\ "" \notin Instances /\ "all" \notin Databases
    /\ Tables \subseteq [instance : Instances, database : Databases, active : BOOLEAN, issues : BOOLEAN]
    /\ MaxLoads \in Nat

Unselected == ""

VARIABLES
    instance, selectedInstance, includeSystem, selectedDb, rowFilter,
    result,    \* <<answer>>, or <<>>
    loads,     \* requests that were not answered; nothing cancels one
    loading, error,
    sent,      \* the last request
    applied,   \* history: the request that ended last
    overtaken, \* history: a request ended after a later one
    between    \* history: the database was chosen while a load was under way

controls == <<instance, selectedInstance, includeSystem, selectedDb, rowFilter>>
vars == <<controls, result, loads, loading, error, sent, applied, overtaken, between>>

Choices == {"all"} \cup Databases
Request == [nr : 1 .. MaxLoads, instance : Instances, system : BOOLEAN, db : Choices]
NotSent == [nr |-> 0]

TypeOK ==
    /\ instance \in Instances \cup {Unselected} /\ selectedInstance \in Instances \cup {Unselected}
    /\ includeSystem \in BOOLEAN /\ selectedDb \in Choices
    /\ rowFilter \in {"all", "active", "idle", "issues"}
    /\ result \in {<<>>} \cup {<<r>> : r \in Request}
    /\ loads \subseteq Request /\ sent \in Request \cup {NotSent}
    /\ {loading, error, overtaken, between} \subseteq BOOLEAN
    /\ applied \in 0 .. MaxLoads

-----------------------------------------------------------------------------
(* The tables the server answers with, and those that are shown.            *)
Found(r) == {t \in Tables : t.instance = r.instance /\ r.db \in {"all", t.database}}
Loaded == UNION {Found(result[i]) : i \in DOMAIN result}

availableDbs == {t.database : t \in Loaded}

Passes(t) ==
    CASE rowFilter = "active" -> t.active
      [] rowFilter = "idle"   -> ~t.active
      [] rowFilter = "issues" -> t.issues
      [] OTHER                -> TRUE

sorted == {t \in Loaded : selectedDb \in {"all", t.database} /\ Passes(t)}

-----------------------------------------------------------------------------
(* Store value at the mount; the effects run without an instance.           *)
Init ==
    /\ selectedInstance \in Instances \cup {Unselected}
    /\ instance = Unselected
    /\ includeSystem = FALSE /\ selectedDb = "all" /\ rowFilter = "all"
    /\ result = <<>> /\ loads = {} /\ loading = FALSE /\ error = FALSE
    /\ sent = NotSent /\ applied = 0 /\ overtaken = FALSE /\ between = FALSE

(* load(): the database is read from selectedDbRef, which the last render   *)
(* has set.                                                                 *)
Load(inst, system, db) ==
    /\ sent.nr < MaxLoads
    /\ sent' = [nr |-> sent.nr + 1, instance |-> inst, system |-> system, db |-> db]
    /\ loads' = loads \cup {sent'}
    /\ loading' = TRUE /\ error' = FALSE
    /\ between' = FALSE

(* A change of what load depends on: the render, the effect that resets the *)
(* database, and the one that loads; what the first one has set is rendered *)
(* after the second one.                                                    *)
Depend(inst, system) ==
    /\ instance' = inst /\ includeSystem' = system
    /\ Load(inst, system, selectedDb)
    /\ selectedDb' = "all"
    /\ UNCHANGED <<rowFilter, applied, overtaken>>

(* The effect that adopts the instance of the page, once.                   *)
AdoptInstance ==
    /\ instance = Unselected
    /\ \E inst \in Instances :
          /\ selectedInstance \in {inst, Unselected}
          /\ Depend(inst, includeSystem)
    /\ UNCHANGED <<selectedInstance, result>>

ChooseInstance(inst) ==
    /\ instance # Unselected /\ inst # instance
    /\ Depend(inst, includeSystem)
    /\ result' = <<>>
    /\ UNCHANGED selectedInstance

(* The toggle of the system tables; the range buttons do the same.          *)
ToggleSystem ==
    /\ instance # Unselected
    /\ Depend(instance, ~includeSystem)
    /\ UNCHANGED <<selectedInstance, result>>

(* The refresh button and the page's refresh tick.                          *)
Refresh ==
    /\ instance # Unselected
    /\ Load(instance, includeSystem, selectedDb)
    /\ UNCHANGED <<controls, result, applied, overtaken>>

ChooseDb(db) ==
    /\ db \in {"all"} \cup availableDbs /\ availableDbs # {}
    /\ selectedDb' = db
    /\ between' = (loads # {})
    /\ UNCHANGED <<instance, selectedInstance, includeSystem, rowFilter, result, loads, loading, error,
                   sent, applied, overtaken>>

(* One of the row filters; or "Clear filters", when no row is left.         *)
FilterRows(f) ==
    /\ f # rowFilter
    /\ rowFilter' = f
    /\ UNCHANGED <<instance, selectedInstance, includeSystem, selectedDb, result, loads, loading, error,
                   sent, applied, overtaken, between>>

Ends(r) ==
    /\ r \in loads /\ loads' = loads \ {r}
    /\ loading' = FALSE
    /\ applied' = r.nr /\ overtaken' = (overtaken \/ r.nr < applied)
    /\ UNCHANGED <<controls, sent, between>>

Succeed(r) == Ends(r) /\ result' = <<r>> /\ UNCHANGED error

Fail(r) == Ends(r) /\ error' = TRUE /\ UNCHANGED result

Next ==
    \/ AdoptInstance
    \/ \E inst \in Instances : ChooseInstance(inst)
    \/ ToggleSystem \/ Refresh
    \/ \E db \in Choices : ChooseDb(db)
    \/ \E f \in {"all", "active", "idle", "issues"} : FilterRows(f)
    \/ \E r \in loads : Succeed(r) \/ Fail(r)

Spec == Init /\ [][Next]_vars

-----------------------------------------------------------------------------
(* When the last load has succeeded and none is under way, the tables of    *)
(* the chosen database are all there, and nothing of another instance:      *)
(* although choosing a database does not load it, and a load may have been  *)
(* for another database.  Unless it was chosen while a load for another one *)
(* was under way: then nothing is shown.                                    *)
ChosenDbIsComplete ==
    /\ loads = {} /\ ~error /\ ~overtaken /\ ~between /\ result # <<>> /\ selectedDb # "all"
    => sorted = {t \in Tables : t.instance = instance /\ t.database = selectedDb /\ Passes(t)}
=============================================================================
