--------------------------- MODULE PersistentStore ---------------------------
(* The stores of operator decisions: maintenance windows, snoozes and       *)
(* acknowledgments (internal/alerter/maintenance.go, snooze.go, ack.go) and *)
(* schedules (internal/web/schedule.go).  Each keeps a map behind a lock    *)
(* and a JSON file that a restart loads.  A change is made under the lock;  *)
(* the file is written afterwards, outside it, by the goroutine that made   *)
(* the change.                                                              *)
EXTENDS Naturals, FiniteSets

CONSTANTS
    Kinds,     \* the stores a model is about, see AllKinds
    Entries,   \* entry ids
    Writers,   \* goroutines: HTTP handlers, Slack actions, the poll loop
    Inodes,    \* files of the file system
    DiskFails  \* writes of the file may fail

AllKinds == {"maintenance", "snooze", "ack", "schedule"}
Expiring == {"maintenance", "snooze"}

ConstantsOK == Kinds \subseteq AllKinds /\ DiskFails \in BOOLEAN

VARIABLES
    kind,      \* which store it is
    mem,       \* [Entries -> Value], None where the map has no entry
    late,      \* the end time of the short entries has passed
    dir,       \* [{"json", "tmp"} -> inode the name refers to, or NoInode]
    content,   \* [Inodes -> File]
    pc,        \* where each goroutine is in its save
    snap,      \* [Writers -> the entries it is saving]
    fd,        \* [Writers -> the inode it has open]
    durable,   \* history: the entries of the last save that succeeded
    failed     \* history: a save has failed since

vars == <<kind, mem, late, dir, content, pc, snap, fd, durable, failed>>

None == "none"
Value == {"short", "long", None}
Map == [Entries -> Value]
Nothing == [e \in Entries |-> None]

(* What a file holds: entries, nothing yet, or bytes that do not parse.     *)
Empty == [e \in Entries |-> "empty"]
Garbled == [e \in Entries |-> "garbled"]
File == Map \cup {Empty, Garbled}

NoInode == 0

TypeOK ==
    /\ kind \in Kinds
    /\ mem \in Map
    /\ late \in BOOLEAN /\ failed \in BOOLEAN
    /\ dir \in [{"json", "tmp"} -> Inodes \cup {NoInode}]
    /\ content \in [Inodes -> File]
    /\ pc \in [Writers -> {"idle", "snapshot", "open", "write", "rename"}]
    /\ snap \in [Writers -> Map]
    /\ fd \in [Writers -> Inodes \cup {NoInode}]
    /\ durable \in Map

Init ==
    /\ kind \in Kinds
    /\ mem = Nothing
    /\ late = FALSE
    /\ dir = [name \in {"json", "tmp"} |-> NoInode]
    /\ content = [i \in Inodes |-> Empty]
    /\ pc = [w \in Writers |-> "idle"]
    /\ snap = [w \in Writers |-> Nothing]
    /\ fd = [w \in Writers |-> NoInode]
    /\ durable = Nothing
    /\ failed = FALSE

Goto(w, where) == pc' = [pc EXCEPT ![w] = where]

(* Entries whose time has passed count for nothing.                         *)
Expired(m, e) == kind \in Expiring /\ late /\ m[e] = "short"
Live(m) == [e \in Entries |-> IF Expired(m, e) THEN None ELSE m[e]]

-----------------------------------------------------------------------------
(* Changes                                                                  *)

Change(w, new) ==
    /\ pc[w] = "idle"
    /\ mem' = new
    /\ Goto(w, "snapshot")
    /\ UNCHANGED <<kind, late, dir, content, snap, fd, durable, failed>>

(* A value an operator can choose: an end time in the future, or none.      *)
Choice == IF kind \in Expiring /\ ~late THEN {"short", "long"} ELSE {"long"}

Add(w, e) ==
    /\ mem[e] = None
    /\ \E value \in Choice : Change(w, [mem EXCEPT ![e] = value])

(* Only windows have their end time changed, schedules are switched on and  *)
(* off.                                                                     *)
Update(w, e) ==
    /\ kind \in {"maintenance", "schedule"}
    /\ mem[e] # None
    /\ \E value \in {"short", "long"} : Change(w, [mem EXCEPT ![e] = value])

DeleteUnsaved(w, e) ==                                              \* mutant
    /\ mem[e] # None
    /\ pc[w] = "idle"
    /\ mem' = [mem EXCEPT ![e] = None]
    /\ Goto(w, "idle")
    /\ UNCHANGED <<kind, late, dir, content, snap, fd, durable, failed>>

(* Deleting a snooze prunes the expired ones.  ClearForDedupKey deletes the *)
(* acknowledgments of a resolved alert.                                     *)
Delete(w, e) ==
    /\ mem[e] # None
    /\ LET new == [mem EXCEPT ![e] = None]
       IN Change(w, IF kind = "snooze" THEN Live(new) ELSE new)

(* IsInMaintenance and IsSnoozed drop expired entries and do not save.      *)
Prune ==
    /\ kind \in Expiring
    /\ mem # Live(mem)
    /\ mem' = Live(mem)
    /\ UNCHANGED <<kind, late, dir, content, pc, snap, fd, durable, failed>>

TimePasses ==
    /\ ~late
    /\ late' = TRUE
    /\ UNCHANGED <<kind, mem, dir, content, pc, snap, fd, durable, failed>>

-----------------------------------------------------------------------------
(* saveToFile, save                                                         *)

(* The entries are copied under the read lock.                              *)
Snapshot(w) ==
    /\ pc[w] = "snapshot"
    /\ snap' = [snap EXCEPT ![w] = mem]
    /\ Goto(w, "open")
    /\ UNCHANGED <<kind, mem, late, dir, content, fd, durable, failed>>

TargetInPlace == "json"                                             \* mutant

(* Windows are written in place, the others to a .tmp file first.           *)
Target == IF kind = "maintenance" THEN "json" ELSE "tmp"

Free == {i \in Inodes : /\ \A name \in DOMAIN dir : dir[name] # i
                        /\ \A w \in Writers : fd[w] # i}

(* os.WriteFile opens the file, truncating it if it exists, ...             *)
OpenFile(w) ==
    /\ pc[w] = "open"
    /\ \E i \in IF dir[Target] # NoInode THEN {dir[Target]} ELSE {CHOOSE f \in Free : TRUE} :
          /\ dir' = [dir EXCEPT ![Target] = i]
          /\ content' = [content EXCEPT ![i] = Empty]
          /\ fd' = [fd EXCEPT ![w] = i]
    /\ Goto(w, "write")
    /\ UNCHANGED <<kind, mem, late, snap, durable, failed>>

(* ... and writes from the start of it: over what another goroutine wrote   *)
(* since, whose longer text shows behind a shorter one.                     *)
Written(old, new) == IF old \in {Empty, new} THEN {new} ELSE {new, Garbled}

WriteFile(w) ==
    /\ pc[w] = "write"
    /\ \E text \in Written(content[fd[w]], snap[w]) :
          content' = [content EXCEPT ![fd[w]] = text]
    /\ fd' = [fd EXCEPT ![w] = NoInode]
    /\ IF Target = "json"
       THEN Goto(w, "idle") /\ durable' = snap[w] /\ failed' = FALSE
       ELSE Goto(w, "rename") /\ UNCHANGED <<durable, failed>>
    /\ UNCHANGED <<kind, mem, late, dir, snap>>

(* The disk is full, or the file is not writable: the error is logged.      *)
SaveFails(w) ==
    /\ DiskFails
    /\ \/ pc[w] = "open" /\ UNCHANGED content
       \/ /\ pc[w] = "write"
          /\ \E text \in {content[fd[w]], Garbled} :
                content' = [content EXCEPT ![fd[w]] = text]
    /\ fd' = [fd EXCEPT ![w] = NoInode]
    /\ Goto(w, "idle")
    /\ failed' = TRUE
    /\ UNCHANGED <<kind, mem, late, dir, snap, durable>>

(* os.Rename; the .tmp file may be gone, renamed by another goroutine.      *)
Rename(w) ==
    /\ pc[w] = "rename"
    /\ IF dir["tmp"] # NoInode
       THEN /\ dir' = [dir EXCEPT !["json"] = dir["tmp"], !["tmp"] = NoInode]
            /\ durable' = snap[w]
            /\ failed' = FALSE
       ELSE failed' = TRUE /\ UNCHANGED <<dir, durable>>
    /\ Goto(w, "idle")
    /\ UNCHANGED <<kind, mem, late, content, snap, fd>>

-----------------------------------------------------------------------------
LoadedUnparsed ==                                                   \* mutant
    IF dir["json"] = NoInode THEN Nothing ELSE content[dir["json"]]

(* loadFromFile, load: a file that does not parse is ignored, and so are    *)
(* expired entries.                                                         *)
Loaded ==
    IF dir["json"] = NoInode \/ content[dir["json"]] \in {Empty, Garbled}
    THEN Nothing
    ELSE Live(content[dir["json"]])

Restart ==
    /\ mem' = Loaded
    /\ pc' = [w \in Writers |-> "idle"]
    /\ snap' = [w \in Writers |-> Nothing]
    /\ fd' = [w \in Writers |-> NoInode]
    /\ durable' = mem'
    /\ failed' = FALSE
    /\ UNCHANGED <<kind, late, dir, content>>

-----------------------------------------------------------------------------
Save(w) == Snapshot(w) \/ OpenFile(w) \/ WriteFile(w) \/ SaveFails(w) \/ Rename(w)

Next ==
    \/ \E w \in Writers, e \in Entries : Add(w, e) \/ Update(w, e) \/ Delete(w, e)
    \/ \E w \in Writers : Save(w)
    \/ Prune
    \/ TimePasses
    \/ Restart

Spec == Init /\ [][Next]_vars

-----------------------------------------------------------------------------
(* Properties                                                               *)

(* When no save is under way and the last one succeeded, a restart brings   *)
(* back every entry that counts and none that was deleted: pruning without  *)
(* a save loses nothing, and no older snapshot overwrites a newer one.      *)
FileMatchesMemory ==
    (\A w \in Writers : pc[w] = "idle") /\ ~failed => Loaded = Live(mem)

(* A file replaced by renaming survives a crash at any step of a save and a *)
(* failed write: a restart brings back the entries of the last save that    *)
(* succeeded.                                                               *)
KeepsLastSave == Restart /\ kind # "maintenance" => mem' = Live(durable)

RestartLosesNoSave == [][KeepsLastSave]_vars
=============================================================================
