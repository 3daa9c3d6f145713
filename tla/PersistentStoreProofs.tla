------------------------ MODULE PersistentStoreProofs ------------------------
(* Proofs about PersistentStore: for every set of entries and each of the   *)
(* four stores, as long as no two saves overlap.                            *)
EXTENDS PersistentStore, TLAPS

(* Saves do not overlap.  The code does not see to it: the run              *)
(* stores_overlap shows what happens without.                               *)
OneWriter == \A v, w \in Writers : v = w

(* There is an entry to speak of, and room for a second file.               *)
Room == /\ ConstantsOK
        /\ Entries # {}
        /\ NoInode \notin Inodes
        /\ \E i, j \in Inodes : i # j

-----------------------------------------------------------------------------
(* Entries that count                                                       *)

LEMMA LiveIsMap ==
  ASSUME NEW m \in Map
  PROVE  Live(m) \in Map /\ Live(Live(m)) = Live(m)
<1>1. Live(m) \in Map
  BY DEF Live, Map, Value, Expired
<1>2. \A e \in Entries : Live(m)[e] = IF Expired(m, e) THEN None ELSE m[e]
  BY DEF Live
<1>3. \A e \in Entries : ~Expired(Live(m), e)
  BY <1>2 DEF Expired, None
<1> QED
  BY <1>1, <1>3 DEF Live, Map

LEMMA NothingIsLive == Nothing \in Map /\ Live(Nothing) = Nothing
  BY DEF Nothing, Map, Value, Live, Expired, None

(* A file with entries is no empty and no garbled one.                      *)
LEMMA MapsParse ==
  ASSUME Room, NEW m \in Map
  PROVE  m # Empty /\ m # Garbled
<1>1. PICK e \in Entries : TRUE
  BY DEF Room
<1>2. m[e] \in {"short", "long", "none"}
  BY DEF Map, Value, None
<1>3. Empty[e] = "empty" /\ Garbled[e] = "garbled"
  BY DEF Empty, Garbled
<1> QED
  BY <1>2, <1>3

(* What two maps agree on now, they agree on later.                         *)
LEMMA LiveAges ==
  ASSUME NEW m \in Map, NEW n \in Map, Live(m) = Live(n), TimePasses
  PROVE  Live(m)' = Live(n)'
<1>1. late = FALSE /\ kind' = kind
  BY DEF TimePasses
<1>2. Live(m) = m /\ Live(n) = n
  BY <1>1 DEF Live, Expired, Map
<1> QED
  BY <1>2

-----------------------------------------------------------------------------
(* The files                                                                *)

Saving(w) == pc[w] \in {"open", "write", "rename"}

(* The two names never refer to one file.  A save is about to put down what *)
(* counts in memory; what it writes to is the target, emptied; what it      *)
(* renames is complete.                                                     *)
SavesInOrder ==
    /\ dir["json"] = dir["tmp"] => dir["json"] = NoInode
    /\ \A w \in Writers :
          /\ Saving(w) => Live(snap[w]) = Live(mem)
          /\ pc[w] # "write" => fd[w] = NoInode
          /\ pc[w] = "write" => /\ fd[w] = dir[Target] /\ fd[w] \in Inodes
                                /\ content[fd[w]] = Empty
          /\ pc[w] = "rename" => /\ kind # "maintenance" /\ dir["tmp"] \in Inodes
                                 /\ content[dir["tmp"]] = snap[w]

FileIsGood == kind # "maintenance" => Loaded = Live(durable)

StoreInv == TypeOK /\ SavesInOrder /\ FileMatchesMemory /\ FileIsGood

LEMMA LoadedIsMap ==
  ASSUME TypeOK
  PROVE  Loaded \in Map /\ Live(Loaded) = Loaded
<1>1. CASE dir["json"] = NoInode \/ content[dir["json"]] \in {Empty, Garbled}
  BY <1>1, NothingIsLive DEF Loaded
<1>2. CASE ~(dir["json"] = NoInode \/ content[dir["json"]] \in {Empty, Garbled})
  <2>1. dir["json"] \in Inodes
    BY <1>2 DEF TypeOK
  <2>2. content[dir["json"]] \in Map
    BY <1>2, <2>1 DEF TypeOK, File
  <2> QED
    BY <1>2, <2>2, LiveIsMap DEF Loaded
<1> QED
  BY <1>1, <1>2

(* A change in memory touches no file.                                      *)
LEMMA ChangeKeeps ==
  ASSUME OneWriter, StoreInv, NEW w \in Writers, NEW new \in Map, Change(w, new)
  PROVE  StoreInv'
<1>1. /\ pc[w] = "idle" /\ mem' = new /\ pc' = [pc EXCEPT ![w] = "snapshot"]
      /\ UNCHANGED <<kind, late, dir, content, snap, fd, durable, failed>>
  BY DEF Change, Goto
<1>2. TypeOK'
  BY <1>1 DEF StoreInv, TypeOK
<1>3. pc'[w] = "snapshot" /\ \A v \in Writers : v = w
  BY <1>1 DEF StoreInv, TypeOK, OneWriter
<1>4. SavesInOrder'
  BY <1>1, <1>3 DEF StoreInv, SavesInOrder, Saving, Target
<1>5. FileMatchesMemory'
  BY <1>3 DEF FileMatchesMemory
<1>6. FileIsGood'
  BY <1>1 DEF StoreInv, FileIsGood, Loaded, Live, Expired
<1> QED
  BY <1>2, <1>4, <1>5, <1>6 DEF StoreInv

LEMMA OpenFileKeeps ==
  ASSUME OneWriter, Room, StoreInv, NEW w \in Writers, OpenFile(w)
  PROVE  StoreInv'
<1> TypeOK /\ dir \in [{"json", "tmp"} -> Inodes \cup {NoInode}] /\ Target \in {"json", "tmp"}
  BY DEF StoreInv, TypeOK, Target
<1>1. /\ pc[w] = "open" /\ pc' = [pc EXCEPT ![w] = "write"]
      /\ UNCHANGED <<kind, mem, late, snap, durable, failed>>
  BY DEF OpenFile, Goto
<1>2. PICK i \in IF dir[Target] # NoInode THEN {dir[Target]} ELSE {CHOOSE f \in Free : TRUE} :
          /\ dir' = [dir EXCEPT ![Target] = i]
          /\ content' = [content EXCEPT ![i] = Empty]
          /\ fd' = [fd EXCEPT ![w] = i]
  BY DEF OpenFile
<1>3. i \in Inodes /\ \A name \in {"json", "tmp"} : name # Target => dir[name] # i
  <2>1. CASE dir[Target] # NoInode
    BY <1>2, <2>1 DEF StoreInv, SavesInOrder, Target
  <2>2. CASE dir[Target] = NoInode
    <3>1. \A v \in Writers : fd[v] = NoInode
      BY <1>1 DEF OneWriter, StoreInv, SavesInOrder
    <3>2. \E f \in Inodes : \A name \in {"json", "tmp"} : dir[name] # f
      BY <2>2 DEF Room, Target
    <3>3. Free # {}
      BY <3>1, <3>2 DEF Free, Room
    <3>4. i \in Free
      BY <1>2, <2>2, <3>3
    <3> QED
      BY <3>4 DEF Free
  <2> QED
    BY <2>1, <2>2
<1>4. TypeOK'
  <2>1. Empty \in File
    BY DEF File
  <2> QED
    BY <1>1, <1>2, <1>3, <2>1 DEF TypeOK
<1>5. Target' = Target /\ \A v \in Writers : v = w
  BY <1>1 DEF Target, OneWriter
<1>6. SavesInOrder'
  <2>1. pc'[w] = "write" /\ fd'[w] = i /\ dir'[Target] = i /\ content'[i] = Empty
    BY <1>1, <1>2, <1>3 DEF TypeOK
  <2>2. dir'["json"] # dir'["tmp"]
    BY <1>2, <1>3 DEF Target
  <2>3. Live(snap[w])' = Live(mem)'
    BY <1>1 DEF StoreInv, SavesInOrder, Saving, Live, Expired
  <2> QED
    BY <1>3, <1>5, <2>1, <2>2, <2>3 DEF SavesInOrder
<1>7. FileMatchesMemory'
  BY <1>1 DEF FileMatchesMemory, TypeOK
<1>8. FileIsGood'
  <2> SUFFICES ASSUME kind # "maintenance" PROVE FileIsGood'
    BY <1>1 DEF FileIsGood
  <2>1. dir'["json"] = dir["json"] /\ dir["json"] # i
    BY <1>2, <1>3 DEF Target
  <2>2. dir["json"] # NoInode => content'[dir["json"]] = content[dir["json"]]
    BY <1>2, <2>1 DEF TypeOK
  <2> QED
    BY <1>1, <2>1, <2>2 DEF StoreInv, FileIsGood, Loaded, Live, Expired
<1> QED
  BY <1>4, <1>6, <1>7, <1>8 DEF StoreInv

LEMMA EditKeeps ==
  ASSUME OneWriter, StoreInv, NEW w \in Writers, NEW e \in Entries,
         Add(w, e) \/ Update(w, e) \/ Delete(w, e)
  PROVE  StoreInv'
<1> mem \in Map
  BY DEF StoreInv, TypeOK
<1>1. \A value \in Value : [mem EXCEPT ![e] = value] \in Map
  BY DEF Map
<1>2. {"short", "long", None} \subseteq Value /\ Choice \subseteq {"short", "long"}
  BY DEF Value, Choice
<1>3. CASE Add(w, e) \/ Update(w, e)
  <2>1. \E value \in Value : Change(w, [mem EXCEPT ![e] = value])
    BY <1>2, <1>3 DEF Add, Update
  <2> QED
    BY <1>1, <2>1, ChangeKeeps
<1>4. CASE Delete(w, e)
  <2>1. [mem EXCEPT ![e] = None] \in Map
    BY <1>1, <1>2
  <2>2. Live([mem EXCEPT ![e] = None]) \in Map
    BY <2>1, LiveIsMap
  <2>3. \E new \in Map : Change(w, new)
    BY <1>4, <2>1, <2>2 DEF Delete
  <2> QED
    BY <2>3, ChangeKeeps
<1> QED
  BY <1>3, <1>4

(* What has expired is dropped from memory and not from the file: it counts *)
(* in neither.                                                              *)
LEMMA PruneKeeps ==
  ASSUME StoreInv, Prune
  PROVE  StoreInv'
<1>1. /\ mem' = Live(mem)
      /\ UNCHANGED <<kind, late, dir, content, pc, snap, fd, durable, failed>>
  BY DEF Prune
<1>2. mem' \in Map /\ Live(mem') = Live(mem)
  BY <1>1, LiveIsMap DEF StoreInv, TypeOK
<1>3. Live(mem)' = Live(mem)
  BY <1>1, <1>2 DEF Live, Expired
<1>4. TypeOK'
  BY <1>1, <1>2 DEF StoreInv, TypeOK
<1>5. \A w \in Writers : Live(snap[w])' = Live(snap[w])
  BY <1>1 DEF Live, Expired
<1>6. SavesInOrder'
  BY <1>1, <1>3, <1>5 DEF StoreInv, SavesInOrder, Saving, Target
<1>7. Loaded' = Loaded /\ Live(durable)' = Live(durable)
  BY <1>1 DEF Loaded, Live, Expired
<1>8. FileMatchesMemory' /\ FileIsGood'
  BY <1>1, <1>3, <1>7 DEF StoreInv, FileMatchesMemory, FileIsGood
<1> QED
  BY <1>4, <1>6, <1>8 DEF StoreInv

LEMMA TimeKeeps ==
  ASSUME StoreInv, TimePasses
  PROVE  StoreInv'
<1>1. UNCHANGED <<kind, mem, dir, content, pc, snap, fd, durable, failed>> /\ late' = TRUE /\ ~late
  BY DEF TimePasses
<1>2. TypeOK'
  BY <1>1 DEF StoreInv, TypeOK
<1>3. ASSUME NEW m \in Map PROVE Live(m) = m
  BY <1>1, <1>3 DEF Live, Expired, Map
<1>4. SavesInOrder'
  <2>1. ASSUME NEW w \in Writers, Saving(w) PROVE Live(snap[w])' = Live(mem)'
    <3>1. snap[w] \in Map /\ mem \in Map /\ snap[w] = mem
      BY <1>3, <2>1 DEF StoreInv, TypeOK, SavesInOrder
    <3> QED
      BY <1>1, <3>1
  <2> QED
    BY <1>1, <2>1 DEF StoreInv, SavesInOrder, Saving, Target
<1> DEFINE Parses == ~(dir["json"] = NoInode \/ content[dir["json"]] \in {Empty, Garbled})
<1>5. ASSUME NEW m \in Map, Loaded = Live(m)
      PROVE  Loaded' = Live(m)'
  <2>1. Loaded = m
    BY <1>3, <1>5
  <2>2. CASE Parses
    <3>1. dir["json"] \in Inodes /\ content[dir["json"]] \in Map
      BY <2>2 DEF StoreInv, TypeOK, File
    <3>2. content[dir["json"]] = m
      BY <1>3, <2>1, <2>2, <3>1 DEF Loaded
    <3> QED
      BY <1>1, <2>2, <3>2 DEF Loaded
  <2>3. CASE ~Parses
    <3>1. m = Nothing /\ Loaded' = Nothing
      BY <1>1, <2>1, <2>3 DEF Loaded
    <3>2. Live(m)' = Nothing
      BY <3>1 DEF Live, Expired, Nothing, None
    <3> QED
      BY <3>1, <3>2
  <2> QED
    BY <2>2, <2>3
<1>6. FileMatchesMemory'
  <2> SUFFICES ASSUME (\A w \in Writers : pc[w] = "idle") /\ ~failed
               PROVE  Loaded' = Live(mem)'
    BY <1>1 DEF FileMatchesMemory
  <2>1. Loaded = Live(mem) /\ mem \in Map
    BY DEF StoreInv, FileMatchesMemory, TypeOK
  <2> QED
    BY <1>1, <1>5, <2>1
<1>7. FileIsGood'
  <2> SUFFICES ASSUME kind # "maintenance" PROVE Loaded' = Live(durable)'
    BY <1>1 DEF FileIsGood
  <2>1. Loaded = Live(durable) /\ durable \in Map
    BY DEF StoreInv, FileIsGood, TypeOK
  <2> QED
    BY <1>1, <1>5, <2>1
<1> QED
  BY <1>2, <1>4, <1>6, <1>7 DEF StoreInv

-----------------------------------------------------------------------------
(* The steps of a save                                                      *)

LEMMA SnapshotKeeps ==
  ASSUME OneWriter, StoreInv, NEW w \in Writers, Snapshot(w)
  PROVE  StoreInv'
<1>1. /\ pc[w] = "snapshot" /\ pc' = [pc EXCEPT ![w] = "open"]
      /\ snap' = [snap EXCEPT ![w] = mem]
      /\ UNCHANGED <<kind, mem, late, dir, content, fd, durable, failed>>
  BY DEF Snapshot, Goto
<1>2. TypeOK'
  BY <1>1 DEF StoreInv, TypeOK
<1>3. pc'[w] = "open" /\ snap'[w] = mem /\ \A v \in Writers : v = w
  BY <1>1 DEF StoreInv, TypeOK, OneWriter
<1>4. SavesInOrder'
  BY <1>1, <1>3 DEF StoreInv, SavesInOrder, Saving, Target
<1>5. FileMatchesMemory'
  BY <1>3 DEF FileMatchesMemory
<1>6. FileIsGood'
  BY <1>1 DEF StoreInv, FileIsGood, Loaded, Live, Expired
<1> QED
  BY <1>2, <1>4, <1>5, <1>6 DEF StoreInv

(* What is put down is whole: the file was emptied for it.                  *)
LEMMA WriteKeeps ==
  ASSUME OneWriter, Room, StoreInv, NEW w \in Writers, WriteFile(w)
  PROVE  StoreInv'
<1> TypeOK /\ SavesInOrder
  BY DEF StoreInv
<1>1. /\ pc[w] = "write" /\ fd[w] = dir[Target] /\ fd[w] \in Inodes
      /\ content[fd[w]] = Empty /\ Live(snap[w]) = Live(mem) /\ snap[w] \in Map
      /\ dir["json"] # dir["tmp"]
  BY DEF WriteFile, SavesInOrder, Saving, TypeOK, Target, Room
<1>2. /\ content' = [content EXCEPT ![fd[w]] = snap[w]]
      /\ fd' = [fd EXCEPT ![w] = NoInode]
      /\ UNCHANGED <<kind, mem, late, dir, snap>>
  BY <1>1 DEF WriteFile, Written
<1>3. content'[fd[w]] = snap[w] /\ content' \in [Inodes -> File]
  BY <1>1, <1>2 DEF TypeOK, File
<1>4. fd'[w] = NoInode /\ fd' \in [Writers -> Inodes \cup {NoInode}] /\ \A v \in Writers : v = w
  BY <1>2 DEF TypeOK, OneWriter
<1>5. Live(snap[w])' = Live(snap[w]) /\ Live(mem)' = Live(mem)
  BY <1>2 DEF Live, Expired
<1>6. CASE kind = "maintenance"
  <2>1. /\ pc' = [pc EXCEPT ![w] = "idle"] /\ durable' = snap[w] /\ failed' = FALSE
        /\ fd[w] = dir["json"]
    BY <1>1, <1>6 DEF WriteFile, Target, Goto
  <2>2. pc'[w] = "idle"
    BY <2>1 DEF TypeOK
  <2>3. TypeOK'
    BY <1>1, <1>2, <1>3, <1>4, <2>1 DEF TypeOK
  <2>4. SavesInOrder'
    BY <1>1, <1>2, <1>4, <2>2 DEF SavesInOrder, Saving
  <2>5. Loaded' = Live(mem)'
    <3>1. dir'["json"] # NoInode /\ content'[dir'["json"]] = snap[w]
      BY <1>1, <1>2, <1>3, <2>1 DEF Room
    <3>2. snap[w] # Empty /\ snap[w] # Garbled
      BY <1>1, MapsParse
    <3>3. (content[dir["json"]])' \notin {Empty, Garbled}
      BY <3>1, <3>2
    <3>4. Loaded' = Live(content[dir["json"]])'
      BY <3>1, <3>3 DEF Loaded
    <3>5. Live(content[dir["json"]])' = Live(snap[w])'
      BY <1>2, <3>1 DEF Live, Expired
    <3> QED
      BY <1>1, <1>5, <3>4, <3>5
  <2>6. FileMatchesMemory' /\ FileIsGood'
    BY <1>2, <1>6, <2>5 DEF FileMatchesMemory, FileIsGood
  <2> QED
    BY <2>3, <2>4, <2>6 DEF StoreInv
<1>7. CASE kind # "maintenance"
  <2>1. /\ pc' = [pc EXCEPT ![w] = "rename"] /\ UNCHANGED <<durable, failed>>
        /\ fd[w] = dir["tmp"]
    BY <1>1, <1>7 DEF WriteFile, Target, Goto
  <2>2. pc'[w] = "rename"
    BY <2>1 DEF TypeOK
  <2>3. TypeOK'
    BY <1>1, <1>2, <1>3, <1>4, <2>1 DEF TypeOK
  <2>4. SavesInOrder'
    BY <1>1, <1>2, <1>3, <1>4, <1>5, <1>7, <2>1, <2>2 DEF SavesInOrder, Saving
  <2>5. FileMatchesMemory'
    BY <2>2 DEF FileMatchesMemory
  <2>6. dir["json"] # NoInode => content'[dir["json"]] = content[dir["json"]]
    BY <1>1, <1>2, <2>1 DEF TypeOK
  <2>7. FileIsGood'
    BY <1>2, <2>1, <2>6 DEF StoreInv, FileIsGood, Loaded, Live, Expired
  <2> QED
    BY <2>3, <2>4, <2>5, <2>7 DEF StoreInv
<1> QED
  BY <1>6, <1>7

LEMMA SaveFailsKeeps ==
  ASSUME OneWriter, Room, StoreInv, NEW w \in Writers, SaveFails(w)
  PROVE  StoreInv'
<1> TypeOK /\ SavesInOrder
  BY DEF StoreInv
<1>1. /\ pc[w] \in {"open", "write"} /\ pc' = [pc EXCEPT ![w] = "idle"] /\ failed' = TRUE
      /\ fd' = [fd EXCEPT ![w] = NoInode]
      /\ UNCHANGED <<kind, mem, late, dir, snap, durable>>
  BY DEF SaveFails, Goto
<1>2. /\ content' \in [Inodes -> File]
      /\ kind # "maintenance" /\ dir["json"] # NoInode =>
           content'[dir["json"]] = content[dir["json"]]
  <2>1. CASE pc[w] = "open"
    BY <2>1 DEF SaveFails, TypeOK
  <2>2. CASE pc[w] = "write"
    <3>1. fd[w] = dir[Target] /\ fd[w] \in Inodes /\ content[fd[w]] \in File
      BY <2>2 DEF SavesInOrder, TypeOK
    <3>2. PICK text \in File : content' = [content EXCEPT ![fd[w]] = text]
      BY <2>2, <3>1 DEF SaveFails, File
    <3> QED
      BY <3>1, <3>2 DEF TypeOK, SavesInOrder, Target
  <2> QED
    BY <1>1, <2>1, <2>2
<1>3. pc'[w] = "idle" /\ fd'[w] = NoInode /\ \A v \in Writers : v = w
  BY <1>1 DEF TypeOK, OneWriter
<1>4. TypeOK'
  BY <1>1, <1>2 DEF TypeOK
<1>5. SavesInOrder'
  BY <1>1, <1>3 DEF SavesInOrder, Saving
<1>6. FileMatchesMemory'
  BY <1>1 DEF FileMatchesMemory
<1>7. FileIsGood'
  BY <1>1, <1>2 DEF StoreInv, FileIsGood, Loaded, Live, Expired
<1> QED
  BY <1>4, <1>5, <1>6, <1>7 DEF StoreInv

LEMMA RenameKeeps ==
  ASSUME OneWriter, Room, StoreInv, NEW w \in Writers, Rename(w)
  PROVE  StoreInv'
<1> TypeOK /\ SavesInOrder
  BY DEF StoreInv
<1>1. /\ pc[w] = "rename" /\ kind # "maintenance" /\ dir["tmp"] \in Inodes
      /\ content[dir["tmp"]] = snap[w] /\ Live(snap[w]) = Live(mem) /\ snap[w] \in Map
      /\ dir["tmp"] # NoInode /\ fd[w] = NoInode
  BY DEF Rename, SavesInOrder, Saving, TypeOK, Room
<1>2. /\ pc' = [pc EXCEPT ![w] = "idle"]
      /\ dir' = [dir EXCEPT !["json"] = dir["tmp"], !["tmp"] = NoInode]
      /\ durable' = snap[w] /\ failed' = FALSE
      /\ UNCHANGED <<kind, mem, late, content, snap, fd>>
  BY <1>1 DEF Rename, Goto
<1>3. /\ pc'[w] = "idle" /\ \A v \in Writers : v = w
      /\ dir'["json"] = dir["tmp"] /\ dir'["tmp"] = NoInode
      /\ dir' \in [{"json", "tmp"} -> Inodes \cup {NoInode}]
  BY <1>1, <1>2 DEF TypeOK, OneWriter
<1>4. TypeOK'
  BY <1>1, <1>2, <1>3 DEF TypeOK
<1>5. SavesInOrder'
  BY <1>1, <1>2, <1>3 DEF SavesInOrder, Saving
<1>6. Loaded' = Live(snap[w])'
  <2>1. snap[w] # Empty /\ snap[w] # Garbled
    BY <1>1, MapsParse
  <2>2. dir'["json"] # NoInode /\ (content[dir["json"]])' = snap[w]
    BY <1>1, <1>2, <1>3
  <2>3. Loaded' = Live(content[dir["json"]])'
    BY <2>1, <2>2 DEF Loaded
  <2> QED
    BY <1>2, <2>2, <2>3 DEF Live, Expired
<1>7. Live(snap[w])' = Live(mem)' /\ Live(snap[w])' = Live(durable)'
  BY <1>1, <1>2 DEF Live, Expired
<1> QED
  BY <1>4, <1>5, <1>6, <1>7 DEF StoreInv, FileMatchesMemory, FileIsGood

LEMMA RestartKeeps ==
  ASSUME Room, StoreInv, Restart
  PROVE  StoreInv'
<1> TypeOK /\ SavesInOrder
  BY DEF StoreInv
<1>1. mem' = Loaded /\ durable' = Loaded /\ failed' = FALSE
      /\ UNCHANGED <<kind, late, dir, content>>
  BY DEF Restart
<1>2. Loaded \in Map /\ Live(Loaded) = Loaded
  BY LoadedIsMap
<1>3. pc' = [v \in Writers |-> "idle"] /\ fd' = [v \in Writers |-> NoInode]
      /\ snap' = [v \in Writers |-> Nothing]
  BY DEF Restart
<1>4. TypeOK'
  BY <1>1, <1>2, <1>3, NothingIsLive DEF TypeOK
<1>5. SavesInOrder'
  BY <1>1, <1>3 DEF SavesInOrder, Saving
<1>6. Loaded' = Loaded /\ Live(mem)' = Live(Loaded) /\ Live(durable)' = Live(Loaded)
  BY <1>1 DEF Loaded, Live, Expired
<1> QED
  BY <1>2, <1>4, <1>5, <1>6 DEF StoreInv, FileMatchesMemory, FileIsGood

-----------------------------------------------------------------------------
(* Every behaviour                                                          *)

LEMMA StoreStarts ==
  ASSUME Room, Init
  PROVE  StoreInv
<1>1. TypeOK
  BY NothingIsLive DEF Init, TypeOK, File
<1>2. SavesInOrder
  BY DEF Init, SavesInOrder, Saving
<1>3. Loaded = Nothing /\ Live(mem) = Nothing /\ Live(durable) = Nothing
  BY NothingIsLive DEF Init, Loaded
<1> QED
  BY <1>1, <1>2, <1>3 DEF StoreInv, FileMatchesMemory, FileIsGood

LEMMA StoreStays ==
  ASSUME StoreInv, UNCHANGED vars
  PROVE  StoreInv'
<1>1. UNCHANGED <<kind, mem, late, dir, content, pc, snap, fd, durable, failed>>
  BY DEF vars
<1>2. Loaded' = Loaded /\ Live(mem)' = Live(mem) /\ Live(durable)' = Live(durable)
  BY <1>1 DEF Loaded, Live, Expired
<1>3. \A w \in Writers : Live(snap[w])' = Live(snap[w])
  BY <1>1 DEF Live, Expired
<1>4. SavesInOrder'
  BY <1>1, <1>2, <1>3 DEF StoreInv, SavesInOrder, Saving, Target
<1> QED
  BY <1>1, <1>2, <1>4 DEF StoreInv, TypeOK, FileMatchesMemory, FileIsGood

LEMMA NextKeepsStore ==
  ASSUME OneWriter, Room, StoreInv, [Next]_vars
  PROVE  StoreInv'
<1>1. ASSUME NEW w \in Writers, NEW e \in Entries, Add(w, e) \/ Update(w, e) \/ Delete(w, e)
      PROVE  StoreInv'
  BY <1>1, EditKeeps
<1>2. ASSUME NEW w \in Writers, Save(w) PROVE StoreInv'
  BY <1>2, SnapshotKeeps, OpenFileKeeps, WriteKeeps, SaveFailsKeeps, RenameKeeps DEF Save
<1>3. CASE Prune
  BY <1>3, PruneKeeps
<1>4. CASE TimePasses
  BY <1>4, TimeKeeps
<1>5. CASE Restart
  BY <1>5, RestartKeeps
<1>6. CASE UNCHANGED vars
  BY <1>6, StoreStays
<1> QED
  BY <1>1, <1>2, <1>3, <1>4, <1>5, <1>6 DEF Next

LEMMA StoreInvariance ==
  ASSUME OneWriter, Room
  PROVE  Spec => []StoreInv
<1>1. Init => StoreInv
  BY StoreStarts
<1>2. StoreInv /\ [Next]_vars => StoreInv'
  BY NextKeepsStore
<1> QED
  BY <1>1, <1>2, PTL DEF Spec

(* As long as saves do not overlap, and whenever none is under way and none *)
(* has failed since, the file of each store holds exactly the entries in    *)
(* memory that count: an entry dropped from memory because its time has     *)
(* passed, which is not saved (IsInMaintenance, IsSnoozed), is not missed.  *)
THEOREM SavesAreKept ==
  ASSUME OneWriter, Room
  PROVE  Spec => []FileMatchesMemory
<1>1. StoreInv => FileMatchesMemory
  BY DEF StoreInv
<1> QED
  BY <1>1, StoreInvariance, PTL

(* As long as saves do not overlap, a restart between any two steps of a    *)
(* save (saveToFile, save), after any number of writes that failed, brings  *)
(* back what the last save that succeeded put down: for snoozes,            *)
(* acknowledgments and schedules, whose files are replaced by renaming.     *)
THEOREM RestartsLoseNoSave ==
  ASSUME OneWriter, Room
  PROVE  Spec => RestartLosesNoSave
<1>1. StoreInv /\ [Next]_vars => [KeepsLastSave]_vars
  BY DEF StoreInv, FileIsGood, KeepsLastSave, Restart
<1> QED
  BY <1>1, StoreInvariance, PTL DEF Spec, RestartLosesNoSave
=============================================================================
