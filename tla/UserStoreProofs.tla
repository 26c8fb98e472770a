--------------------------- MODULE UserStoreProofs ---------------------------
(***************************************************************************)
(* Proofs about UserStore for any users and request handlers and any       *)
(* number of edits, reads of the backup and I/O errors.                    *)
(***************************************************************************)
EXTENDS UserStore, TLAPS

-----------------------------------------------------------------------------
(* The inductive invariant.                                                *)

\* A handler that saves holds saveMu and has a snapshot, and one that is about
\* to install has read a list.
LocalInv ==
    \A h \in Handlers :
        /\ hpc[h] \in {"backup", "promote"} => owner = h /\ snap.version \in Versions
        /\ hpc[h] \in {"install", "installBackup"} => got[h] \in Versions

\* Without a read of the backup that an edit has not got past, nobody saves, so
\* that users.json is the operator's: it is the last list, or the file of an
\* edit in progress.
OperatorInv ==
    ~spoiled =>
        /\ ~RollingBack
        /\ \/ editing = "none" /\ main = Latest
           \/ editing = "main" /\ main = Torn
           \/ editing = "away" /\ main = Absent

\* The modification times on record and in the locals of requests are not later
\* than that of users.json, and where one is the same the list is the last one.
StampInv ==
    ~spoiled =>
        /\ usersMod <= stamp
        /\ usersMod = stamp => mem = Latest
        /\ \A h \in Handlers : seen[h] <= stamp
        /\ \A h \in Handlers : hpc[h] = "install" /\ seen[h] = stamp => got[h] = Latest

\* Only a read of the backup spoils anything.
SpoiledInv == rollbacks = 0 => ~spoiled

\* A list that was read and not yet installed is not older than the one in
\* memory, unless another handler installed meanwhile.
ReadInv ==
    rollbacks = 0 =>
        \A h \in Handlers \ overtaken : hpc[h] = "install" => got[h] >= mem

Inv == TypeOK /\ LocalInv /\ OperatorInv /\ StampInv /\ SpoiledInv /\ ReadInv

-----------------------------------------------------------------------------
(* The steps, by what they leave alone.                                    *)

\* The steps of the operator.
Operate == EditByRename \/ EditBegins \/ EditMovesAway \/ EditEnds

\* The steps of a request that write users.json.
Saves(h) == SaveBegins(h) \/ KeepBackup(h) \/ Promote(h) \/ SaveFails(h)

\* The steps of a request up to its read, and those of its body.
Reads(h) == Stat(h) \/ Check(h) \/ ReadMain(h) \/ ReadBackup(h) \/ Respond(h)

\* Every step is one of these.
LEMMA NextCases ==
    ASSUME [Next]_vars
    PROVE  \/ Operate
           \/ \E h \in Handlers : Saves(h)
           \/ \E h \in Handlers : Reads(h)
           \/ \E h \in Handlers : Install(h)
           \/ \E h \in Handlers, u \in Users : Accumulate(h, u)
           \/ UNCHANGED vars
BY DEF Next, RefreshUsers, Operate, Saves, Reads

\* An edit adds a list and changes no earlier one.
LEMMA EditedAppends ==
    ASSUME lists \in Seq(SUBSET Users), Edited
    PROVE  /\ lists' \in Seq(SUBSET Users)
           /\ Len(lists') = Len(lists) + 1
           /\ Latest' = Latest + 1 /\ Latest \in Nat
           /\ Versions \subseteq Versions' /\ Latest + 1 \in Versions'
           /\ \A v \in Versions : lists'[v] = lists[v]
<1>1. PICK list \in SUBSET Users : lists' = Append(lists, list)
  BY DEF Edited
<1>2. lists' \in Seq(SUBSET Users) /\ Len(lists') = Len(lists) + 1 /\ Len(lists) \in Nat
  BY <1>1
<1>3. \A v \in 1..Len(lists) : lists'[v] = lists[v]
  BY <1>1
<1> QED
  BY <1>2, <1>3 DEF Versions, Latest

\* The initial states satisfy the invariant.
LEMMA InvInit == Init => Inv
<1> SUFFICES ASSUME Init
             PROVE  Inv
  OBVIOUS
<1>1. PICK list \in SUBSET Users : lists = <<Users, list>>
  BY DEF Init
<1>2. lists \in Seq(SUBSET Users) /\ Len(lists) = 2
  BY <1>1
<1>3. Versions = 1..2 /\ Latest = 2
  BY <1>2 DEF Versions, Latest
<1>4. 0 \in 0..MaxRollbacks /\ 0 \in 0..MaxIOErrors
  BY UserStoreAssumption
<1>5. TypeOK
  <2>1. spoiled \in BOOLEAN
    BY DEF Init
  <2>2. /\ snap \in [version : Versions \cup {0}, mtime : 0..clock]
        /\ hpc \in [Handlers -> Steps] /\ seen \in [Handlers -> 0..clock]
        /\ got \in [Handlers -> Versions \cup {0}]
    BY <1>3 DEF Init, Steps, NoSnapshot
  <2>3. counted \in SUBSET lists[mem] /\ overtaken \in SUBSET Handlers
    BY DEF Init
  <2>4. /\ main \in Versions \cup {Absent, Torn} /\ bak \in Versions \cup {Absent, Torn}
        /\ clock \in Nat /\ stamp \in 0..clock /\ usersMod \in 0..clock /\ mem \in Versions
    BY <1>3 DEF Init
  <2> QED
    BY <1>2, <1>4, <2>1, <2>2, <2>3, <2>4 DEF Init, TypeOK
<1>6. LocalInv /\ OperatorInv /\ SpoiledInv /\ ReadInv
  BY <1>3 DEF Init, LocalInv, OperatorInv, RollingBack, SpoiledInv, ReadInv
<1>7. StampInv
  BY <1>3 DEF Init, StampInv
<1> QED
  BY <1>5, <1>6, <1>7 DEF Inv

-----------------------------------------------------------------------------
(* Every step keeps the types.                                             *)

\* More lists and a later clock leave everything else well typed.
LEMMA TypeGrows ==
    ASSUME TypeOK, lists' \in Seq(SUBSET Users), Versions \subseteq Versions',
           \A v \in Versions : lists'[v] = lists[v], clock' \in {clock, clock + 1}
    PROVE  /\ main \in Versions' \cup {Absent, Torn} /\ bak \in Versions' \cup {Absent, Torn}
           /\ clock' \in Nat /\ stamp \in 0..clock' /\ usersMod \in 0..clock'
           /\ clock' \in 0..clock'
           /\ mem \in Versions' /\ counted \in SUBSET lists'[mem]
           /\ snap \in [version : Versions' \cup {0}, mtime : 0..clock']
           /\ seen \in [Handlers -> 0..clock']
           /\ got \in [Handlers -> Versions' \cup {0}]
<1>1. clock \in Nat /\ 0..clock \subseteq 0..clock' /\ clock' \in Nat /\ clock' \in 0..clock'
  BY DEF TypeOK
<1> QED
  BY <1>1 DEF TypeOK

\* The same where no list is added.
LEMMA TypeTicks ==
    ASSUME TypeOK, UNCHANGED lists, clock' \in {clock, clock + 1}
    PROVE  /\ main \in Versions' \cup {Absent, Torn} /\ bak \in Versions' \cup {Absent, Torn}
           /\ clock' \in Nat /\ stamp \in 0..clock' /\ usersMod \in 0..clock'
           /\ clock' \in 0..clock'
           /\ mem \in Versions' /\ counted \in SUBSET lists'[mem]
           /\ snap \in [version : Versions' \cup {0}, mtime : 0..clock']
           /\ seen \in [Handlers -> 0..clock']
           /\ got \in [Handlers -> Versions' \cup {0}]
<1>1. lists' \in Seq(SUBSET Users) /\ Versions' = Versions
  BY DEF TypeOK, Versions
<1> QED
  BY <1>1, TypeGrows

\* An edit keeps the types.
LEMMA OperateType == Inv /\ Operate => TypeOK'
<1> SUFFICES ASSUME Inv, Operate
             PROVE  TypeOK'
  OBVIOUS
<1>0. TypeOK
  BY DEF Inv
<1>1. CASE EditByRename \/ EditEnds
  <2>1. /\ Edited /\ clock' = clock + 1 /\ spoiled' \in BOOLEAN
        /\ UNCHANGED <<save, memory, request, overtaken, rollbacks, ioErrors>>
    BY <1>1 DEF EditByRename, EditEnds
  <2>2. /\ lists' \in Seq(SUBSET Users) /\ Latest + 1 \in Versions'
        /\ Versions \subseteq Versions' /\ \A v \in Versions : lists'[v] = lists[v]
    BY <1>0, <2>1, EditedAppends DEF TypeOK
  <2>3. /\ main' \in {main, Latest + 1} /\ bak' \in {bak, Latest + 1}
        /\ stamp' \in {stamp, clock'} /\ editing' = "none"
    BY <1>1 DEF EditByRename, EditEnds
  <2>4. /\ main' \in Versions' \cup {Absent, Torn} /\ bak' \in Versions' \cup {Absent, Torn}
        /\ clock' \in Nat /\ stamp' \in 0..clock'
    BY <1>0, <2>1, <2>2, <2>3, TypeGrows
  <2>5. /\ usersMod' \in 0..clock'
        /\ mem' \in Versions' /\ counted' \in SUBSET lists'[mem']
        /\ snap' \in [version : Versions' \cup {0}, mtime : 0..clock']
        /\ seen' \in [Handlers -> 0..clock'] /\ got' \in [Handlers -> Versions' \cup {0}]
    BY <1>0, <2>1, <2>2, TypeGrows DEF save, memory, request
  <2> QED
    BY <1>0, <2>1, <2>2, <2>3, <2>4, <2>5 DEF TypeOK, save, memory, request
<1>2. CASE EditBegins \/ EditMovesAway
  <2>1. /\ clock' \in {clock, clock + 1} /\ stamp' \in {stamp, clock'}
        /\ main' \in {Absent, Torn} /\ editing' \in {"main", "away"}
        /\ UNCHANGED <<bak, lists, save, memory, request, history, ioErrors>>
    BY <1>2 DEF EditBegins, EditMovesAway
  <2>2. /\ bak' \in Versions' \cup {Absent, Torn}
        /\ clock' \in Nat /\ stamp' \in 0..clock' /\ usersMod' \in 0..clock'
        /\ mem' \in Versions' /\ counted' \in SUBSET lists'[mem']
        /\ snap' \in [version : Versions' \cup {0}, mtime : 0..clock']
        /\ seen' \in [Handlers -> 0..clock'] /\ got' \in [Handlers -> Versions' \cup {0}]
    BY <1>0, <2>1, TypeTicks DEF save, memory, request
  <2> QED
    BY <1>0, <2>1, <2>2 DEF TypeOK, save, memory, request, history
<1> QED
  BY <1>1, <1>2 DEF Operate

\* A save keeps the types: its snapshot is a list.
LEMMA SavesType ==
    ASSUME Inv, NEW h \in Handlers, Saves(h)
    PROVE  TypeOK'
<1>0. TypeOK /\ LocalInv
  BY DEF Inv
<1>1. Versions' = Versions /\ UNCHANGED <<lists, memory, seen, got, history>>
  BY DEF Saves, SaveBegins, KeepBackup, Promote, SaveFails, memory, history, Versions
<1>2. hpc' \in [Handlers -> Steps]
  BY <1>0 DEF Saves, SaveBegins, KeepBackup, Promote, SaveFails, Goto, TypeOK, Steps
<1>3. CASE SaveBegins(h)
  <2>1. /\ clock' = clock + 1 /\ owner' = h /\ snap' = [version |-> mem, mtime |-> clock']
        /\ UNCHANGED <<main, bak, stamp, editing, ioErrors>>
    BY <1>3 DEF SaveBegins
  <2>2. /\ main' \in Versions' \cup {Absent, Torn} /\ bak' \in Versions' \cup {Absent, Torn}
        /\ clock' \in Nat /\ stamp' \in 0..clock' /\ usersMod' \in 0..clock'
        /\ clock' \in 0..clock'
        /\ mem' \in Versions' /\ counted' \in SUBSET lists'[mem']
        /\ seen' \in [Handlers -> 0..clock'] /\ got' \in [Handlers -> Versions' \cup {0}]
    BY <1>0, <1>1, <2>1, TypeTicks DEF memory
  <2>3. snap' \in [version : Versions' \cup {0}, mtime : 0..clock']
    BY <1>1, <2>1, <2>2 DEF memory
  <2> QED
    BY <1>0, <1>1, <1>2, <2>1, <2>2, <2>3 DEF TypeOK, memory, history
<1>4. CASE KeepBackup(h)
  BY <1>0, <1>1, <1>2, <1>4 DEF KeepBackup, TypeOK, memory, history, save
<1>5. CASE Promote(h)
  <2>1. snap.version \in Versions /\ snap.mtime \in 0..clock
    BY <1>0, <1>5 DEF Promote, LocalInv, TypeOK
  <2>2. NoSnapshot \in [version : Versions \cup {0}, mtime : 0..clock]
    BY <1>0 DEF NoSnapshot, TypeOK
  <2> QED
    BY <1>0, <1>1, <1>2, <1>5, <2>1, <2>2 DEF Promote, TypeOK, memory, history
<1>6. CASE SaveFails(h)
  <2>1. NoSnapshot \in [version : Versions \cup {0}, mtime : 0..clock]
    BY <1>0 DEF NoSnapshot, TypeOK
  <2>2. ioErrors' \in 0..MaxIOErrors
    BY <1>0, <1>6, UserStoreAssumption DEF SaveFails, TypeOK
  <2> QED
    BY <1>0, <1>1, <1>2, <1>6, <2>1, <2>2 DEF SaveFails, TypeOK, memory, history
<1> QED
  BY <1>3, <1>4, <1>5, <1>6 DEF Saves

\* So does what a request does before and after.
LEMMA ReadsType ==
    ASSUME Inv, NEW h \in Handlers, Reads(h)
    PROVE  TypeOK'
<1>0. TypeOK
  BY DEF Inv
<1>1. Versions' = Versions /\ UNCHANGED <<file, save, memory, overtaken, ioErrors>>
  BY DEF Reads, Stat, Check, ReadMain, ReadBackup, Respond, history, file, Versions
<1>2. hpc' \in [Handlers -> Steps]
  BY <1>0 DEF Reads, Stat, Check, ReadMain, ReadBackup, Respond, Goto, TypeOK, Steps
<1>3. seen' \in [Handlers -> 0..clock]
  <2>1. seen \in [Handlers -> 0..clock] /\ stamp \in 0..clock /\ 0 \in 0..clock
    BY <1>0 DEF TypeOK
  <2> QED
    BY <2>1 DEF Reads, Stat, Check, ReadMain, ReadBackup, Respond
<1>4. got' \in [Handlers -> Versions \cup {0}]
  BY <1>0 DEF Reads, Stat, Check, ReadMain, ReadBackup, Respond, TypeOK, Usable
<1>5. rollbacks' \in 0..MaxRollbacks
  BY <1>0, UserStoreAssumption
     DEF Reads, Stat, Check, ReadMain, ReadBackup, Respond, history, TypeOK
<1>6. spoiled' \in BOOLEAN
  <2>1. spoiled \in BOOLEAN
    BY <1>0 DEF TypeOK
  <2>2. spoiled' = TRUE \/ spoiled' = spoiled
    BY DEF Reads, Stat, Check, ReadMain, ReadBackup, Respond, history
  <2> QED
    BY <2>1, <2>2
<1> QED
  BY <1>0, <1>1, <1>2, <1>3, <1>4, <1>5, <1>6 DEF TypeOK, file, save, memory

\* And what it installs: the counters are those of users of the new list.
LEMMA InstallType ==
    ASSUME Inv, NEW h \in Handlers, Install(h)
    PROVE  TypeOK'
<1>0. TypeOK /\ got[h] \in Versions
  BY DEF Inv, LocalInv, Install
<1>1. Versions' = Versions
  BY DEF Install, file, Versions
<1>2. hpc' \in [Handlers -> Steps]
  BY <1>0 DEF Install, Goto, TypeOK, Steps
<1>3. mem' \in Versions /\ usersMod' \in 0..clock /\ counted' \in SUBSET lists[mem']
  BY <1>0 DEF Install, TypeOK
<1> QED
  BY <1>0, <1>1, <1>2, <1>3 DEF Install, TypeOK, file, save

\* Every step keeps the types.
LEMMA TypeStep == Inv /\ [Next]_vars => TypeOK'
<1> SUFFICES ASSUME Inv, [Next]_vars
             PROVE  TypeOK'
  OBVIOUS
<1>1. ASSUME NEW h \in Handlers, NEW u \in Users, Accumulate(h, u)
      PROVE  TypeOK'
  <2>1. Versions' = Versions /\ counted' \in SUBSET lists[mem]
    BY <1>1 DEF Accumulate, Inv, TypeOK, file, Versions
  <2> QED
    BY <1>1, <2>1 DEF Accumulate, Inv, TypeOK, file, save, request, history
<1>2. CASE UNCHANGED vars
  <2>1. Versions' = Versions
    BY <1>2 DEF vars, file, Versions
  <2> QED
    BY <1>2, <2>1 DEF Inv, TypeOK, vars, file, save, memory, request, history
<1> QED
  BY <1>1, <1>2, OperateType, SavesType, ReadsType, InstallType, NextCases
-----------------------------------------------------------------------------
(* Every step keeps the other parts.                                       *)

\* The operator changes nothing of a request, and only adds lists.
LEMMA OperateKeeps ==
    ASSUME TypeOK, Operate
    PROVE  /\ Versions \subseteq Versions'
           /\ UNCHANGED <<save, memory, request, overtaken, rollbacks>>
<1>1. CASE EditByRename \/ EditEnds
  <2>1. Edited
    BY <1>1 DEF EditByRename, EditEnds
  <2> QED
    BY <1>1, <2>1, EditedAppends DEF EditByRename, EditEnds, TypeOK
<1>2. CASE EditBegins \/ EditMovesAway
  BY <1>2 DEF EditBegins, EditMovesAway, Versions, history
<1> QED
  BY <1>1, <1>2 DEF Operate

\* saveMu admits one handler at a time, and locals are set before they are used.
LEMMA LocalStep == Inv /\ [Next]_vars => LocalInv'
<1> SUFFICES ASSUME Inv, [Next]_vars, NEW g \in Handlers
             PROVE  /\ hpc'[g] \in {"backup", "promote"} =>
                         owner' = g /\ snap'.version \in Versions'
                    /\ hpc'[g] \in {"install", "installBackup"} => got'[g] \in Versions'
  BY DEF LocalInv
<1>0. /\ TypeOK /\ hpc \in [Handlers -> Steps]
      /\ got \in [Handlers -> Versions \cup {0}]
      /\ hpc[g] \in {"backup", "promote"} => owner = g /\ snap.version \in Versions
      /\ hpc[g] \in {"install", "installBackup"} => got[g] \in Versions
  BY DEF Inv, TypeOK, LocalInv
<1>1. CASE Operate
  BY <1>0, <1>1, OperateKeeps DEF save, request
<1>2. ASSUME NEW h \in Handlers, Saves(h)
      PROVE  /\ hpc'[g] \in {"backup", "promote"} =>
                  owner' = g /\ snap'.version \in Versions'
             /\ hpc'[g] \in {"install", "installBackup"} => got'[g] \in Versions'
  <2>1. Versions' = Versions /\ got' = got
    BY <1>2 DEF Saves, SaveBegins, KeepBackup, Promote, SaveFails, Versions
  <2>2. CASE SaveBegins(h)
    <3>1. mem \in Versions /\ owner = Nobody /\ Nobody # g
      BY <1>0, <2>2, UserStoreAssumption DEF TypeOK, SaveBegins
    <3> QED
      BY <1>0, <2>1, <2>2, <3>1 DEF SaveBegins, Goto
  <2>3. CASE KeepBackup(h)
    BY <1>0, <2>1, <2>3 DEF KeepBackup, Goto, save
  <2>4. CASE Promote(h) \/ SaveFails(h)
    <3>1. owner = h
      BY <2>4 DEF Promote, SaveFails, Inv, LocalInv
    <3> QED
      BY <1>0, <2>1, <2>4, <3>1 DEF Promote, SaveFails, Goto
  <2> QED
    BY <1>2, <2>2, <2>3, <2>4 DEF Saves
<1>3. ASSUME NEW h \in Handlers, Reads(h)
      PROVE  /\ hpc'[g] \in {"backup", "promote"} =>
                  owner' = g /\ snap'.version \in Versions'
             /\ hpc'[g] \in {"install", "installBackup"} => got'[g] \in Versions'
  <2>1. Versions' = Versions /\ UNCHANGED save
    BY <1>3 DEF Reads, Stat, Check, ReadMain, ReadBackup, Respond, file, Versions
  <2>2. Usable(main) => main \in Versions
    BY <1>0 DEF TypeOK, Usable
  <2>3. Usable(bak) => bak \in Versions
    BY <1>0 DEF TypeOK, Usable
  <2> QED
    BY <1>0, <1>3, <2>1, <2>2, <2>3
       DEF Reads, Stat, Check, ReadMain, ReadBackup, Respond, Goto, save
<1>4. ASSUME NEW h \in Handlers, Install(h)
      PROVE  /\ hpc'[g] \in {"backup", "promote"} =>
                  owner' = g /\ snap'.version \in Versions'
             /\ hpc'[g] \in {"install", "installBackup"} => got'[g] \in Versions'
  BY <1>0, <1>4 DEF Install, Goto, file, save, Versions
<1>5. ASSUME NEW h \in Handlers, NEW u \in Users, Accumulate(h, u)
      PROVE  UNCHANGED <<file, save, request>>
  BY <1>5 DEF Accumulate
<1>6. CASE UNCHANGED <<file, save, request>>
  BY <1>0, <1>6 DEF file, save, request, Versions
<1>7. UNCHANGED vars => UNCHANGED <<file, save, request>>
  BY DEF vars
<1> QED
  BY <1>1, <1>2, <1>3, <1>4, <1>5, <1>6, <1>7, NextCases

\* A handler saves only after a read of the backup.
LEMMA SavesAreSpoiled ==
    ASSUME Inv, NEW h \in Handlers, Saves(h)
    PROVE  spoiled' /\ rollbacks' # 0
<1>1. hpc[h] \in {"save", "backup", "promote"} /\ UNCHANGED <<rollbacks, spoiled>>
  BY DEF Saves, SaveBegins, KeepBackup, Promote, SaveFails, history
<1>2. spoiled
  BY <1>1 DEF Inv, OperatorInv, RollingBack, TypeOK
<1> QED
  BY <1>1, <1>2 DEF Inv, SpoiledInv

\* An edit that ends, and leaves nothing spoiled, is in users.json, and nobody is
\* going to save.
LEMMA EditLands ==
    ASSUME Inv, EditByRename \/ EditEnds, ~spoiled'
    PROVE  /\ ~RollingBack /\ editing' = "none"
           /\ main' = Latest' /\ stamp' = clock + 1
           /\ UNCHANGED <<usersMod, mem, seen, hpc, got>>
<1>1. Latest' = Latest + 1
  BY EditedAppends DEF Inv, TypeOK, EditByRename, EditEnds
<1>2. CASE EditByRename
  BY <1>1, <1>2 DEF EditByRename, Inv, OperatorInv, memory, request
<1>3. CASE EditEnds
  <2>1. ~RollingBack /\ editing \in {"main", "away"}
    BY <1>3 DEF EditEnds, Inv, OperatorInv
  <2> QED
    BY <1>1, <1>3, <2>1 DEF EditEnds, memory, request
<1> QED
  BY <1>2, <1>3

\* users.json is the operator's unless a backup that was read is in the way.
LEMMA OperatorStep == Inv /\ [Next]_vars => OperatorInv'
<1> SUFFICES ASSUME Inv, [Next]_vars, ~spoiled'
             PROVE  OperatorInv'
  BY DEF OperatorInv
<1>0. TypeOK /\ OperatorInv /\ hpc \in [Handlers -> Steps]
  BY DEF Inv, TypeOK
<1>1. CASE EditByRename \/ EditEnds
  BY <1>1, EditLands DEF OperatorInv, RollingBack
<1>2. CASE EditBegins \/ EditMovesAway
  BY <1>0, <1>2 DEF EditBegins, EditMovesAway, OperatorInv, RollingBack, request, history
<1>3. ASSUME NEW h \in Handlers, Saves(h)
      PROVE  OperatorInv'
  BY <1>3, SavesAreSpoiled
<1>4. ASSUME NEW h \in Handlers, Reads(h)
      PROVE  OperatorInv'
  <2>1. ~spoiled /\ UNCHANGED <<main, editing, Latest>>
    BY <1>0, <1>4 DEF Reads, Stat, Check, ReadMain, ReadBackup, Respond, file, history, Latest
  <2>2. hpc' \in {[hpc EXCEPT ![h] = step] : step \in {"idle", "check", "read", "readBackup",
                                                       "install", "body"}}
    BY <1>0, <1>4, <2>1 DEF Reads, Stat, Check, ReadMain, ReadBackup, Respond, Goto
  <2> QED
    BY <1>0, <2>1, <2>2 DEF OperatorInv, RollingBack
<1>5. ASSUME NEW h \in Handlers, Install(h)
      PROVE  OperatorInv'
  <2>1. ~spoiled /\ UNCHANGED <<main, editing, Latest>>
    BY <1>5 DEF Install, file, Latest
  <2>2. hpc' = [hpc EXCEPT ![h] = "body"]
    BY <1>0, <1>5, <2>1 DEF Install, Goto, OperatorInv, RollingBack
  <2> QED
    BY <1>0, <2>1, <2>2 DEF OperatorInv, RollingBack
<1>6. ASSUME NEW h \in Handlers, NEW u \in Users, Accumulate(h, u)
      PROVE  OperatorInv'
  BY <1>0, <1>6 DEF Accumulate, file, request, history, OperatorInv, RollingBack, Latest
<1>7. CASE UNCHANGED vars
  BY <1>0, <1>7 DEF vars, file, request, history, OperatorInv, RollingBack, Latest
<1> QED
  BY <1>1, <1>2, <1>3, <1>4, <1>5, <1>6, <1>7, NextCases DEF Operate

\* A modification time is recorded with the list that was read after it was found.
LEMMA StampStep == Inv /\ [Next]_vars => StampInv'
<1> SUFFICES ASSUME Inv, [Next]_vars, ~spoiled'
             PROVE  StampInv'
  BY DEF StampInv
<1>0. /\ TypeOK /\ StampInv /\ OperatorInv
      /\ clock \in Nat /\ stamp \in 0..clock /\ usersMod \in 0..clock
      /\ hpc \in [Handlers -> Steps] /\ seen \in [Handlers -> 0..clock]
      /\ got \in [Handlers -> Versions \cup {0}]
  BY DEF Inv, TypeOK
<1>1. CASE EditByRename \/ EditEnds
  <2>1. stamp' = clock + 1 /\ UNCHANGED <<usersMod, mem, seen, hpc, got>>
    BY <1>1, EditLands
  <2>2. usersMod' < stamp' /\ \A h \in Handlers : seen'[h] < stamp' /\ seen'[h] \in Nat
    BY <1>0, <2>1
  <2> QED
    BY <1>0, <2>1, <2>2 DEF StampInv
<1>2. CASE EditBegins
  <2>1. stamp' = clock + 1 /\ UNCHANGED <<usersMod, mem, seen, hpc, got>>
    BY <1>2 DEF EditBegins, memory, request
  <2>2. usersMod' < stamp' /\ \A h \in Handlers : seen'[h] < stamp' /\ seen'[h] \in Nat
    BY <1>0, <2>1
  <2> QED
    BY <1>0, <2>1, <2>2 DEF StampInv
<1>3. CASE EditMovesAway
  BY <1>0, <1>3 DEF EditMovesAway, memory, request, history, StampInv, Latest
<1>4. ASSUME NEW h \in Handlers, Saves(h)
      PROVE  StampInv'
  BY <1>4, SavesAreSpoiled
<1>5. ASSUME NEW h \in Handlers, Reads(h)
      PROVE  StampInv'
  <2>1. ~spoiled /\ UNCHANGED <<stamp, usersMod, mem, Latest>>
    BY <1>0, <1>5
       DEF Reads, Stat, Check, ReadMain, ReadBackup, Respond, file, memory, history, Latest
  <2>2. \A g \in Handlers : seen'[g] \in {seen[g], stamp, 0}
    BY <1>0, <1>5 DEF Reads, Stat, Check, ReadMain, ReadBackup, Respond
  <2>3. \A g \in Handlers : seen'[g] <= stamp
    BY <1>0, <2>1, <2>2 DEF StampInv
  <2>4. ASSUME NEW g \in Handlers, hpc'[g] = "install", seen'[g] = stamp
        PROVE  got'[g] = Latest
    <3>1. CASE g = h /\ ReadMain(h)
      <4>1. Usable(main) /\ got'[g] = main
        BY <1>0, <2>4, <3>1 DEF ReadMain, Goto
      <4> QED
        BY <1>0, <2>1, <4>1 DEF OperatorInv, Usable
    <3>2. CASE ~(g = h /\ ReadMain(h))
      <4>1. hpc[g] = "install" /\ got'[g] = got[g] /\ seen'[g] = seen[g]
        BY <1>0, <1>5, <2>4, <3>2
           DEF Reads, Stat, Check, ReadMain, ReadBackup, Respond, Goto
      <4> QED
        BY <1>0, <2>1, <2>4, <4>1 DEF StampInv
    <3> QED
      BY <3>1, <3>2
  <2> QED
    BY <1>0, <2>1, <2>3, <2>4 DEF StampInv
<1>6. ASSUME NEW h \in Handlers, Install(h)
      PROVE  StampInv'
  <2>1. ~spoiled /\ UNCHANGED <<stamp, seen, got, Latest>>
    BY <1>6 DEF Install, file, Latest
  <2>2. hpc[h] = "install"
    BY <1>0, <1>6, <2>1 DEF Install, OperatorInv, RollingBack
  <2>3. usersMod' = seen[h] /\ mem' = got[h] /\ hpc' = [hpc EXCEPT ![h] = "body"]
    BY <1>6, <2>2 DEF Install, Goto
  <2> QED
    BY <1>0, <2>1, <2>2, <2>3 DEF StampInv
<1>7. ASSUME NEW h \in Handlers, NEW u \in Users, Accumulate(h, u)
      PROVE  StampInv'
  BY <1>0, <1>7 DEF Accumulate, file, request, history, StampInv, Latest
<1>8. CASE UNCHANGED vars
  BY <1>0, <1>8 DEF vars, file, memory, request, history, StampInv, Latest
<1> QED
  BY <1>1, <1>2, <1>3, <1>4, <1>5, <1>6, <1>7, <1>8, NextCases DEF Operate

\* Nothing is spoiled before the backup is read.
LEMMA SpoiledStep == Inv /\ [Next]_vars => SpoiledInv'
<1> SUFFICES ASSUME Inv, [Next]_vars, rollbacks' = 0
             PROVE  ~spoiled'
  BY DEF SpoiledInv
<1>0. rollbacks \in Nat /\ (rollbacks = 0 => ~spoiled)
  BY UserStoreAssumption DEF Inv, TypeOK, SpoiledInv
<1>1. CASE Operate
  BY <1>0, <1>1 DEF Operate, EditByRename, EditBegins, EditMovesAway, EditEnds, history
<1>2. ASSUME NEW h \in Handlers, Saves(h)
      PROVE  ~spoiled'
  BY <1>2, SavesAreSpoiled
<1>3. ASSUME NEW h \in Handlers, Reads(h)
      PROVE  ~spoiled'
  BY <1>0, <1>3 DEF Reads, Stat, Check, ReadMain, ReadBackup, Respond, history
<1>4. ASSUME NEW h \in Handlers, Install(h)
      PROVE  ~spoiled'
  BY <1>0, <1>4 DEF Install
<1>5. ASSUME NEW h \in Handlers, NEW u \in Users, Accumulate(h, u)
      PROVE  ~spoiled'
  BY <1>0, <1>5 DEF Accumulate, history
<1>6. CASE UNCHANGED vars
  BY <1>0, <1>6 DEF vars, history
<1> QED
  BY <1>1, <1>2, <1>3, <1>4, <1>5, <1>6, NextCases

\* What a handler has read is as new as what is in memory, unless overtaken.
LEMMA ReadStep == Inv /\ [Next]_vars => ReadInv'
<1> SUFFICES ASSUME Inv, [Next]_vars, rollbacks' = 0,
                    NEW g \in Handlers, g \notin overtaken', hpc'[g] = "install"
             PROVE  got'[g] >= mem'
  BY DEF ReadInv
<1>0. /\ TypeOK /\ ReadInv /\ OperatorInv /\ SpoiledInv
      /\ hpc \in [Handlers -> Steps] /\ got \in [Handlers -> Versions \cup {0}]
      /\ rollbacks \in Nat /\ Latest \in Nat /\ mem \in 1..Latest
  <2>1. TypeOK /\ ReadInv /\ OperatorInv /\ SpoiledInv
    BY DEF Inv
  <2>2. hpc \in [Handlers -> Steps] /\ got \in [Handlers -> Versions \cup {0}]
    BY <2>1 DEF TypeOK
  <2>3. rollbacks \in Nat
    BY <2>1, UserStoreAssumption DEF TypeOK
  <2>4. lists \in Seq(SUBSET Users) /\ mem \in Versions
    BY <2>1 DEF TypeOK
  <2>5. Latest \in Nat /\ mem \in 1..Latest
    BY <2>4 DEF Versions, Latest
  <2> QED
    BY <2>1, <2>2, <2>3, <2>5
<1>1. CASE UNCHANGED <<memory, request, overtaken, rollbacks>>
  BY <1>0, <1>1 DEF memory, request, ReadInv
<1>2. Operate => UNCHANGED <<memory, request, overtaken, rollbacks>>
  BY <1>0, OperateKeeps
<1>3. ASSUME NEW h \in Handlers, Saves(h)
      PROVE  FALSE
  BY <1>3, SavesAreSpoiled
<1>4. ASSUME NEW h \in Handlers, Reads(h)
      PROVE  got'[g] >= mem'
  <2>1. UNCHANGED <<memory, overtaken>> /\ rollbacks = 0
    BY <1>0, <1>4 DEF Reads, Stat, Check, ReadMain, ReadBackup, Respond, history
  <2>2. CASE g = h /\ ReadMain(h)
    <3>1. Usable(main) /\ got'[g] = main
      BY <1>0, <2>2 DEF ReadMain, Goto
    <3>2. main = Latest
      BY <1>0, <2>1, <3>1 DEF OperatorInv, SpoiledInv, Usable
    <3> QED
      BY <1>0, <2>1, <3>1, <3>2 DEF memory
  <2>3. CASE ~(g = h /\ ReadMain(h))
    <3>1. hpc[g] = "install" /\ got'[g] = got[g]
      BY <1>0, <1>4, <2>3 DEF Reads, Stat, Check, ReadMain, ReadBackup, Respond, Goto
    <3> QED
      BY <1>0, <2>1, <3>1 DEF memory, ReadInv
  <2> QED
    BY <2>2, <2>3
<1>5. ASSUME NEW h \in Handlers, Install(h)
      PROVE  FALSE
  <2>1. g # h /\ hpc[g] = "install"
    BY <1>0, <1>5 DEF Install, Goto
  <2> QED
    BY <1>5, <2>1 DEF Install
<1>6. ASSUME NEW h \in Handlers, NEW u \in Users, Accumulate(h, u)
      PROVE  got'[g] >= mem'
  BY <1>0, <1>6 DEF Accumulate, request, history, ReadInv
<1>7. UNCHANGED vars => UNCHANGED <<memory, request, overtaken, rollbacks>>
  BY DEF vars, history
<1> QED
  BY <1>1, <1>2, <1>3, <1>4, <1>5, <1>6, <1>7, NextCases

-----------------------------------------------------------------------------
(* The theorems.                                                           *)

(***************************************************************************)
(* The invariant holds throughout.                                         *)
(***************************************************************************)
THEOREM Invariance == Spec => []Inv
<1>1. Inv /\ [Next]_vars => Inv'
  BY TypeStep, LocalStep, OperatorStep, StampStep, SpoiledStep, ReadStep DEF Inv
<1> QED
  BY InvInit, <1>1, PTL DEF Spec

(***************************************************************************)
(* Every variable keeps its type, whatever requests, edits, failures and   *)
(* reads of the backup: only users of the list in memory have counters.    *)
(***************************************************************************)
THEOREM TypeCorrect == Spec => []TypeOK
<1>1. Inv => TypeOK
  BY DEF Inv
<1> QED
  BY <1>1, Invariance, PTL

(***************************************************************************)
(* However many requests reload at once and however they are interleaved   *)
(* with edits, a list that is not in memory yet has a newer modification   *)
(* time than the one on record, unless a backup that was read has not been *)
(* followed by an edit that got past it.                                   *)
(***************************************************************************)
THEOREM EditsNeverMissed == Spec => []EditsAreNoticed
<1>1. Inv => EditsAreNoticed
  <2> SUFFICES ASSUME Inv, mem # Latest, ~spoiled
               PROVE  usersMod < stamp
    BY DEF EditsAreNoticed
  <2>1. usersMod \in Nat /\ stamp \in Nat
    BY DEF Inv, TypeOK
  <2>2. usersMod <= stamp /\ usersMod # stamp
    BY DEF Inv, StampInv
  <2> QED
    BY <2>1, <2>2
<1> QED
  BY <1>1, Invariance, PTL

(***************************************************************************)
(* A reload drops the counters of a user only if an edit since the list in *)
(* memory removed the user, if nobody overtook the reload.                 *)
(***************************************************************************)
THEOREM PruningFollowsEdits == Spec => PruneFollowsEdits
<1> DEFINE Follows ==
        \A h \in Handlers \ overtaken : Install(h) /\ rollbacks = 0 =>
          \A u \in counted \ counted' : \E v \in mem + 1 .. Latest : u \notin lists[v]
<1>1. Inv => Follows
  <2> SUFFICES ASSUME Inv, NEW h \in Handlers \ overtaken, Install(h), rollbacks = 0,
                      NEW u \in counted, u \notin counted'
               PROVE  \E v \in mem + 1 .. Latest : u \notin lists[v]
    OBVIOUS
  <2>1. hpc[h] = "install" /\ got[h] \in 1..Latest /\ got[h] >= mem
    BY DEF Inv, Install, OperatorInv, RollingBack, SpoiledInv, ReadInv, LocalInv, Versions, Latest
  <2>2. Latest \in Nat /\ mem \in 1..Latest /\ u \in lists[mem]
    BY DEF Inv, TypeOK, Versions, Latest
  <2>3. u \notin lists[got[h]]
    BY DEF Install
  <2>4. got[h] # mem
    BY <2>2, <2>3
  <2>5. got[h] \in mem + 1 .. Latest
    BY <2>1, <2>2, <2>4
  <2> QED
    BY <2>3, <2>5
<1>2. [][Inv]_vars => [][Follows]_vars
  BY <1>1, PTL
<1> QED
  BY <1>2, Invariance, PTL DEF PruneFollowsEdits
=============================================================================
