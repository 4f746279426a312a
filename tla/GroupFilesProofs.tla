--------------------------- MODULE GroupFilesProofs ---------------------------
(***************************************************************************)
(* Proofs about GroupFiles, for any writers in any processes, any groups   *)
(* and any number of crashes:                                              *)
(*   - type correctness, which includes that the index names only files    *)
(*     that are there;                                                     *)
(*   - who has a lock and where: a writer that has the index locked waits  *)
(*     for nobody, so the nested locks cannot deadlock;                    *)
(*   - saved mentions stay, and a group has one file.                      *)
(***************************************************************************)
EXTENDS GroupFiles, TLAPS

UnderIndex == {"look", "merge", "group", "load", "update", "close", "create", "register",
               "leave"}
UnderGroup == {"load", "update", "close"}
Merging == {"merge", "group"} \cup UnderGroup
Ended == {"done", "dead"}
Steps == {"idle", "index"} \cup UnderIndex \cup Ended

(***************************************************************************)
(* Types, and which files there are.                                       *)
(***************************************************************************)

\* A file is there from its creation on, which is the last but two of the steps of its
\* creator; what a writer has found in the index, and merges into, is there.
FilesOK ==
  /\ \A f \in files : pc[f] \in {"register", "leave"} \cup Ended
  /\ \A w \in Writers : pc[w] = "register" => w \in files
  /\ \A w \in Writers : pc[w] \in Merging => group[w] \in files
  /\ seen \in [Writers -> [Names -> files \cup {None}]]

\* A writer that waits for a file has opened its lock file.
OpenedOK ==
  \A w \in Writers :
    /\ pc[w] = "index" => opened[w] = LockFile(Index)
    /\ pc[w] = "group" => opened[w] = LockFile(group[w])

TypeInv == TypeOK /\ FilesOK /\ OpenedOK

LEMMA InitTypes == Init => TypeInv
  BY GroupAssumption DEF Init, TypeInv, TypeOK, FilesOK, OpenedOK, Lookup, NoGroups, Merging,
                         UnderGroup

LEMMA PcType == TypeOK <=> TypeOK /\ pc \in [Writers -> Steps]
  BY DEF TypeOK, Steps, UnderIndex, Ended

\* A step of one writer from one place to another.
LEMMA GotoTypes ==
  ASSUME TypeOK, NEW w \in Writers, NEW from, NEW to \in Steps, Goto(w, from, to)
  PROVE  /\ pc' \in [Writers -> Steps]
         /\ pc[w] = from /\ pc'[w] = to
         /\ \A v \in Writers : v # w => pc'[v] = pc[v]
  BY PcType DEF Goto

LEMMA LockFileType == \A path \in Paths : LockFile(path) \in Inodes
  BY DEF LockFile, Inodes

LocksTyped ==
  /\ threadLock \in [Processes \X Paths -> Writers \cup {None}]
  /\ flocks \in [Writers -> SUBSET Inodes]
  /\ opened \in [Writers -> Inodes \cup {None}]

\* Taking and giving back locks keeps their types.
LEMMA LockTypes ==
  ASSUME TypeOK, NEW w \in Writers, NEW path \in Paths
  PROVE  /\ Open(w, path) => LocksTyped'
         /\ Close(w, path) => LocksTyped'
         /\ Flock(w) /\ opened[w] \in Inodes => LocksTyped'
<1> USE DEF TypeOK, LocksTyped
<1>1. ASSUME Open(w, path) PROVE LocksTyped'
  BY <1>1, LockFileType DEF Open
<1>2. ASSUME Close(w, path) PROVE LocksTyped'
  BY <1>2 DEF Close, Unlocked
<1>3. ASSUME Flock(w), opened[w] \in Inodes PROVE LocksTyped'
  BY <1>3 DEF Flock
<1> QED
  BY <1>1, <1>2, <1>3

\* A step of w that changes no file and nothing w has read, and neither enters the merge nor
\* leaves the state of a writer whose file is there.
LEMMA QuietTypes ==
  ASSUME TypeInv, NEW w \in Writers, NEW from, NEW to \in Steps, Goto(w, from, to),
         LocksTyped', UNCHANGED <<fileVars, seen, group, read, saved, misread, crashes>>,
         from \in {"register", "leave"} \cup Ended => to \in {"leave"} \cup Ended,
         to # "register",
         to \in Merging => from \in Merging,
         \A v \in Writers : v # w => opened'[v] = opened[v],
         to = "index" => opened'[w] = LockFile(Index),
         to = "group" => opened'[w] = LockFile(group[w])
  PROVE  TypeInv'
<1>1. /\ pc' \in [Writers -> Steps]
      /\ pc[w] = from /\ pc'[w] = to
      /\ \A v \in Writers : v # w => pc'[v] = pc[v]
  BY GotoTypes DEF TypeInv
<1>2. TypeOK'
  BY <1>1 DEF TypeInv, TypeOK, LocksTyped, fileVars, Steps, UnderIndex, Ended
<1>3. FilesOK'
  <2>1. ASSUME NEW f \in files PROVE pc'[f] \in {"register", "leave"} \cup Ended
    BY <1>1 DEF TypeInv, TypeOK, FilesOK, Ended
  <2>2. files' = files /\ group' = group /\ seen' = seen
    BY DEF fileVars
  <2>3. \A v \in Writers : pc'[v] = "register" => v \in files
    BY <1>1 DEF TypeInv, FilesOK
  <2>4. \A v \in Writers : pc'[v] \in Merging => group[v] \in files
    BY <1>1 DEF TypeInv, FilesOK
  <2> QED
    BY <2>1, <2>2, <2>3, <2>4 DEF TypeInv, FilesOK
<1>4. OpenedOK'
  BY <1>1 DEF TypeInv, OpenedOK, LockFile
<1> QED
  BY <1>2, <1>3, <1>4 DEF TypeInv

LEMMA IndexStepTypes ==
  ASSUME TypeInv, NEW w \in Writers,
         OpenIndex(w) \/ LockIndex(w) \/ CloseIndex(w)
  PROVE  TypeInv'
<1> USE DEF Steps, UnderIndex, Ended, Merging, UnderGroup
<1>1. TypeOK /\ Index \in Paths /\ LockFile(Index) \in Inodes
  BY LockFileType DEF TypeInv, Paths
<1>2. CASE OpenIndex(w)
  <2>1. LocksTyped' /\ opened' = [opened EXCEPT ![w] = LockFile(Index)]
    BY <1>1, <1>2, LockTypes DEF OpenIndex, Open
  <2> QED
    BY <1>1, <1>2, <2>1, QuietTypes DEF OpenIndex, TypeOK
<1>3. CASE LockIndex(w)
  <2>1. LocksTyped' /\ opened' = opened
    BY <1>1, <1>3, LockTypes DEF LockIndex, Flock, Goto, TypeInv, OpenedOK
  <2> QED
    BY <1>3, <2>1, QuietTypes DEF LockIndex
<1>4. CASE CloseIndex(w)
  <2>1. LocksTyped' /\ opened' = opened
    BY <1>1, <1>4, LockTypes DEF CloseIndex, Close
  <2> QED
    BY <1>4, <2>1, QuietTypes DEF CloseIndex
<1> QED
  BY <1>2, <1>3, <1>4

LEMMA GroupStepTypes ==
  ASSUME TypeInv, NEW w \in Writers,
         OpenGroup(w) \/ LockGroup(w) \/ CloseGroup(w)
  PROVE  TypeInv'
<1> USE DEF Steps, UnderIndex, Ended, Merging, UnderGroup
<1>1. TypeOK /\ pc[w] \in Merging
  BY DEF TypeInv, OpenGroup, LockGroup, CloseGroup, Goto
<1>2. group[w] \in Paths /\ LockFile(group[w]) \in Inodes
  BY <1>1, LockFileType DEF TypeInv, TypeOK, FilesOK, Paths
<1>3. CASE OpenGroup(w)
  <2>1. LocksTyped' /\ opened' = [opened EXCEPT ![w] = LockFile(group[w])]
    BY <1>1, <1>2, <1>3, LockTypes DEF OpenGroup, Open
  <2> QED
    BY <1>1, <1>3, <2>1, QuietTypes DEF OpenGroup, TypeOK
<1>4. CASE LockGroup(w)
  <2>1. LocksTyped' /\ opened' = opened
    BY <1>1, <1>2, <1>4, LockTypes DEF LockGroup, Flock, Goto, TypeInv, OpenedOK
  <2> QED
    BY <1>4, <2>1, QuietTypes DEF LockGroup
<1>5. CASE CloseGroup(w)
  <2>1. LocksTyped' /\ opened' = opened
    BY <1>1, <1>2, <1>5, LockTypes DEF CloseGroup, Close
  <2> QED
    BY <1>5, <2>1, QuietTypes DEF CloseGroup
<1> QED
  BY <1>3, <1>4, <1>5

\* What is looked up is a file or nothing.
LEMMA LookUpTypes ==
  ASSUME TypeInv, NEW w \in Writers, LookUp(w)
  PROVE  TypeInv'
<1> USE DEF Steps, UnderIndex, Ended, Merging, UnderGroup
<1>1. TypeOK /\ FilesOK /\ OpenedOK
  BY DEF TypeInv
<1>2. PICK s \in [Names -> files \cup {None}] : seen' = [seen EXCEPT ![w] = s]
  BY <1>1 DEF LookUp, TypeOK, NoGroups
<1>3. seen' \in [Writers -> [Names -> files \cup {None}]]
  BY <1>1, <1>2 DEF FilesOK
<1>4. seen' \in [Writers -> Lookup]
  BY <1>1, <1>3 DEF TypeOK, Lookup
<1>5. misread' \in SUBSET Paths
  BY <1>1 DEF LookUp, TypeOK, Paths
<1>6. UNCHANGED <<index, content, files, inode, threadLock, flocks, opened, read, saved,
                  crashes>>
  BY DEF LookUp, fileVars, lockVars
<1>7. CASE /\ seen'[w][Name[w]] \in files
           /\ Goto(w, "look", "merge")
           /\ group' = [group EXCEPT ![w] = seen'[w][Name[w]]]
  <2>1. /\ pc' \in [Writers -> Steps]
        /\ pc[w] = "look" /\ pc'[w] = "merge"
        /\ \A v \in Writers : v # w => pc'[v] = pc[v]
    BY <1>1, <1>7, GotoTypes
  <2>2. group' \in [Writers -> Writers \cup {None}] /\ group'[w] \in files
    BY <1>1, <1>7 DEF TypeOK
  <2>3. \A v \in Writers : v # w => group'[v] = group[v]
    BY <1>1, <1>7 DEF TypeOK
  <2>4. TypeOK'
    BY <1>1, <1>4, <1>5, <1>6, <2>1, <2>2 DEF TypeOK
  <2>5. FilesOK'
    BY <1>1, <1>3, <1>6, <2>1, <2>2, <2>3 DEF FilesOK, TypeOK
  <2>6. OpenedOK'
    BY <1>1, <1>6, <2>1, <2>3 DEF OpenedOK, LockFile
  <2> QED
    BY <2>4, <2>5, <2>6 DEF TypeInv
<1>8. CASE Goto(w, "look", "create") /\ group' = group
  <2>1. /\ pc' \in [Writers -> Steps]
        /\ pc[w] = "look" /\ pc'[w] = "create"
        /\ \A v \in Writers : v # w => pc'[v] = pc[v]
    BY <1>1, <1>8, GotoTypes
  <2>2. TypeOK'
    BY <1>1, <1>4, <1>5, <1>6, <1>8, <2>1 DEF TypeOK
  <2>3. FilesOK'
    BY <1>1, <1>3, <1>6, <1>8, <2>1 DEF FilesOK, TypeOK
  <2>4. OpenedOK'
    BY <1>1, <1>6, <1>8, <2>1 DEF OpenedOK, LockFile
  <2> QED
    BY <2>2, <2>3, <2>4 DEF TypeInv
<1> QED
  BY <1>7, <1>8 DEF LookUp

LEMMA CreateTypes ==
  ASSUME TypeInv, NEW w \in Writers, CreateGroup(w)
  PROVE  TypeInv'
<1> USE DEF Steps, UnderIndex, Ended, Merging, UnderGroup
<1>1. TypeOK /\ FilesOK /\ OpenedOK
  BY DEF TypeInv
<1>2. UNCHANGED <<index, threadLock, flocks, opened, seen, group, read, saved, misread,
                  crashes>>
  BY DEF CreateGroup, lockVars
<1>3. PICK to \in {"register", "leave"} : Goto(w, "create", to)
  BY DEF CreateGroup
<1>4. /\ pc' \in [Writers -> Steps]
      /\ pc[w] = "create" /\ pc'[w] = to
      /\ \A v \in Writers : v # w => pc'[v] = pc[v]
  BY <1>1, <1>3, GotoTypes
<1>5. files' \in SUBSET Writers /\ files \subseteq files' /\ files' \subseteq files \cup {w}
  BY <1>1 DEF CreateGroup, TypeOK
<1>6. pc'[w] = "register" => w \in files'
  BY <1>1, <1>4 DEF CreateGroup, Goto, TypeOK
<1>7. content' \in [Writers -> SUBSET Writers] /\ inode' \in [Paths -> Nat]
  BY <1>1 DEF CreateGroup, TypeOK, Replace, Paths
<1>8. index \in [Names -> files' \cup {None}]
  BY <1>1, <1>5 DEF TypeOK
<1>9. TypeOK'
  BY <1>1, <1>2, <1>4, <1>5, <1>7, <1>8 DEF TypeOK
<1>10. FilesOK'
  <2>1. seen \in [Writers -> [Names -> files' \cup {None}]]
    BY <1>1, <1>5 DEF FilesOK
  <2> QED
    BY <1>1, <1>2, <1>4, <1>5, <1>6, <2>1 DEF FilesOK, TypeOK
<1>11. OpenedOK'
  BY <1>1, <1>2, <1>4 DEF OpenedOK, LockFile
<1> QED
  BY <1>9, <1>10, <1>11 DEF TypeInv

LEMMA RegisterTypes ==
  ASSUME TypeInv, NEW w \in Writers, RegisterGroup(w)
  PROVE  TypeInv'
<1> USE DEF Steps, UnderIndex, Ended, Merging, UnderGroup
<1>1. TypeOK /\ FilesOK /\ OpenedOK /\ Name[w] \in Names
  BY GroupAssumption DEF TypeInv
<1>2. UNCHANGED <<content, files, threadLock, flocks, opened, seen, group, read, misread,
                  crashes>>
  BY DEF RegisterGroup, lockVars
<1>3. /\ pc' \in [Writers -> Steps]
      /\ pc[w] = "register" /\ pc'[w] = "leave"
      /\ \A v \in Writers : v # w => pc'[v] = pc[v]
  BY <1>1, GotoTypes DEF RegisterGroup
<1>4. w \in files /\ seen[w] \in [Names -> files \cup {None}]
  BY <1>1, <1>3 DEF FilesOK
<1>5. index' \in [Names -> files \cup {None}]
  BY <1>4 DEF RegisterGroup
<1>6. inode' \in [Paths -> Nat] /\ saved' \in SUBSET Writers
  BY <1>1 DEF RegisterGroup, TypeOK, Replace, Paths
<1>7. TypeOK'
  BY <1>1, <1>2, <1>3, <1>5, <1>6 DEF TypeOK
<1>8. FilesOK'
  BY <1>1, <1>2, <1>3 DEF FilesOK, TypeOK
<1>9. OpenedOK'
  BY <1>1, <1>2, <1>3 DEF OpenedOK, LockFile
<1> QED
  BY <1>7, <1>8, <1>9 DEF TypeInv

LEMMA MergeStepTypes ==
  ASSUME TypeInv, NEW w \in Writers, LoadGroup(w) \/ UpdateGroup(w)
  PROVE  TypeInv'
<1> USE DEF Steps, UnderIndex, Ended, Merging, UnderGroup
<1>1. TypeOK /\ FilesOK /\ OpenedOK
  BY DEF TypeInv
<1>2. UNCHANGED <<index, files, threadLock, flocks, opened, seen, group, crashes>>
  BY DEF LoadGroup, UpdateGroup, fileVars, lockVars
<1>3. PICK from \in {"load", "update"}, to \in {"update", "close"} : Goto(w, from, to)
  BY DEF LoadGroup, UpdateGroup
<1>4. /\ pc' \in [Writers -> Steps]
      /\ pc[w] = from /\ pc'[w] = to
      /\ \A v \in Writers : v # w => pc'[v] = pc[v]
  BY <1>1, <1>3, GotoTypes
<1>5. group[w] \in files /\ group[w] \in Writers
  BY <1>1, <1>4 DEF FilesOK, TypeOK
<1>6. /\ content' \in [Writers -> SUBSET Writers]
      /\ inode' \in [Paths -> Nat]
      /\ read' \in [Writers -> SUBSET Writers]
      /\ saved' \in SUBSET Writers
      /\ misread' \in SUBSET Paths
  <2>1. CASE LoadGroup(w)
    BY <1>1, <1>5, <2>1 DEF LoadGroup, TypeOK, fileVars, Paths
  <2>2. CASE UpdateGroup(w)
    BY <1>1, <1>5, <2>2 DEF UpdateGroup, TypeOK, Replace, Paths
  <2> QED
    BY <2>1, <2>2
<1>7. TypeOK'
  BY <1>1, <1>2, <1>4, <1>6 DEF TypeOK
<1>8. FilesOK'
  BY <1>1, <1>2, <1>4 DEF FilesOK, TypeOK
<1>9. OpenedOK'
  BY <1>1, <1>2, <1>4 DEF OpenedOK, LockFile
<1> QED
  BY <1>7, <1>8, <1>9 DEF TypeInv

LEMMA AbortTypes ==
  ASSUME TypeInv, NEW W \in SUBSET Writers, Abort(W)
  PROVE  TypeInv'
<1> USE DEF Steps, UnderIndex, Ended, Merging, UnderGroup
<1>1. TypeOK /\ FilesOK /\ OpenedOK
  BY DEF TypeInv
<1>2. UNCHANGED <<index, content, files, inode, opened, seen, group, read, saved, misread>>
  BY DEF Abort, fileVars
<1>3. /\ pc' \in [Writers -> Steps]
      /\ \A v \in Writers : pc'[v] = IF v \in W THEN "dead" ELSE pc[v]
  BY <1>1, PcType DEF Abort
<1>4. /\ threadLock' \in [Processes \X Paths -> Writers \cup {None}]
      /\ flocks' \in [Writers -> SUBSET Inodes]
      /\ crashes' \in 0..MaxCrashes
  BY <1>1, GroupAssumption DEF Abort, TypeOK
<1>5. TypeOK'
  BY <1>1, <1>2, <1>3, <1>4 DEF TypeOK
<1>6. FilesOK'
  BY <1>1, <1>2, <1>3 DEF FilesOK, TypeOK
<1>7. OpenedOK'
  BY <1>1, <1>2, <1>3 DEF OpenedOK, LockFile
<1> QED
  BY <1>5, <1>6, <1>7 DEF TypeInv

LEMMA NextTypes == TypeInv /\ [Next]_vars => TypeInv'
<1> SUFFICES ASSUME TypeInv, [Next]_vars PROVE TypeInv'
  OBVIOUS
<1>1. CASE UNCHANGED vars
  BY <1>1 DEF TypeInv, TypeOK, FilesOK, OpenedOK, LockFile, vars, fileVars, lockVars
<1>2. ASSUME NEW w \in Writers, WriterStep(w) PROVE TypeInv'
  BY <1>2, IndexStepTypes, GroupStepTypes, LookUpTypes, CreateTypes, RegisterTypes,
     MergeStepTypes DEF WriterStep
<1>3. ASSUME NEW w \in Writers, Raise(w) PROVE TypeInv'
  BY <1>3, AbortTypes DEF Raise
<1>4. ASSUME NEW p \in Processes, Kill(p) PROVE TypeInv'
  BY <1>4, AbortTypes DEF Kill
<1> QED
  BY <1>1, <1>2, <1>3, <1>4 DEF Next

LEMMA Typed == Spec => []TypeInv
  BY InitTypes, NextTypes, PTL DEF Spec

\* Every behaviour keeps the types: the index, whoever has written it and
\* from whatever it was read, names only files that are there.
THEOREM TypeCorrect == Spec => []TypeOK
<1>1. TypeInv => TypeOK
  BY DEF TypeInv
<1> QED
  BY <1>1, Typed, PTL

(***************************************************************************)
(* Who holds which lock.                                                   *)
(***************************************************************************)

\* The file locks of a writer follow from where it is.
FlocksOK ==
  \A w \in Writers : \A l \in Inodes :
    l \in flocks[w] <=>
      \/ l = LockFile(Index) /\ pc[w] \in UnderIndex
      \/ l = LockFile(group[w]) /\ pc[w] \in UnderGroup

\* A file is locked by one writer.
FlocksApart ==
  \A v, w \in Writers : v # w => flocks[v] \cap flocks[w] = {}

\* Between the lock of the process for a path and its release.
InSection(w, path) ==
  \/ path = Index /\ pc[w] \in {"index"} \cup UnderIndex
  \/ path = group[w] /\ pc[w] \in {"group"} \cup UnderGroup

\* So do the locks of its process.
ThreadLocksOK ==
  \A w \in Writers : \A p \in Processes : \A path \in Paths :
    threadLock[<<p, path>>] = w <=> Process[w] = p /\ InSection(w, path)

LockInv == FlocksOK /\ FlocksApart /\ ThreadLocksOK

\* One writer at a time finds or creates.
LEMMA OneUnderIndex ==
  ASSUME TypeInv, LockInv, NEW v \in Writers, NEW w \in Writers,
         pc[v] \in UnderIndex, pc[w] \in UnderIndex
  PROVE  v = w
<1>1. LockFile(Index) \in Inodes
  BY LockFileType DEF Paths
<1>2. LockFile(Index) \in flocks[v] /\ LockFile(Index) \in flocks[w]
  BY <1>1 DEF LockInv, FlocksOK
<1> QED
  BY <1>2 DEF LockInv, FlocksApart

LEMMA InitLockInv == Init => LockInv
<1> SUFFICES ASSUME Init PROVE LockInv
  OBVIOUS
<1>1. \A p \in Processes, path \in Paths : threadLock[<<p, path>>] = None
  BY DEF Init
<1> QED
  BY <1>1, GroupAssumption DEF Init, LockInv, FlocksOK, FlocksApart, ThreadLocksOK, InSection,
     UnderIndex, UnderGroup

\* A step of w that takes and gives back no lock, inside the same sections.
LEMMA NoLockStep ==
  ASSUME TypeInv, LockInv, NEW w \in Writers, UNCHANGED lockVars,
         \A v \in Writers : v # w => pc'[v] = pc[v] /\ group'[v] = group[v],
         pc[w] \in UnderIndex, pc'[w] \in UnderIndex,
         \/ pc[w] \notin {"group"} \cup UnderGroup /\ pc'[w] \notin {"group"} \cup UnderGroup
         \/ group'[w] = group[w] /\ pc[w] \in UnderGroup /\ pc'[w] \in UnderGroup
  PROVE  LockInv'
<1> USE DEF lockVars
<1>1. FlocksOK'
  BY DEF LockInv, FlocksOK, LockFile, UnderGroup
<1>2. FlocksApart'
  BY DEF LockInv, FlocksApart
<1>3. \A v \in Writers, path \in Paths : InSection(v, path)' <=> InSection(v, path)
  BY DEF InSection, UnderGroup
<1>4. ASSUME NEW v \in Writers, NEW p \in Processes, NEW q \in Paths
      PROVE  threadLock'[<<p, q>>] = v <=> Process[v] = p /\ InSection(v, q)'
  BY <1>3 DEF LockInv, ThreadLocksOK
<1> QED
  BY <1>1, <1>2, <1>4 DEF LockInv, ThreadLocksOK

\* Taking the lock of the process for a path.
LEMMA OpenStep ==
  ASSUME TypeInv, LockInv, NEW w \in Writers, NEW path \in Paths, Open(w, path),
         group' = group, \A v \in Writers : v # w => pc'[v] = pc[v],
         pc[w] \in UnderIndex <=> pc'[w] \in UnderIndex,
         pc[w] \notin UnderGroup, pc'[w] \notin UnderGroup,
         \A q \in Paths : InSection(w, q)' <=> q = path \/ InSection(w, q)
  PROVE  LockInv'
<1>1. FlocksOK' /\ FlocksApart'
  BY DEF LockInv, FlocksOK, FlocksApart, LockFile, Open
<1>2. ASSUME NEW v \in Writers, NEW p \in Processes, NEW q \in Paths
      PROVE  threadLock'[<<p, q>>] = v <=> Process[v] = p /\ InSection(v, q)'
  <2>1. threadLock \in [Processes \X Paths -> Writers \cup {None}] /\ Process[w] \in Processes
    BY GroupAssumption DEF TypeInv, TypeOK
  <2>2. threadLock[<<p, q>>] = v <=> Process[v] = p /\ InSection(v, q)
    BY DEF LockInv, ThreadLocksOK
  <2>3. v # w => (InSection(v, q)' <=> InSection(v, q))
    BY DEF InSection
  <2>4. CASE p = Process[w] /\ q = path
    <3>1. threadLock'[<<p, q>>] = w /\ threadLock[<<p, q>>] = None
      BY <2>1, <2>4 DEF Open
    <3> QED
      BY <2>2, <2>3, <2>4, <3>1, GroupAssumption
  <2>5. CASE ~(p = Process[w] /\ q = path)
    <3>1. threadLock'[<<p, q>>] = threadLock[<<p, q>>]
      BY <2>1, <2>5 DEF Open
    <3> QED
      BY <2>2, <2>3, <2>5, <3>1
  <2> QED
    BY <2>4, <2>5
<1> QED
  BY <1>1, <1>2 DEF LockInv, ThreadLocksOK

\* Taking the lock of the file.
LEMMA FlockStep ==
  ASSUME TypeInv, LockInv, NEW w \in Writers, NEW path \in Paths, Flock(w),
         opened[w] = LockFile(path),
         group' = group, \A v \in Writers : v # w => pc'[v] = pc[v],
         \A l \in Inodes :
           \/ l = LockFile(Index) /\ pc'[w] \in UnderIndex
           \/ l = LockFile(group[w]) /\ pc'[w] \in UnderGroup
           <=>
           \/ l = LockFile(path)
           \/ l = LockFile(Index) /\ pc[w] \in UnderIndex
           \/ l = LockFile(group[w]) /\ pc[w] \in UnderGroup,
         \A q \in Paths : InSection(w, q)' <=> InSection(w, q)
  PROVE  LockInv'
<1>1. flocks' \in [Writers -> SUBSET Inodes] /\ flocks \in [Writers -> SUBSET Inodes]
  BY LockTypes, LockFileType DEF TypeInv, TypeOK, LocksTyped
<1>2. /\ flocks'[w] = flocks[w] \cup {LockFile(path)}
      /\ \A v \in Writers : v # w => flocks'[v] = flocks[v]
      /\ \A v \in Writers : LockFile(path) \notin flocks[v]
  BY <1>1 DEF Flock
<1>3. FlocksOK'
  <2>1. ASSUME NEW l \in Inodes
        PROVE  l \in flocks'[w] <=>
                 \/ l = LockFile(Index) /\ pc'[w] \in UnderIndex
                 \/ l = LockFile(group[w]) /\ pc'[w] \in UnderGroup
    BY <1>2 DEF LockInv, FlocksOK
  <2> QED
    BY <1>2, <2>1 DEF LockInv, FlocksOK, LockFile
<1>4. FlocksApart'
  BY <1>2 DEF LockInv, FlocksApart
<1>5. threadLock' = threadLock
  BY DEF Flock
<1>6. \A v \in Writers, q \in Paths : InSection(v, q)' <=> InSection(v, q)
  BY DEF InSection
<1>7. ASSUME NEW v \in Writers, NEW p \in Processes, NEW q \in Paths
      PROVE  threadLock'[<<p, q>>] = v <=> Process[v] = p /\ InSection(v, q)'
  BY <1>5, <1>6 DEF LockInv, ThreadLocksOK
<1> QED
  BY <1>3, <1>4, <1>7 DEF LockInv, ThreadLocksOK

\* Giving back both locks of a path.
LEMMA CloseStep ==
  ASSUME TypeInv, LockInv, NEW w \in Writers, NEW path \in Paths, Close(w, path),
         group' = group, \A v \in Writers : v # w => pc'[v] = pc[v],
         \A l \in Inodes :
           \/ l = LockFile(Index) /\ pc'[w] \in UnderIndex
           \/ l = LockFile(group[w]) /\ pc'[w] \in UnderGroup
           <=>
           /\ l # LockFile(path)
           /\ \/ l = LockFile(Index) /\ pc[w] \in UnderIndex
              \/ l = LockFile(group[w]) /\ pc[w] \in UnderGroup,
         \A q \in Paths : InSection(w, q)' <=> q # path /\ InSection(w, q)
  PROVE  LockInv'
<1>1. flocks \in [Writers -> SUBSET Inodes]
      /\ threadLock \in [Processes \X Paths -> Writers \cup {None}]
  BY DEF TypeInv, TypeOK
<1>2. /\ flocks'[w] = {l \in flocks[w] : l[1] # path}
      /\ \A v \in Writers : v # w => flocks'[v] = flocks[v]
  BY <1>1 DEF Close
<1>3. ASSUME NEW l \in flocks[w] PROVE l[1] # path <=> l # LockFile(path)
  BY <1>1 DEF LockInv, FlocksOK, LockFile
<1>4. FlocksOK'
  <2>1. ASSUME NEW l \in Inodes
        PROVE  l \in flocks'[w] <=>
                 \/ l = LockFile(Index) /\ pc'[w] \in UnderIndex
                 \/ l = LockFile(group[w]) /\ pc'[w] \in UnderGroup
    BY <1>2, <1>3 DEF LockInv, FlocksOK
  <2> QED
    BY <1>2, <2>1 DEF LockInv, FlocksOK, LockFile
<1>5. FlocksApart'
  BY <1>2 DEF LockInv, FlocksApart
<1>6. ASSUME NEW v \in Writers, NEW p \in Processes, NEW q \in Paths
      PROVE  threadLock'[<<p, q>>] = v <=> Process[v] = p /\ InSection(v, q)'
  <2>1. threadLock'[<<p, q>>] =
          IF q = path /\ threadLock[<<p, q>>] = w THEN None ELSE threadLock[<<p, q>>]
    BY DEF Close, Unlocked
  <2>2. threadLock[<<p, q>>] = v <=> Process[v] = p /\ InSection(v, q)
    BY DEF LockInv, ThreadLocksOK
  <2>3. v # w => (InSection(v, q)' <=> InSection(v, q))
    BY DEF InSection
  <2> QED
    BY <2>1, <2>2, <2>3, GroupAssumption
<1> QED
  BY <1>4, <1>5, <1>6 DEF LockInv, ThreadLocksOK

\* What a step of w says of where the writers are.
LEMMA Moves ==
  ASSUME TypeInv, NEW w \in Writers, NEW from, NEW to \in Steps, Goto(w, from, to)
  PROVE  /\ pc[w] = from /\ pc'[w] = to
         /\ \A v \in Writers : v # w => pc'[v] = pc[v]
  BY GotoTypes DEF TypeInv

LEMMA LockFilesDiffer ==
  ASSUME TypeInv, NEW w \in Writers, pc[w] \in Merging
  PROVE  /\ group[w] \in Paths /\ group[w] # Index
         /\ LockFile(group[w]) # LockFile(Index)
<1>1. group[w] \in Writers
  BY DEF TypeInv, TypeOK, FilesOK
<1> QED
  BY <1>1, GroupAssumption DEF Paths, LockFile

LEMMA IndexStepLocks ==
  ASSUME TypeInv, LockInv, NEW w \in Writers,
         OpenIndex(w) \/ LockIndex(w) \/ CloseIndex(w)
  PROVE  LockInv'
<1> USE DEF Steps, UnderIndex, UnderGroup, Ended
<1>1. Index \in Paths
  BY DEF Paths
<1>2. CASE OpenIndex(w)
  <2>1. /\ pc[w] = "idle" /\ pc'[w] = "index" /\ group' = group
        /\ \A v \in Writers : v # w => pc'[v] = pc[v]
    BY <1>2, Moves DEF OpenIndex
  <2>2. \A q \in Paths : InSection(w, q)' <=> q = Index \/ InSection(w, q)
    BY <2>1 DEF InSection
  <2> QED
    BY <1>1, <1>2, <2>1, <2>2, OpenStep DEF OpenIndex
<1>3. CASE LockIndex(w)
  <2>1. /\ pc[w] = "index" /\ pc'[w] = "look" /\ group' = group
        /\ \A v \in Writers : v # w => pc'[v] = pc[v]
    BY <1>3, Moves DEF LockIndex
  <2>2. \A q \in Paths : InSection(w, q)' <=> InSection(w, q)
    BY <2>1 DEF InSection
  <2>3. opened[w] = LockFile(Index)
    BY <2>1 DEF TypeInv, OpenedOK
  <2> QED
    BY <1>1, <1>3, <2>1, <2>2, <2>3, FlockStep DEF LockIndex
<1>4. CASE CloseIndex(w)
  <2>1. /\ pc[w] = "leave" /\ pc'[w] = "done" /\ group' = group
        /\ \A v \in Writers : v # w => pc'[v] = pc[v]
    BY <1>4, Moves DEF CloseIndex
  <2>2. \A q \in Paths : InSection(w, q)' <=> q # Index /\ InSection(w, q)
    BY <2>1 DEF InSection
  <2> QED
    BY <1>1, <1>4, <2>1, <2>2, CloseStep DEF CloseIndex
<1> QED
  BY <1>2, <1>3, <1>4

LEMMA GroupStepLocks ==
  ASSUME TypeInv, LockInv, NEW w \in Writers,
         OpenGroup(w) \/ LockGroup(w) \/ CloseGroup(w)
  PROVE  LockInv'
<1> USE DEF Steps, UnderIndex, UnderGroup, Ended
<1>1. CASE OpenGroup(w)
  <2>1. /\ pc[w] = "merge" /\ pc'[w] = "group" /\ group' = group
        /\ \A v \in Writers : v # w => pc'[v] = pc[v]
    BY <1>1, Moves DEF OpenGroup
  <2>2. group[w] \in Paths
    BY <2>1, LockFilesDiffer DEF Merging
  <2>3. \A q \in Paths : InSection(w, q)' <=> q = group[w] \/ InSection(w, q)
    BY <2>1 DEF InSection
  <2> QED
    BY <1>1, <2>1, <2>2, <2>3, OpenStep DEF OpenGroup
<1>2. CASE LockGroup(w)
  <2>1. /\ pc[w] = "group" /\ pc'[w] = "load" /\ group' = group
        /\ \A v \in Writers : v # w => pc'[v] = pc[v]
    BY <1>2, Moves DEF LockGroup
  <2>2. group[w] \in Paths
    BY <2>1, LockFilesDiffer DEF Merging
  <2>3. \A q \in Paths : InSection(w, q)' <=> InSection(w, q)
    BY <2>1 DEF InSection
  <2>4. opened[w] = LockFile(group[w])
    BY <2>1 DEF TypeInv, OpenedOK
  <2> QED
    BY <1>2, <2>1, <2>2, <2>3, <2>4, FlockStep DEF LockGroup
<1>3. CASE CloseGroup(w)
  <2>1. /\ pc[w] = "close" /\ pc'[w] = "leave" /\ group' = group
        /\ \A v \in Writers : v # w => pc'[v] = pc[v]
    BY <1>3, Moves DEF CloseGroup
  <2>2. group[w] \in Paths /\ group[w] # Index /\ LockFile(group[w]) # LockFile(Index)
    BY <2>1, LockFilesDiffer DEF Merging
  <2>3. \A q \in Paths : InSection(w, q)' <=> q # group[w] /\ InSection(w, q)
    BY <2>1, <2>2 DEF InSection
  <2> QED
    BY <1>3, <2>1, <2>2, <2>3, CloseStep DEF CloseGroup
<1> QED
  BY <1>1, <1>2, <1>3

LEMMA DataStepLocks ==
  ASSUME TypeInv, LockInv, NEW w \in Writers,
         LookUp(w) \/ CreateGroup(w) \/ RegisterGroup(w) \/ LoadGroup(w) \/ UpdateGroup(w)
  PROVE  LockInv'
<1> USE DEF Steps, UnderIndex, UnderGroup, Ended
<1>1. UNCHANGED lockVars
  BY DEF LookUp, CreateGroup, RegisterGroup, LoadGroup, UpdateGroup
<1>2. CASE LookUp(w)
  <2>1. PICK to \in {"merge", "create"} : Goto(w, "look", to)
    BY <1>2 DEF LookUp
  <2>2. /\ pc[w] = "look" /\ pc'[w] = to
        /\ \A v \in Writers : v # w => pc'[v] = pc[v]
    BY <2>1, Moves
  <2>3. \A v \in Writers : v # w => group'[v] = group[v]
    BY <1>2 DEF LookUp, TypeInv, TypeOK
  <2> QED
    BY <1>1, <2>2, <2>3, NoLockStep
<1>3. CASE CreateGroup(w) \/ RegisterGroup(w) \/ LoadGroup(w) \/ UpdateGroup(w)
  <2>1. PICK from \in {"create", "register", "load", "update"},
             to \in {"register", "leave", "update", "close"} :
          /\ Goto(w, from, to)
          /\ from \in UnderGroup <=> to \in UnderGroup
    BY <1>3 DEF CreateGroup, RegisterGroup, LoadGroup, UpdateGroup
  <2>2. /\ pc[w] = from /\ pc'[w] = to
        /\ \A v \in Writers : v # w => pc'[v] = pc[v]
    BY <2>1, Moves
  <2>3. group' = group
    BY <1>3 DEF CreateGroup, RegisterGroup, LoadGroup, UpdateGroup
  <2> QED
    BY <1>1, <2>1, <2>2, <2>3, NoLockStep
<1> QED
  BY <1>2, <1>3

LEMMA AbortLocks ==
  ASSUME TypeInv, LockInv, NEW W \in SUBSET Writers, Abort(W)
  PROVE  LockInv'
<1> USE DEF UnderIndex, UnderGroup
<1>1. \A v \in Writers : /\ pc'[v] = IF v \in W THEN "dead" ELSE pc[v]
                         /\ flocks'[v] = IF v \in W THEN {} ELSE flocks[v]
                         /\ group'[v] = group[v]
  BY DEF Abort
<1>2. FlocksOK' /\ FlocksApart'
  BY <1>1 DEF LockInv, FlocksOK, FlocksApart, LockFile
<1>3. ASSUME NEW v \in Writers, NEW p \in Processes, NEW q \in Paths
      PROVE  threadLock'[<<p, q>>] = v <=> Process[v] = p /\ InSection(v, q)'
  <2>1. threadLock'[<<p, q>>] =
          IF threadLock[<<p, q>>] \in W THEN None ELSE threadLock[<<p, q>>]
    BY DEF Abort
  <2>2. threadLock[<<p, q>>] = v <=> Process[v] = p /\ InSection(v, q)
    BY DEF LockInv, ThreadLocksOK
  <2>3. InSection(v, q)' <=> v \notin W /\ InSection(v, q)
    BY <1>1 DEF InSection
  <2> QED
    BY <2>1, <2>2, <2>3, GroupAssumption
<1> QED
  BY <1>2, <1>3 DEF LockInv, ThreadLocksOK

LEMMA NextLockInv == TypeInv /\ LockInv /\ [Next]_vars => LockInv'
<1> SUFFICES ASSUME TypeInv, LockInv, [Next]_vars PROVE LockInv'
  OBVIOUS
<1>1. CASE UNCHANGED vars
  <2>1. ASSUME NEW v \in Writers, NEW q \in Paths PROVE InSection(v, q)' <=> InSection(v, q)
    BY <1>1 DEF InSection, vars
  <2>2. ASSUME NEW v \in Writers, NEW p \in Processes, NEW q \in Paths
        PROVE  threadLock'[<<p, q>>] = v <=> Process[v] = p /\ InSection(v, q)'
    BY <1>1, <2>1 DEF LockInv, ThreadLocksOK, vars, lockVars
  <2>3. FlocksOK' /\ FlocksApart'
    BY <1>1 DEF LockInv, FlocksOK, FlocksApart, LockFile, vars, lockVars
  <2> QED
    BY <2>2, <2>3 DEF LockInv, ThreadLocksOK
<1>2. ASSUME NEW w \in Writers, WriterStep(w) PROVE LockInv'
  BY <1>2, IndexStepLocks, GroupStepLocks, DataStepLocks DEF WriterStep
<1>3. ASSUME NEW w \in Writers, Raise(w) PROVE LockInv'
  BY <1>3, AbortLocks DEF Raise
<1>4. ASSUME NEW p \in Processes, Kill(p) PROVE LockInv'
  BY <1>4, AbortLocks DEF Kill
<1> QED
  BY <1>1, <1>2, <1>3, <1>4 DEF Next

LEMMA Locked == Spec => []LockInv
  BY InitLockInv, NextLockInv, Typed, PTL DEF Spec

(***************************************************************************)
(* No deadlock.                                                            *)
(***************************************************************************)

\* A writer waits for a lock that somebody has; the other steps wait for nothing.
Waits(w) ==
  \/ pc[w] = "idle" /\ threadLock[<<Process[w], Index>>] # None
  \/ pc[w] = "merge" /\ threadLock[<<Process[w], group[w]>>] # None
  \/ pc[w] \in {"index", "group"} /\ \E v \in Writers : opened[w] \in flocks[v]

\* Whoever has the index locked waits for nobody.
HolderGoesOn == \A w \in Writers : pc[w] \in UnderIndex => ~Waits(w)

\* As long as somebody has not ended, somebody does not wait.
SomeoneGoesOn ==
  (\E w \in Writers : pc[w] \notin Ended) => \E w \in Writers : pc[w] \notin Ended /\ ~Waits(w)

LEMMA HolderIsFree == TypeInv /\ LockInv => HolderGoesOn
<1> SUFFICES ASSUME TypeInv, LockInv, NEW w \in Writers, pc[w] \in UnderIndex
             PROVE  ~Waits(w)
  BY DEF HolderGoesOn
<1>1. CASE pc[w] \in {"merge", "group"}
  <2>1. group[w] \in Paths /\ group[w] # Index /\ LockFile(group[w]) # LockFile(Index)
    BY <1>1, LockFilesDiffer DEF Merging
  <2>2. LockFile(group[w]) \in Inodes
    BY <2>1, LockFileType
  <2>3. ASSUME NEW v \in Writers, pc[v] \in {"group"} \cup UnderGroup PROVE v = w
    BY <2>3, OneUnderIndex DEF UnderIndex, UnderGroup
  <2>4. CASE pc[w] = "merge"
    <3>1. ASSUME NEW v \in Writers, threadLock[<<Process[w], group[w]>>] = v PROVE FALSE
      <4>1. InSection(v, group[w])
        BY <2>1, <3>1, GroupAssumption DEF LockInv, ThreadLocksOK
      <4>2. pc[v] \in {"group"} \cup UnderGroup
        BY <2>1, <4>1 DEF InSection
      <4> QED
        BY <2>3, <2>4, <4>2 DEF UnderGroup
    <3>2. threadLock[<<Process[w], group[w]>>] \in Writers \cup {None}
      BY <2>1, GroupAssumption DEF TypeInv, TypeOK
    <3> QED
      BY <2>4, <3>1, <3>2 DEF Waits
  <2>5. CASE pc[w] = "group"
    <3>1. opened[w] = LockFile(group[w])
      BY <2>5 DEF TypeInv, OpenedOK
    <3>2. ASSUME NEW v \in Writers, LockFile(group[w]) \in flocks[v] PROVE FALSE
      <4>1. pc[v] \in UnderGroup
        BY <2>1, <2>2, <3>2 DEF LockInv, FlocksOK
      <4> QED
        BY <2>3, <2>5, <4>1 DEF UnderGroup
    <3> QED
      BY <2>5, <3>1, <3>2 DEF Waits
  <2> QED
    BY <1>1, <2>4, <2>5
<1> QED
  BY <1>1 DEF Waits, UnderIndex

LEMMA NoneIsStuck == TypeInv /\ LockInv => SomeoneGoesOn
<1> SUFFICES ASSUME TypeInv, LockInv, NEW w \in Writers, pc[w] \notin Ended
             PROVE  \E v \in Writers : pc[v] \notin Ended /\ ~Waits(v)
  BY DEF SomeoneGoesOn
<1>1. Index \in Paths /\ LockFile(Index) \in Inodes
  BY LockFileType DEF Paths
<1>2. CASE \E v \in Writers : pc[v] \in UnderIndex
  BY <1>2, HolderIsFree DEF HolderGoesOn, UnderIndex, Ended
<1>3. CASE /\ \A v \in Writers : pc[v] \notin UnderIndex
           /\ \E v \in Writers : pc[v] = "index"
  <2>1. PICK v \in Writers : pc[v] = "index"
    BY <1>3
  <2>2. opened[v] = LockFile(Index)
    BY <2>1 DEF TypeInv, OpenedOK
  <2>3. \A u \in Writers : LockFile(Index) \notin flocks[u]
    BY <1>1, <1>3 DEF LockInv, FlocksOK, UnderIndex, UnderGroup
  <2> QED
    BY <2>1, <2>2, <2>3 DEF Waits, Ended
<1>4. CASE \A v \in Writers : pc[v] \notin UnderIndex /\ pc[v] # "index"
  <2>1. pc[w] = "idle"
    BY <1>4, PcType DEF TypeInv, Steps
  <2>2. threadLock[<<Process[w], Index>>] \in Writers \cup {None}
    BY <1>1, GroupAssumption DEF TypeInv, TypeOK
  <2>3. ASSUME NEW u \in Writers, threadLock[<<Process[w], Index>>] = u PROVE FALSE
    <3>1. InSection(u, Index)
      BY <1>1, <2>3, GroupAssumption DEF LockInv, ThreadLocksOK
    <3> QED
      BY <1>4, <3>1 DEF InSection, UnderIndex, UnderGroup
  <2> QED
    BY <2>1, <2>2, <2>3 DEF Waits, Ended
<1> QED
  BY <1>2, <1>3, <1>4

\* "so there is no deadlock", in two parts: a writer that has the index
\* locked does not wait for the lock of a group's file, neither for a thread
\* of its process nor for another process; and as long as a writer has not
\* ended, one of those that have not waits for nobody.
THEOREM NoDeadlock == Spec => [](HolderGoesOn /\ SomeoneGoesOn)
<1>1. TypeInv /\ LockInv => HolderGoesOn /\ SomeoneGoesOn
  BY HolderIsFree, NoneIsStuck
<1> QED
  BY <1>1, Typed, Locked, PTL

(***************************************************************************)
(* What the writers know of the index and of the files.                    *)
(***************************************************************************)

\* What a writer that creates has seen is the index still, and its group is not there.
SeenCurrent ==
  \A w \in Writers : pc[w] \in {"create", "register"} =>
    seen[w] = index /\ index[Name[w]] = None

\* A writer that merges does so into the file of its group, and has its content.
MergesRight ==
  \A w \in Writers :
    /\ pc[w] \in Merging => group[w] = index[Name[w]]
    /\ pc[w] = "update" /\ group[w] \notin misread => read[w] = content[group[w]]

\* A file that is there is the file of its group, or about to be registered, or its creator
\* has been cut short; before it is registered it has its creator's mention.
Registered ==
  \A f \in files :
    /\ pc[f] \notin {"register", "dead"} => index[Name[f]] = f
    /\ pc[f] = "register" => f \in content[f]

DataInv == Index \notin misread => SeenCurrent /\ MergesRight /\ Registered /\ MentionsKept

LEMMA InitDataInv == Init => DataInv
  BY DEF Init, DataInv, SeenCurrent, MergesRight, Registered, MentionsKept, Merging, UnderGroup

\* A step of w that changes no file and no knowledge.
LEMMA QuietData ==
  ASSUME TypeInv, DataInv, NEW w \in Writers,
         UNCHANGED <<fileVars, seen, group, read, saved, misread>>,
         \A v \in Writers : v # w => pc'[v] = pc[v],
         pc'[w] \notin {"create", "register", "update"},
         pc'[w] \in Merging => pc[w] \in Merging,
         pc[w] \in {"register", "dead"} => pc'[w] = "dead"
  PROVE  DataInv'
<1> SUFFICES ASSUME Index \notin misread
             PROVE  (SeenCurrent /\ MergesRight /\ Registered /\ MentionsKept)'
  BY DEF DataInv
<1>1. SeenCurrent /\ MergesRight /\ Registered /\ MentionsKept
  BY DEF DataInv
<1>2. SeenCurrent'
  BY <1>1 DEF SeenCurrent, fileVars
<1>3. MergesRight'
  BY <1>1 DEF MergesRight, fileVars, Merging, UnderGroup
<1>4. Registered'
  BY <1>1 DEF Registered, fileVars, TypeInv, TypeOK
<1>5. MentionsKept'
  BY <1>1 DEF MentionsKept, fileVars
<1> QED
  BY <1>2, <1>3, <1>4, <1>5

LEMMA LockStepData ==
  ASSUME TypeInv, DataInv, NEW w \in Writers,
         \/ OpenIndex(w) \/ LockIndex(w) \/ CloseIndex(w)
         \/ OpenGroup(w) \/ LockGroup(w) \/ CloseGroup(w)
  PROVE  DataInv'
<1> USE DEF Steps, UnderIndex, UnderGroup, Merging, Ended
<1>1. PICK from \in {"idle", "index", "leave", "merge", "group", "close"},
           to \in {"index", "look", "done", "group", "load", "leave"} :
        /\ Goto(w, from, to)
        /\ to \in Merging => from \in Merging
  BY DEF OpenIndex, LockIndex, CloseIndex, OpenGroup, LockGroup, CloseGroup
<1>2. /\ pc[w] = from /\ pc'[w] = to
      /\ \A v \in Writers : v # w => pc'[v] = pc[v]
  BY <1>1, Moves
<1>3. UNCHANGED <<fileVars, seen, group, read, saved, misread>>
  BY DEF OpenIndex, LockIndex, CloseIndex, OpenGroup, LockGroup, CloseGroup
<1> QED
  BY <1>1, <1>2, <1>3, QuietData

LEMMA LookUpData ==
  ASSUME TypeInv, DataInv, NEW w \in Writers, LookUp(w)
  PROVE  DataInv'
<1> USE DEF Steps, UnderIndex, UnderGroup, Merging, Ended
<1> SUFFICES ASSUME Index \notin misread'
             PROVE  (SeenCurrent /\ MergesRight /\ Registered /\ MentionsKept)'
  BY DEF DataInv
<1>1. seen' = [seen EXCEPT ![w] = index] /\ misread' = misread
  BY DEF LookUp
<1>2. SeenCurrent /\ MergesRight /\ Registered /\ MentionsKept
  BY <1>1 DEF DataInv
<1>3. UNCHANGED <<index, content, files, read, saved>>
  BY DEF LookUp, fileVars
<1>4. /\ index \in [Names -> files \cup {None}] /\ Name[w] \in Names
      /\ seen \in [Writers -> Lookup] /\ group \in [Writers -> Writers \cup {None}]
      /\ files \in SUBSET Writers
  BY GroupAssumption DEF TypeInv, TypeOK
<1>5. /\ seen'[w] = index
      /\ \A v \in Writers : v # w => seen'[v] = seen[v]
  BY <1>1, <1>4
<1>6. CASE index[Name[w]] \in files
  <2>1. Goto(w, "look", "merge") /\ group' = [group EXCEPT ![w] = index[Name[w]]]
    BY <1>5, <1>6 DEF LookUp
  <2>2. /\ pc[w] = "look" /\ pc'[w] = "merge" /\ group'[w] = index[Name[w]]
        /\ \A v \in Writers : v # w => pc'[v] = pc[v] /\ group'[v] = group[v]
    BY <1>4, <2>1, Moves
  <2>3. SeenCurrent'
    BY <1>2, <1>3, <1>5, <2>2 DEF SeenCurrent
  <2>4. MergesRight'
    BY <1>1, <1>2, <1>3, <2>2 DEF MergesRight
  <2>5. Registered' /\ MentionsKept'
    BY <1>1, <1>2, <1>3, <1>4, <2>2 DEF Registered, MentionsKept
  <2> QED
    BY <2>3, <2>4, <2>5
<1>7. CASE index[Name[w]] \notin files
  <2>1. Goto(w, "look", "create") /\ group' = group
    BY <1>5, <1>7 DEF LookUp
  <2>2. /\ pc[w] = "look" /\ pc'[w] = "create"
        /\ \A v \in Writers : v # w => pc'[v] = pc[v]
    BY <2>1, Moves
  <2>3. index[Name[w]] = None
    BY <1>4, <1>7
  <2>4. SeenCurrent'
    BY <1>2, <1>3, <1>5, <2>2, <2>3 DEF SeenCurrent
  <2>5. MergesRight'
    BY <1>1, <1>2, <1>3, <2>1, <2>2 DEF MergesRight
  <2>6. Registered' /\ MentionsKept'
    BY <1>1, <1>2, <1>3, <1>4, <2>2 DEF Registered, MentionsKept
  <2> QED
    BY <2>4, <2>5, <2>6
<1> QED
  BY <1>6, <1>7

\* A file that is about to be created is nobody's yet.
LEMMA CreateData ==
  ASSUME TypeInv, LockInv, DataInv, NEW w \in Writers, CreateGroup(w)
  PROVE  DataInv'
<1> USE DEF Steps, UnderIndex, UnderGroup, Merging, Ended
<1> SUFFICES ASSUME Index \notin misread
             PROVE  (SeenCurrent /\ MergesRight /\ Registered /\ MentionsKept)'
  BY DEF DataInv, CreateGroup
<1>1. SeenCurrent /\ MergesRight /\ Registered /\ MentionsKept
  BY DEF DataInv
<1>2. UNCHANGED <<index, seen, group, read, saved, misread>>
  BY DEF CreateGroup
<1>3. PICK to \in {"register", "leave"} : Goto(w, "create", to)
  BY DEF CreateGroup
<1>4. /\ pc[w] = "create" /\ pc'[w] = to
      /\ \A v \in Writers : v # w => pc'[v] = pc[v]
  BY <1>3, Moves
<1>5. w \notin files /\ files \in SUBSET Writers /\ content \in [Writers -> SUBSET Writers]
  BY <1>4 DEF TypeInv, TypeOK, FilesOK
<1>6. \/ pc'[w] = "register" /\ files' = files \cup {w} /\ content' = [content EXCEPT ![w] = {w}]
      \/ pc'[w] = "leave" /\ files' = files /\ content' = content
  BY <1>4 DEF CreateGroup, Goto, TypeInv, TypeOK
<1>7. \A f \in files : f # w /\ f \in files' /\ content'[f] = content[f]
  BY <1>5, <1>6
<1>8. SeenCurrent'
  BY <1>1, <1>2, <1>4 DEF SeenCurrent
<1>9. MergesRight'
  BY <1>1, <1>2, <1>4, <1>7 DEF MergesRight, TypeInv, FilesOK
<1>10. Registered'
  BY <1>1, <1>2, <1>4, <1>5, <1>6, <1>7 DEF Registered
<1>11. MentionsKept'
  BY <1>1, <1>2, <1>7 DEF MentionsKept
<1> QED
  BY <1>8, <1>9, <1>10, <1>11

LEMMA RegisterData ==
  ASSUME TypeInv, LockInv, DataInv, NEW w \in Writers, RegisterGroup(w)
  PROVE  DataInv'
<1> USE DEF Steps, UnderIndex, UnderGroup, Merging, Ended
<1> SUFFICES ASSUME Index \notin misread
             PROVE  (SeenCurrent /\ MergesRight /\ Registered /\ MentionsKept)'
  BY DEF DataInv, RegisterGroup
<1>1. SeenCurrent /\ MergesRight /\ Registered /\ MentionsKept
  BY DEF DataInv
<1>2. UNCHANGED <<content, files, seen, group, read, misread>> /\ saved' = saved \cup {w}
  BY DEF RegisterGroup
<1>3. /\ pc[w] = "register" /\ pc'[w] = "leave"
      /\ \A v \in Writers : v # w => pc'[v] = pc[v]
  BY Moves DEF RegisterGroup
<1>4. /\ index \in [Names -> files \cup {None}] /\ Name \in [Writers -> Names]
      /\ files \in SUBSET Writers /\ None \notin Writers /\ saved \in SUBSET Writers
  BY GroupAssumption DEF TypeInv, TypeOK
<1>5. w \in files /\ w \in content[w] /\ index[Name[w]] = None /\ seen[w] = index
  BY <1>1, <1>3 DEF TypeInv, FilesOK, Registered, SeenCurrent
<1>6. /\ index' = [index EXCEPT ![Name[w]] = w]
      /\ index'[Name[w]] = w
      /\ \A v \in Writers : Name[v] # Name[w] => index'[Name[v]] = index[Name[v]]
  BY <1>4, <1>5 DEF RegisterGroup
<1>7. \A v \in Writers : v # w => pc[v] \notin UnderIndex
  BY <1>3, OneUnderIndex
<1>8. SeenCurrent'
  BY <1>3, <1>7 DEF SeenCurrent
<1>9. MergesRight'
  BY <1>3, <1>7 DEF MergesRight
<1>10. Registered'
  <2>1. ASSUME NEW f \in files, f # w, pc[f] \notin {"register", "dead"}
        PROVE  index'[Name[f]] = f
    <3>1. f \in Writers /\ index[Name[f]] = f
      BY <1>1, <1>4, <2>1 DEF Registered
    <3> QED
      BY <1>4, <1>5, <1>6, <3>1
  <2> QED
    BY <1>1, <1>2, <1>3, <1>6, <2>1, <1>4 DEF Registered
<1>11. MentionsKept'
  <2>1. ASSUME NEW v \in saved
        PROVE  /\ index'[Name[v]] \in files
               /\ index'[Name[v]] \notin misread => v \in content[index'[Name[v]]]
    <3>1. /\ v \in Writers /\ index[Name[v]] \in files
          /\ index[Name[v]] \notin misread => v \in content[index[Name[v]]]
      BY <1>1, <1>4, <2>1 DEF MentionsKept
    <3>2. index'[Name[v]] = index[Name[v]]
      BY <1>4, <1>5, <1>6, <3>1
    <3> QED
      BY <3>1, <3>2
  <2> QED
    BY <1>2, <1>5, <1>6, <2>1 DEF MentionsKept
<1> QED
  BY <1>8, <1>9, <1>10, <1>11

LEMMA LoadData ==
  ASSUME TypeInv, LockInv, DataInv, NEW w \in Writers, LoadGroup(w)
  PROVE  DataInv'
<1> USE DEF Steps, UnderIndex, UnderGroup, Merging, Ended
<1>0. misread \subseteq misread'
  BY DEF LoadGroup
<1> SUFFICES ASSUME Index \notin misread'
             PROVE  (SeenCurrent /\ MergesRight /\ Registered /\ MentionsKept)'
  BY DEF DataInv
<1>1. SeenCurrent /\ MergesRight /\ Registered /\ MentionsKept
  BY <1>0 DEF DataInv
<1>2. UNCHANGED <<index, content, files, seen, group, saved>>
  BY DEF LoadGroup, fileVars
<1>3. /\ pc[w] = "load" /\ pc'[w] = "update"
      /\ \A v \in Writers : v # w => pc'[v] = pc[v]
  BY Moves DEF LoadGroup
<1>4. /\ group[w] \notin misread' => read'[w] = content[group[w]]
      /\ \A v \in Writers : v # w => read'[v] = read[v]
  BY DEF LoadGroup, TypeInv, TypeOK
<1>5. SeenCurrent'
  BY <1>1, <1>2, <1>3 DEF SeenCurrent
<1>6. MergesRight'
  BY <1>0, <1>1, <1>2, <1>3, <1>4 DEF MergesRight
<1>7. Registered'
  BY <1>1, <1>2, <1>3 DEF Registered, TypeInv, TypeOK
<1>8. MentionsKept'
  BY <1>0, <1>1, <1>2 DEF MentionsKept
<1> QED
  BY <1>5, <1>6, <1>7, <1>8

\* What is written is what is there, and the mention of w.
LEMMA UpdateData ==
  ASSUME TypeInv, LockInv, DataInv, NEW w \in Writers, UpdateGroup(w)
  PROVE  DataInv'
<1> USE DEF Steps, UnderIndex, UnderGroup, Merging, Ended
<1> SUFFICES ASSUME Index \notin misread
             PROVE  (SeenCurrent /\ MergesRight /\ Registered /\ MentionsKept)'
  BY DEF DataInv, UpdateGroup
<1>1. SeenCurrent /\ MergesRight /\ Registered /\ MentionsKept
  BY DEF DataInv
<1>2. UNCHANGED <<index, files, seen, group, read, misread>>
  BY DEF UpdateGroup
<1>3. /\ pc[w] = "update" /\ pc'[w] = "close"
      /\ \A v \in Writers : v # w => pc'[v] = pc[v]
  BY Moves DEF UpdateGroup
<1>4. \A v \in Writers : v # w => pc[v] \notin UnderIndex
  BY <1>3, OneUnderIndex
<1>5. /\ group[w] = index[Name[w]] /\ group[w] \in files
      /\ group[w] \notin misread => read[w] = content[group[w]]
  BY <1>1, <1>3 DEF MergesRight, TypeInv, FilesOK
<1>6. content \in [Writers -> SUBSET Writers] /\ files \in SUBSET Writers
      /\ saved \in SUBSET Writers
  BY DEF TypeInv, TypeOK
<1>7. SeenCurrent'
  BY <1>3, <1>4 DEF SeenCurrent
<1>8. MergesRight'
  BY <1>2, <1>3, <1>4, <1>5 DEF MergesRight
<1>9. Registered'
  BY <1>1, <1>2, <1>3, <1>4, <1>6 DEF Registered
<1>10. MentionsKept'
  <2>1. CASE content' = content /\ saved' = saved
    BY <1>1, <1>2, <2>1 DEF MentionsKept
  <2>2. CASE /\ content' = [content EXCEPT ![group[w]] = read[w] \cup {w}]
             /\ saved' = saved \cup {w}
    <3>1. \A f \in files : f \notin misread => content[f] \subseteq content'[f]
      BY <1>5, <1>6, <2>2
    <3>2. w \in content'[group[w]]
      BY <1>5, <1>6, <2>2
    <3> QED
      BY <1>1, <1>2, <1>5, <2>2, <3>1, <3>2 DEF MentionsKept
  <2> QED
    BY <2>1, <2>2 DEF UpdateGroup
<1> QED
  BY <1>7, <1>8, <1>9, <1>10

LEMMA AbortData ==
  ASSUME TypeInv, DataInv, NEW W \in SUBSET Writers, Abort(W)
  PROVE  DataInv'
<1> USE DEF UnderGroup, Merging
<1> SUFFICES ASSUME Index \notin misread
             PROVE  (SeenCurrent /\ MergesRight /\ Registered /\ MentionsKept)'
  BY DEF DataInv, Abort
<1>1. SeenCurrent /\ MergesRight /\ Registered /\ MentionsKept
  BY DEF DataInv
<1>2. UNCHANGED <<index, content, files, seen, group, read, saved, misread>>
  BY DEF Abort, fileVars
<1>3. \A v \in Writers : pc'[v] = pc[v] \/ pc'[v] = "dead"
  BY DEF Abort
<1>4. SeenCurrent'
  BY <1>1, <1>2, <1>3 DEF SeenCurrent
<1>5. MergesRight'
  BY <1>1, <1>2, <1>3 DEF MergesRight
<1>6. Registered'
  BY <1>1, <1>2, <1>3 DEF Registered, TypeInv, TypeOK
<1>7. MentionsKept'
  BY <1>1, <1>2 DEF MentionsKept
<1> QED
  BY <1>4, <1>5, <1>6, <1>7

LEMMA NextDataInv == TypeInv /\ LockInv /\ DataInv /\ [Next]_vars => DataInv'
<1> SUFFICES ASSUME TypeInv, LockInv, DataInv, [Next]_vars PROVE DataInv'
  OBVIOUS
<1>1. CASE UNCHANGED vars
  BY <1>1 DEF DataInv, SeenCurrent, MergesRight, Registered, MentionsKept, vars, fileVars
<1>2. ASSUME NEW w \in Writers, WriterStep(w) PROVE DataInv'
  BY <1>2, LockStepData, LookUpData, CreateData, RegisterData, LoadData, UpdateData
  DEF WriterStep
<1>3. ASSUME NEW w \in Writers, Raise(w) PROVE DataInv'
  BY <1>3, AbortData DEF Raise
<1>4. ASSUME NEW p \in Processes, Kill(p) PROVE DataInv'
  BY <1>4, AbortData DEF Kill
<1> QED
  BY <1>1, <1>2, <1>3, <1>4 DEF Next

LEMMA Known == Spec => []DataInv
  BY InitDataInv, NextDataInv, Typed, Locked, PTL DEF Spec

\* A mention that has been saved stays in the file of its group, whoever
\* saves, fails or is killed afterwards.
THEOREM SavedStays == Spec => []MentionsKept
<1>1. DataInv => MentionsKept
  BY DEF DataInv, MentionsKept
<1> QED
  BY <1>1, Known, PTL

\* Overlapping writers converge to one file of a group.
THEOREM OneFileForGroup == Spec => []OneFile
<1>1. TypeInv /\ LockInv /\ DataInv => OneFile
  <2> SUFFICES ASSUME TypeInv, LockInv, DataInv, Index \notin misread,
                      NEW f \in files, NEW g \in files, Name[f] = Name[g],
                      pc[f] # "dead", pc[g] # "dead"
               PROVE  f = g
    BY DEF OneFile
  <2>1. f \in Writers /\ g \in Writers /\ None \notin Writers
    BY GroupAssumption DEF TypeInv, TypeOK
  <2>2. SeenCurrent /\ Registered
    BY DEF DataInv
  <2>3. CASE pc[f] = "register" /\ pc[g] = "register"
    BY <2>1, <2>3, OneUnderIndex DEF UnderIndex
  <2>4. CASE ~(pc[f] = "register" /\ pc[g] = "register")
    BY <2>1, <2>2, <2>4 DEF SeenCurrent, Registered
  <2> QED
    BY <2>3, <2>4
<1> QED
  BY <1>1, Typed, Locked, Known, PTL

(***************************************************************************)
(* The files implement MentionStore.                                       *)
(***************************************************************************)

\* What holds even of a damaged index: a writer has seen no entry that is not there, merges
\* into the file of its group, and has read nothing that is not there; an entry is a file of
\* its group; a new file has the mention of its creator.
SeesEntries ==
  \A w \in Writers : pc[w] \in {"create", "register"} =>
    \A n \in Names : seen[w][n] \in {None, index[n]}

MergesInGroup ==
  \A w \in Writers :
    /\ pc[w] \in Merging => group[w] = index[Name[w]]
    /\ pc[w] = "update" =>
         /\ read[w] \subseteq content[group[w]]
         /\ group[w] \notin misread => read[w] = content[group[w]]

EntriesRight ==
  /\ \A n \in Names : index[n] # None => Name[index[n]] = n
  /\ \A w \in Writers : pc[w] = "register" => content[w] = {w}

StoreInv == SeesEntries /\ MergesInGroup /\ EntriesRight

LEMMA InitStoreInv == Init => StoreInv
  BY DEF Init, StoreInv, SeesEntries, MergesInGroup, EntriesRight, NoGroups, Merging, UnderGroup

\* A step of w that changes no file and no knowledge.
LEMMA QuietStore ==
  ASSUME StoreInv, NEW w \in Writers,
         UNCHANGED <<fileVars, seen, group, read, misread>>,
         \A v \in Writers : v # w => pc'[v] = pc[v],
         pc'[w] \notin {"create", "register", "update"},
         pc'[w] \in Merging => pc[w] \in Merging
  PROVE  StoreInv'
<1>1. SeesEntries /\ MergesInGroup /\ EntriesRight
  BY DEF StoreInv
<1>2. SeesEntries'
  BY <1>1 DEF SeesEntries, fileVars
<1>3. MergesInGroup'
  BY <1>1 DEF MergesInGroup, fileVars, Merging, UnderGroup
<1>4. EntriesRight'
  BY <1>1 DEF EntriesRight, fileVars
<1> QED
  BY <1>2, <1>3, <1>4 DEF StoreInv

LEMMA LockStepStore ==
  ASSUME TypeInv, StoreInv, NEW w \in Writers,
         \/ OpenIndex(w) \/ LockIndex(w) \/ CloseIndex(w)
         \/ OpenGroup(w) \/ LockGroup(w) \/ CloseGroup(w)
  PROVE  StoreInv'
<1> USE DEF Steps, UnderIndex, UnderGroup, Merging, Ended
<1>1. PICK from \in {"idle", "index", "leave", "merge", "group", "close"},
           to \in {"index", "look", "done", "group", "load", "leave"} :
        /\ Goto(w, from, to)
        /\ to \in Merging => from \in Merging
  BY DEF OpenIndex, LockIndex, CloseIndex, OpenGroup, LockGroup, CloseGroup
<1>2. /\ pc[w] = from /\ pc'[w] = to
      /\ \A v \in Writers : v # w => pc'[v] = pc[v]
  BY <1>1, Moves
<1>3. UNCHANGED <<fileVars, seen, group, read, misread>>
  BY DEF OpenIndex, LockIndex, CloseIndex, OpenGroup, LockGroup, CloseGroup
<1> QED
  BY <1>1, <1>2, <1>3, QuietStore

LEMMA LookUpStore ==
  ASSUME TypeInv, StoreInv, NEW w \in Writers, LookUp(w)
  PROVE  StoreInv'
<1> USE DEF Steps, UnderIndex, UnderGroup, Merging, Ended
<1>1. SeesEntries /\ MergesInGroup /\ EntriesRight
  BY DEF StoreInv
<1>2. UNCHANGED <<index, content, files, read>> /\ misread \subseteq misread'
  BY DEF LookUp, fileVars
<1>3. /\ index \in [Names -> files \cup {None}] /\ Name[w] \in Names
      /\ seen \in [Writers -> Lookup] /\ group \in [Writers -> Writers \cup {None}]
      /\ files \in SUBSET Writers /\ None \notin Writers
  BY GroupAssumption DEF TypeInv, TypeOK
<1>4. /\ \A n \in Names : seen'[w][n] \in {None, index[n]}
      /\ \A v \in Writers : v # w => seen'[v] = seen[v]
  BY <1>3 DEF LookUp, NoGroups
<1>5. PICK to \in {"merge", "create"} :
        /\ Goto(w, "look", to)
        /\ to = "merge" => /\ seen'[w][Name[w]] \in files
                           /\ group' = [group EXCEPT ![w] = seen'[w][Name[w]]]
        /\ to = "create" => group' = group
  BY DEF LookUp
<1>6. /\ pc[w] = "look" /\ pc'[w] = to
      /\ \A v \in Writers : v # w => pc'[v] = pc[v]
  BY <1>5, Moves
<1>7. /\ \A v \in Writers : v # w => group'[v] = group[v]
      /\ to = "merge" => group'[w] = index[Name[w]]
  BY <1>3, <1>4, <1>5
<1>8. SeesEntries'
  BY <1>1, <1>2, <1>4, <1>6 DEF SeesEntries
<1>9. MergesInGroup'
  BY <1>1, <1>2, <1>6, <1>7 DEF MergesInGroup
<1>10. EntriesRight'
  BY <1>1, <1>2, <1>6 DEF EntriesRight
<1> QED
  BY <1>8, <1>9, <1>10 DEF StoreInv

LEMMA CreateStore ==
  ASSUME TypeInv, StoreInv, NEW w \in Writers, CreateGroup(w)
  PROVE  StoreInv'
<1> USE DEF Steps, UnderIndex, UnderGroup, Merging, Ended
<1>1. SeesEntries /\ MergesInGroup /\ EntriesRight
  BY DEF StoreInv
<1>2. UNCHANGED <<index, seen, group, read, misread>>
  BY DEF CreateGroup
<1>3. PICK to \in {"register", "leave"} : Goto(w, "create", to)
  BY DEF CreateGroup
<1>4. /\ pc[w] = "create" /\ pc'[w] = to
      /\ \A v \in Writers : v # w => pc'[v] = pc[v]
  BY <1>3, Moves
<1>5. w \notin files /\ content \in [Writers -> SUBSET Writers]
  BY <1>4 DEF TypeInv, TypeOK, FilesOK
<1>6. /\ \A f \in Writers : f # w => content'[f] = content[f]
      /\ pc'[w] = "register" => content'[w] = {w}
  BY <1>4, <1>5 DEF CreateGroup, Goto, TypeInv, TypeOK
<1>7. \A v \in Writers : pc[v] = "update" => group[v] \in Writers /\ group[v] # w
  BY <1>5 DEF TypeInv, TypeOK, FilesOK
<1>8. SeesEntries'
  BY <1>1, <1>2, <1>4 DEF SeesEntries
<1>9. MergesInGroup'
  BY <1>1, <1>2, <1>4, <1>6, <1>7 DEF MergesInGroup
<1>10. EntriesRight'
  BY <1>1, <1>2, <1>4, <1>6 DEF EntriesRight
<1> QED
  BY <1>8, <1>9, <1>10 DEF StoreInv

LEMMA RegisterStore ==
  ASSUME TypeInv, LockInv, StoreInv, NEW w \in Writers, RegisterGroup(w)
  PROVE  StoreInv'
<1> USE DEF Steps, UnderIndex, UnderGroup, Merging, Ended
<1>1. SeesEntries /\ MergesInGroup /\ EntriesRight
  BY DEF StoreInv
<1>2. UNCHANGED <<content, seen, group, read, misread>>
  BY DEF RegisterGroup
<1>3. /\ pc[w] = "register" /\ pc'[w] = "leave"
      /\ \A v \in Writers : v # w => pc'[v] = pc[v]
  BY Moves DEF RegisterGroup
<1>4. \A v \in Writers : v # w => pc[v] \notin UnderIndex
  BY <1>3, OneUnderIndex
<1>5. seen[w] \in [Names -> Writers \cup {None}] /\ Name \in [Writers -> Names]
  BY GroupAssumption DEF TypeInv, TypeOK, Lookup
<1>6. \A n \in Names : index'[n] = IF n = Name[w] THEN w ELSE seen[w][n]
  BY <1>5 DEF RegisterGroup
<1>7. SeesEntries'
  BY <1>3, <1>4 DEF SeesEntries
<1>8. MergesInGroup'
  BY <1>3, <1>4 DEF MergesInGroup
<1>9. EntriesRight'
  <2>1. ASSUME NEW n \in Names, index'[n] # None PROVE Name[index'[n]] = n
    BY <1>1, <1>3, <1>5, <1>6, <2>1 DEF SeesEntries, EntriesRight
  <2>2. \A v \in Writers : pc'[v] = "register" => content'[v] = {v}
    BY <1>1, <1>2, <1>3 DEF EntriesRight
  <2> QED
    BY <2>1, <2>2 DEF EntriesRight
<1> QED
  BY <1>7, <1>8, <1>9 DEF StoreInv

LEMMA LoadStore ==
  ASSUME TypeInv, StoreInv, NEW w \in Writers, LoadGroup(w)
  PROVE  StoreInv'
<1> USE DEF Steps, UnderIndex, UnderGroup, Merging, Ended
<1>1. SeesEntries /\ MergesInGroup /\ EntriesRight
  BY DEF StoreInv
<1>2. UNCHANGED <<index, content, files, seen, group>> /\ misread \subseteq misread'
  BY DEF LoadGroup, fileVars
<1>3. /\ pc[w] = "load" /\ pc'[w] = "update"
      /\ \A v \in Writers : v # w => pc'[v] = pc[v]
  BY Moves DEF LoadGroup
<1>4. /\ read'[w] \subseteq content[group[w]]
      /\ group[w] \notin misread' => read'[w] = content[group[w]]
      /\ \A v \in Writers : v # w => read'[v] = read[v]
  BY DEF LoadGroup, TypeInv, TypeOK
<1>5. SeesEntries'
  BY <1>1, <1>2, <1>3 DEF SeesEntries
<1>6. MergesInGroup'
  BY <1>1, <1>2, <1>3, <1>4 DEF MergesInGroup
<1>7. EntriesRight'
  BY <1>1, <1>2, <1>3 DEF EntriesRight
<1> QED
  BY <1>5, <1>6, <1>7 DEF StoreInv

LEMMA UpdateStore ==
  ASSUME TypeInv, LockInv, StoreInv, NEW w \in Writers, UpdateGroup(w)
  PROVE  StoreInv'
<1> USE DEF Steps, UnderIndex, UnderGroup, Merging, Ended
<1>1. SeesEntries /\ MergesInGroup /\ EntriesRight
  BY DEF StoreInv
<1>2. UNCHANGED <<index, files, seen, group, read, misread>>
  BY DEF UpdateGroup
<1>3. /\ pc[w] = "update" /\ pc'[w] = "close"
      /\ \A v \in Writers : v # w => pc'[v] = pc[v]
  BY Moves DEF UpdateGroup
<1>4. \A v \in Writers : v # w => pc[v] \notin UnderIndex
  BY <1>3, OneUnderIndex
<1>5. SeesEntries'
  BY <1>3, <1>4 DEF SeesEntries
<1>6. MergesInGroup'
  <2>1. group'[w] = index'[Name[w]]
    BY <1>1, <1>2, <1>3 DEF MergesInGroup
  <2> QED
    BY <1>3, <1>4, <2>1 DEF MergesInGroup
<1>7. EntriesRight'
  BY <1>1, <1>2, <1>3, <1>4 DEF EntriesRight
<1> QED
  BY <1>5, <1>6, <1>7 DEF StoreInv

LEMMA AbortStore ==
  ASSUME StoreInv, NEW W \in SUBSET Writers, Abort(W)
  PROVE  StoreInv'
<1> USE DEF UnderGroup, Merging
<1>1. SeesEntries /\ MergesInGroup /\ EntriesRight
  BY DEF StoreInv
<1>2. UNCHANGED <<index, content, files, seen, group, read, misread>>
  BY DEF Abort, fileVars
<1>3. \A v \in Writers : pc'[v] = pc[v] \/ pc'[v] = "dead"
  BY DEF Abort
<1>4. SeesEntries'
  BY <1>1, <1>2, <1>3 DEF SeesEntries
<1>5. MergesInGroup'
  BY <1>1, <1>2, <1>3 DEF MergesInGroup
<1>6. EntriesRight'
  BY <1>1, <1>2, <1>3 DEF EntriesRight
<1> QED
  BY <1>4, <1>5, <1>6 DEF StoreInv

LEMMA NextStoreInv == TypeInv /\ LockInv /\ StoreInv /\ [Next]_vars => StoreInv'
<1> SUFFICES ASSUME TypeInv, LockInv, StoreInv, [Next]_vars PROVE StoreInv'
  OBVIOUS
<1>1. CASE UNCHANGED vars
  BY <1>1 DEF StoreInv, SeesEntries, MergesInGroup, EntriesRight, vars, fileVars
<1>2. ASSUME NEW w \in Writers, WriterStep(w) PROVE StoreInv'
  BY <1>2, LockStepStore, LookUpStore, CreateStore, RegisterStore, LoadStore, UpdateStore
  DEF WriterStep
<1>3. ASSUME NEW w \in Writers, Raise(w) PROVE StoreInv'
  BY <1>3, AbortStore DEF Raise
<1>4. ASSUME NEW p \in Processes, Kill(p) PROVE StoreInv'
  BY <1>4, AbortStore DEF Kill
<1> QED
  BY <1>1, <1>2, <1>3, <1>4 DEF Next

LEMMA StoreKnown == Spec => []StoreInv
  BY InitStoreInv, NextStoreInv, Typed, Locked, PTL DEF Spec

StoredAll == [n \in Names |-> Stored(n)]

StoredTypeOK == StoredAll \in [Names -> SUBSET Writers] /\ Damaged \in SUBSET Names

LEMMA StoredType == TypeInv => StoredTypeOK
<1> SUFFICES ASSUME TypeInv PROVE StoredTypeOK
  OBVIOUS
<1>1. /\ index \in [Names -> files \cup {None}] /\ files \in SUBSET Writers
      /\ content \in [Writers -> SUBSET Writers]
  BY DEF TypeInv, TypeOK
<1>2. \A n \in Names : Stored(n) \in SUBSET Writers
  BY <1>1 DEF Stored
<1>3. Damaged \in SUBSET Names
  BY GroupAssumption DEF Damaged, TypeInv, TypeOK, Paths
<1> QED
  BY <1>2, <1>3 DEF StoredTypeOK, StoredAll

LEMMA StoredTypeNext == TypeInv' => StoredTypeOK'
  BY StoredType, PTL

\* A step that leaves alone what is indexed, and what has been read.
LEMMA StoredStays ==
  ASSUME UNCHANGED <<index, saved, misread>>,
         \A n \in Names : index[n] # None => content'[index[n]] = content[index[n]]
  PROVE  UNCHANGED <<StoredAll, saved, Damaged>>
<1>1. \A n \in Names : Stored(n)' = Stored(n)
  BY DEF Stored
<1> QED
  BY <1>1 DEF StoredAll, Damaged

LEMMA MisreadDamages ==
  ASSUME TypeInv, TypeInv', UNCHANGED <<index, content, saved>>, misread \subseteq misread'
  PROVE  /\ UNCHANGED <<StoredAll, saved>>
         /\ Damaged' \in SUBSET Names /\ Damaged \subseteq Damaged'
<1>1. StoredAll' = StoredAll
  BY DEF StoredAll, Stored
<1>2. Damaged \in SUBSET Names /\ Damaged' \in SUBSET Names
  BY StoredType, StoredTypeNext DEF StoredTypeOK
<1>3. Damaged \subseteq Damaged'
  BY <1>2 DEF Damaged
<1> QED
  BY <1>1, <1>2, <1>3

\* What a save does to the store.
Adds(w) ==
  /\ w \in Stored(Name[w])'
  /\ \A n \in Names \ Damaged : Stored(n) \subseteq Stored(n)'
  /\ \A n \in Names : \A v \in Stored(n)' : v \in Stored(n) \/ (v = w /\ n = Name[w])
  /\ saved' = saved \cup {w}
  /\ misread' = misread

LEMMA RegisterAdds ==
  ASSUME TypeInv, DataInv, StoreInv, NEW w \in Writers, RegisterGroup(w)
  PROVE  Adds(w)
<1>1. SeesEntries /\ EntriesRight
  BY DEF StoreInv
<1>2. content' = content /\ misread' = misread /\ saved' = saved \cup {w}
  BY DEF RegisterGroup
<1>3. pc[w] = "register"
  BY DEF RegisterGroup, Goto
<1>4. /\ seen[w] \in [Names -> Writers \cup {None}] /\ Name[w] \in Names
      /\ None \notin Writers
  BY GroupAssumption DEF TypeInv, TypeOK, Lookup
<1>5. \A n \in Names : index'[n] = IF n = Name[w] THEN w ELSE seen[w][n]
  BY <1>4 DEF RegisterGroup
<1>6. content[w] = {w} /\ \A n \in Names : seen[w][n] \in {None, index[n]}
  BY <1>1, <1>3 DEF SeesEntries, EntriesRight
<1>7. Stored(Name[w])' = {w}
  BY <1>2, <1>4, <1>5, <1>6 DEF Stored
<1>8. ASSUME NEW n \in Names, n # Name[w] PROVE Stored(n)' \subseteq Stored(n)
  BY <1>2, <1>5, <1>6, <1>8 DEF Stored
<1>9. ASSUME NEW n \in Names, n \notin Damaged PROVE Stored(n) \subseteq Stored(n)'
  <2>1. Index \notin misread
    BY <1>9 DEF Damaged
  <2>2. seen[w] = index /\ index[Name[w]] = None
    BY <1>3, <2>1 DEF DataInv, SeenCurrent
  <2>3. CASE n = Name[w]
    BY <2>2, <2>3 DEF Stored
  <2>4. CASE n # Name[w]
    BY <1>2, <1>5, <2>2, <2>4 DEF Stored
  <2> QED
    BY <2>3, <2>4
<1> QED
  BY <1>2, <1>7, <1>8, <1>9 DEF Adds

LEMMA UpdateAdds ==
  ASSUME TypeInv, StoreInv, NEW w \in Writers, UpdateGroup(w), saved' # saved \/ content' # content
  PROVE  Adds(w)
<1>1. MergesInGroup /\ EntriesRight
  BY DEF StoreInv
<1>2. pc[w] = "update"
  BY DEF UpdateGroup, Goto
<1>3. /\ content' = [content EXCEPT ![group[w]] = read[w] \cup {w}]
      /\ saved' = saved \cup {w} /\ index' = index /\ misread' = misread
  BY DEF UpdateGroup
<1>4. /\ group[w] \in files /\ files \in SUBSET Writers /\ Name \in [Writers -> Names]
      /\ content \in [Writers -> SUBSET Writers] /\ None \notin Writers
      /\ index \in [Names -> files \cup {None}]
  BY <1>2, GroupAssumption DEF TypeInv, TypeOK, FilesOK, Merging, UnderGroup
<1>5. /\ group[w] = index[Name[w]] /\ Name[group[w]] = Name[w]
      /\ read[w] \subseteq content[group[w]]
      /\ group[w] \notin misread => read[w] = content[group[w]]
  BY <1>1, <1>2, <1>4 DEF MergesInGroup, EntriesRight, Merging, UnderGroup
<1>6. Stored(Name[w]) = content[group[w]] /\ Stored(Name[w])' = read[w] \cup {w}
  BY <1>3, <1>4, <1>5 DEF Stored
<1>7. ASSUME NEW n \in Names, n # Name[w] PROVE Stored(n)' = Stored(n)
  <2>1. index[n] # None => index[n] \in Writers /\ index[n] # group[w]
    BY <1>1, <1>4, <1>5, <1>7 DEF EntriesRight
  <2> QED
    BY <1>3, <1>4, <2>1 DEF Stored
<1>8. Name[w] \notin Damaged => group[w] \notin misread
  BY <1>4, <1>5 DEF Damaged
<1> QED
  BY <1>3, <1>4, <1>5, <1>6, <1>7, <1>8 DEF Adds

LEMMA AddsSaves ==
  ASSUME TypeInv, TypeInv', NEW w \in Writers, Adds(w)
  PROVE  /\ StoredAll' \in [Names -> SUBSET Writers]
         /\ w \in StoredAll'[Name[w]]
         /\ \A n \in Names \ Damaged : StoredAll[n] \subseteq StoredAll'[n]
         /\ \A n \in Names : \A v \in StoredAll'[n] \ StoredAll[n] : v = w /\ n = Name[w]
         /\ saved' = saved \cup {w}
         /\ Damaged' = Damaged
<1>1. Name[w] \in Names /\ StoredAll' \in [Names -> SUBSET Writers]
  BY GroupAssumption, StoredTypeNext DEF StoredTypeOK
<1>2. Damaged' = Damaged
  BY DEF Adds, Damaged
<1>3. \A n \in Names : StoredAll[n] = Stored(n) /\ StoredAll'[n] = Stored(n)'
  BY DEF StoredAll
<1> QED
  BY <1>1, <1>2, <1>3 DEF Adds

\* The steps that neither save nor misread.
LEMMA OtherSteps ==
  ASSUME TypeInv, [Next]_vars,
         ~ \E w \in Writers : RegisterGroup(w) \/ UpdateGroup(w) \/ LookUp(w) \/ LoadGroup(w)
  PROVE  /\ UNCHANGED <<index, saved, misread>>
         /\ \A n \in Names : index[n] # None => content'[index[n]] = content[index[n]]
<1>1. CASE UNCHANGED <<index, content, saved, misread>>
  BY <1>1
<1>2. CASE UNCHANGED vars
  BY <1>1, <1>2 DEF vars, fileVars
<1>3. ASSUME NEW w \in Writers, CreateGroup(w)
      PROVE  /\ UNCHANGED <<index, saved, misread>>
             /\ \A n \in Names : index[n] # None => content'[index[n]] = content[index[n]]
  <2>1. w \notin files
    BY <1>3 DEF TypeInv, FilesOK, CreateGroup, Goto, Ended
  <2>2. index \in [Names -> files \cup {None}] /\ content \in [Writers -> SUBSET Writers]
        /\ files \in SUBSET Writers
    BY DEF TypeInv, TypeOK
  <2> QED
    BY <1>3, <2>1, <2>2 DEF CreateGroup
<1>4. ASSUME NEW w \in Writers,
             \/ OpenIndex(w) \/ LockIndex(w) \/ CloseIndex(w)
             \/ OpenGroup(w) \/ LockGroup(w) \/ CloseGroup(w) \/ Raise(w)
      PROVE  UNCHANGED <<index, content, saved, misread>>
  BY <1>4 DEF OpenIndex, LockIndex, CloseIndex, OpenGroup, LockGroup, CloseGroup, Raise, Abort,
              fileVars
<1>5. ASSUME NEW p \in Processes, Kill(p)
      PROVE  UNCHANGED <<index, content, saved, misread>>
  BY <1>5 DEF Kill, Abort, fileVars
<1> QED
  BY <1>1, <1>2, <1>3, <1>4, <1>5 DEF Next, WriterStep

\* Whatever the writers do with locks and files, a save happens at once, in its own group
\* alone, and undoes no other, but for groups that somebody could not read.
THEOREM StoreImplemented == Spec => SavesAtOnce
<1> DEFINE Inv == TypeInv /\ LockInv /\ DataInv /\ StoreInv
<1>1. Init => Store!Init
  <2> SUFFICES ASSUME Init PROVE Store!Init
    OBVIOUS
  <2>1. \A n \in Names : Stored(n) = {}
    BY DEF Init, NoGroups, Stored
  <2>2. Damaged = {} /\ saved = {}
    BY DEF Init, Damaged
  <2> QED
    BY <2>1, <2>2 DEF Store!Init
<1>2. Inv /\ Inv' /\ [Next]_vars => [Store!Next]_<<StoredAll, saved, Damaged>>
  <2> SUFFICES ASSUME Inv, Inv', [Next]_vars
               PROVE  Store!Next \/ UNCHANGED <<StoredAll, saved, Damaged>>
    OBVIOUS
  <2>1. ASSUME NEW w \in Writers, Adds(w) PROVE Store!Next
    <3>1. Store!Save(w)
      BY <2>1, AddsSaves DEF Store!Save, StoredAll
    <3> QED
      BY <3>1 DEF Store!Next
  <2>2. ASSUME NEW w \in Writers, LookUp(w) \/ LoadGroup(w) PROVE Store!Next
    <3>1. UNCHANGED <<index, content, saved>> /\ misread \subseteq misread'
      BY <2>2 DEF LookUp, LoadGroup, fileVars
    <3>2. Store!Damage
      BY <3>1, MisreadDamages DEF Store!Damage, StoredAll
    <3> QED
      BY <3>2 DEF Store!Next
  <2>3. ASSUME NEW w \in Writers, UpdateGroup(w), saved' = saved, content' = content
        PROVE  UNCHANGED <<StoredAll, saved, Damaged>>
    <3>1. UNCHANGED <<index, saved, misread>>
      BY <2>3 DEF UpdateGroup
    <3> QED
      BY <2>3, <3>1, StoredStays
  <2>4. CASE ~ \E w \in Writers :
               RegisterGroup(w) \/ UpdateGroup(w) \/ LookUp(w) \/ LoadGroup(w)
    BY <2>4, OtherSteps, StoredStays
  <2> QED
    BY <2>1, <2>2, <2>3, <2>4, RegisterAdds, UpdateAdds
<1>3. Spec => [][Store!Next]_<<StoredAll, saved, Damaged>>
  BY <1>2, Typed, Locked, Known, StoreKnown, PTL DEF Spec
<1> QED
  BY <1>1, <1>3, PTL DEF Spec, SavesAtOnce, Store!Spec, StoredAll
===============================================================================
