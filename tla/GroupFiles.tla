------------------------------ MODULE GroupFiles ------------------------------
(***************************************************************************)
(* How threads of several processes share the files of the people groups:  *)
(* _save_group of src/extraction/people_groups.py on top of locked_json    *)
(* and write_json_with_lock of src/utils/file_lock.py.                     *)
(*                                                                         *)
(* Each writer saves one mention of one group: under the lock of the index *)
(* it looks the group up, and either merges the mention into the group's   *)
(* file, under the lock of that file, or writes a new file and registers   *)
(* it.  A file is named after the writer that creates it.                  *)
(***************************************************************************)
EXTENDS Naturals

CONSTANTS
  Writers,    \* each saves one mention
  Names,      \* of groups
  Processes,
  Name,       \* the group each writer has found
  Process,    \* the process each writer is a thread of
  Index,      \* the path of index.json
  None,
  MaxCrashes  \* bound: how many writers and processes are cut short

ASSUME GroupAssumption ==
  /\ Name \in [Writers -> Names]
  /\ Process \in [Writers -> Processes]
  /\ Index \notin Writers
  /\ None \notin Writers
  /\ MaxCrashes \in Nat

VARIABLES
  index,      \* content of index.json
  content,    \* content of each group file: the mentions in it
  files,      \* the group files there are
  inode,      \* how often each path has been replaced
  threadLock, \* who holds the lock of a path in a process
  flocks,     \* the files each writer has locked
  opened,     \* the lock file it has opened last
  pc,
  seen,       \* the index it has read
  group,      \* the file it merges into
  read,       \* what it has read there
  saved,      \* the writers whose mention has been saved
  misread,    \* the paths that could not be read and were taken for empty
  crashes

fileVars == <<index, content, files, inode>>
lockVars == <<threadLock, flocks, opened>>
vars == <<fileVars, lockVars, pc, seen, group, read, saved, misread, crashes>>

Paths == Writers \cup {Index}
Lookup == [Names -> Writers \cup {None}]
Inodes == Paths \X Nat

TypeOK ==
  /\ index \in [Names -> files \cup {None}]
  /\ content \in [Writers -> SUBSET Writers]
  /\ files \in SUBSET Writers
  /\ inode \in [Paths -> Nat]
  /\ threadLock \in [Processes \X Paths -> Writers \cup {None}]
  /\ flocks \in [Writers -> SUBSET Inodes]
  /\ opened \in [Writers -> Inodes \cup {None}]
  /\ pc \in [Writers -> {"idle", "index", "look", "merge", "group", "load", "update",
                         "close", "create", "register", "leave", "done", "dead"}]
  /\ seen \in [Writers -> Lookup]
  /\ group \in [Writers -> Writers \cup {None}]
  /\ read \in [Writers -> SUBSET Writers]
  /\ saved \in SUBSET Writers
  /\ misread \in SUBSET Paths
  /\ crashes \in 0..MaxCrashes

NoGroups == [n \in Names |-> None]

Init ==
  /\ index = NoGroups
  /\ content = [f \in Writers |-> {}]
  /\ files = {}
  /\ inode = [p \in Paths |-> 0]
  /\ threadLock = [l \in Processes \X Paths |-> None]
  /\ flocks = [w \in Writers |-> {}]
  /\ opened = [w \in Writers |-> None]
  /\ pc = [w \in Writers |-> "idle"]
  /\ seen = [w \in Writers |-> NoGroups]
  /\ group = [w \in Writers |-> None]
  /\ read = [w \in Writers |-> {}]
  /\ saved = {}
  /\ misread = {}
  /\ crashes = 0

Goto(w, from, to) ==
  /\ pc[w] = from
  /\ pc' = [pc EXCEPT ![w] = to]

-----------------------------------------------------------------------------
(* locked_json                                                             *)

\* Mutant: the file that is locked is the data file, which a save replaces.
DataFile(path) == <<path, inode[path]>>

\* The file that is locked is <path>.lock, which nobody replaces.
LockFile(path) == <<path, 0>>

\* The lock of the process, then open.
Open(w, path) ==
  /\ threadLock[<<Process[w], path>>] = None
  /\ threadLock' = [threadLock EXCEPT ![<<Process[w], path>>] = w]
  /\ opened' = [opened EXCEPT ![w] = LockFile(path)]
  /\ UNCHANGED flocks

\* flock(LOCK_EX)
Flock(w) ==
  /\ \A v \in Writers : opened[w] \notin flocks[v]
  /\ flocks' = [flocks EXCEPT ![w] = @ \cup {opened[w]}]
  /\ UNCHANGED <<threadLock, opened>>

Unlocked(w, path) ==
  [l \in Processes \X Paths |->
     IF l[2] = path /\ threadLock[l] = w THEN None ELSE threadLock[l]]

\* Mutant: the lock of the process is not released.
CloseFileOnly(w, path) ==
  /\ flocks' = [flocks EXCEPT ![w] = {l \in @ : l[1] # path}]
  /\ UNCHANGED <<threadLock, opened>>

\* The two finally clauses.
Close(w, path) ==
  /\ flocks' = [flocks EXCEPT ![w] = {l \in @ : l[1] # path}]
  /\ threadLock' = Unlocked(w, path)
  /\ UNCHANGED opened

Replace(path) == inode' = [inode EXCEPT ![path] = @ + 1]

-----------------------------------------------------------------------------
(* _save_group                                                             *)

OpenIndex(w) ==
  /\ Goto(w, "idle", "index")
  /\ Open(w, Index)
  /\ UNCHANGED <<fileVars, seen, group, read, saved, misread, crashes>>

LockIndex(w) ==
  /\ Goto(w, "index", "look")
  /\ Flock(w)
  /\ UNCHANGED <<fileVars, seen, group, read, saved, misread, crashes>>

\* The index is read under the lock; if it cannot be read it counts as empty.
\* Find or create: an entry counts if its file is there.
LookUp(w) ==
  /\ \/ seen' = [seen EXCEPT ![w] = index] /\ UNCHANGED misread
     \/ seen' = [seen EXCEPT ![w] = NoGroups] /\ misread' = misread \cup {Index}
  /\ LET found == seen'[w][Name[w]] IN
     IF found \in files
     THEN Goto(w, "look", "merge") /\ group' = [group EXCEPT ![w] = found]
     ELSE Goto(w, "look", "create") /\ UNCHANGED group
  /\ UNCHANGED <<fileVars, lockVars, read, saved, crashes>>

\* Mutant: the group is registered although the guard has blocked its file.
CreateBlocked(w) ==
  /\ Goto(w, "create", "register")
  /\ \/ /\ files' = files \cup {w}
        /\ content' = [content EXCEPT ![w] = {w}]
        /\ Replace(w)
     \/ UNCHANGED <<files, content, inode>>
  /\ UNCHANGED <<index, lockVars, seen, group, read, saved, misread, crashes>>

\* _create_new_group: write_json_with_lock, which takes no lock, or the guard
\* of the schema blocks the record and nothing is registered.
CreateGroup(w) ==
  /\ \/ /\ Goto(w, "create", "register")
        /\ files' = files \cup {w}
        /\ content' = [content EXCEPT ![w] = {w}]
        /\ Replace(w)
     \/ /\ Goto(w, "create", "leave")
        /\ UNCHANGED <<files, content, inode>>
  /\ UNCHANGED <<index, lockVars, seen, group, read, saved, misread, crashes>>

\* Mutant: the index is overwritten with what this writer knows.
RegisterAlone(w) ==
  /\ Goto(w, "register", "leave")
  /\ index' = [NoGroups EXCEPT ![Name[w]] = w]
  /\ Replace(Index)
  /\ saved' = saved \cup {w}
  /\ UNCHANGED <<content, files, lockVars, seen, group, read, misread, crashes>>

\* save_index writes the index that was read, with the new entry.
RegisterGroup(w) ==
  /\ Goto(w, "register", "leave")
  /\ index' = [seen[w] EXCEPT ![Name[w]] = w]
  /\ Replace(Index)
  /\ saved' = saved \cup {w}
  /\ UNCHANGED <<content, files, lockVars, seen, group, read, misread, crashes>>

-----------------------------------------------------------------------------
(* _merge_existing_group                                                   *)

OpenGroup(w) ==
  /\ Goto(w, "merge", "group")
  /\ Open(w, group[w])
  /\ UNCHANGED <<fileVars, seen, group, read, saved, misread, crashes>>

LockGroup(w) ==
  /\ Goto(w, "group", "load")
  /\ Flock(w)
  /\ UNCHANGED <<fileVars, seen, group, read, saved, misread, crashes>>

LoadGroup(w) ==
  /\ Goto(w, "load", "update")
  /\ \/ read' = [read EXCEPT ![w] = content[group[w]]] /\ UNCHANGED misread
     \/ read' = [read EXCEPT ![w] = {}] /\ misread' = misread \cup {group[w]}
  /\ UNCHANGED <<fileVars, lockVars, seen, group, saved, crashes>>

\* Mutant: a merge that the guard of the write has blocked passes for saved.
UpdateBlocked(w) ==
  /\ Goto(w, "update", "close")
  /\ \/ /\ content' = [content EXCEPT ![group[w]] = read[w] \cup {w}]
        /\ Replace(group[w])
     \/ UNCHANGED <<content, inode>>
  /\ saved' = saved \cup {w}
  /\ UNCHANGED <<index, files, lockVars, seen, group, read, misread, crashes>>

\* The merge is saved; or the record is of a later schema, or the guard
\* blocks the merge.
UpdateGroup(w) ==
  /\ Goto(w, "update", "close")
  /\ \/ /\ content' = [content EXCEPT ![group[w]] = read[w] \cup {w}]
        /\ Replace(group[w])
        /\ saved' = saved \cup {w}
     \/ UNCHANGED <<content, inode, saved>>
  /\ UNCHANGED <<index, files, lockVars, seen, group, read, misread, crashes>>

CloseGroup(w) ==
  /\ Goto(w, "close", "leave")
  /\ Close(w, group[w])
  /\ UNCHANGED <<fileVars, seen, group, read, saved, misread, crashes>>

CloseIndex(w) ==
  /\ Goto(w, "leave", "done")
  /\ Close(w, Index)
  /\ UNCHANGED <<fileVars, seen, group, read, saved, misread, crashes>>

-----------------------------------------------------------------------------
(* Failures.                                                               *)

Busy(w) == pc[w] \notin {"idle", "done", "dead"}

\* A save replaces the file at once, so that it has happened or it has not.
Abort(W) ==
  /\ crashes < MaxCrashes
  /\ crashes' = crashes + 1
  /\ pc' = [w \in Writers |-> IF w \in W THEN "dead" ELSE pc[w]]
  /\ flocks' = [w \in Writers |-> IF w \in W THEN {} ELSE flocks[w]]
  /\ threadLock' = [l \in Processes \X Paths |->
                      IF threadLock[l] \in W THEN None ELSE threadLock[l]]
  /\ UNCHANGED <<fileVars, opened, seen, group, read, saved, misread>>

\* An exception leaves both "with" blocks.
Raise(w) == Busy(w) /\ Abort({w})

\* The process is killed; the system releases its file locks.
Kill(p) ==
  LET threads == {w \in Writers : Process[w] = p /\ Busy(w)} IN
  threads # {} /\ Abort(threads)

WriterStep(w) ==
  \/ OpenIndex(w)
  \/ LockIndex(w)
  \/ LookUp(w)
  \/ CreateGroup(w)
  \/ RegisterGroup(w)
  \/ OpenGroup(w)
  \/ LockGroup(w)
  \/ LoadGroup(w)
  \/ UpdateGroup(w)
  \/ CloseGroup(w)
  \/ CloseIndex(w)

Next ==
  \/ \E w \in Writers : WriterStep(w) \/ Raise(w)
  \/ \E p \in Processes : Kill(p)

Spec == Init /\ [][Next]_vars

\* A thread that can go on does; the kernel and the interpreter hand a lock
\* that has been released to somebody.
Fairness == \A w \in Writers : WF_vars(WriterStep(w))

FairSpec == Spec /\ Fairness

-----------------------------------------------------------------------------
(* Properties.                                                             *)

\* A mention that has been saved stays in the file that the index gives for
\* its group, whoever saves, fails or is killed afterwards, unless that file
\* or the index has been taken for empty by a writer who could not read it.
MentionsKept ==
  Index \notin misread =>
    \A w \in saved :
      LET f == index[Name[w]] IN
      f \in files /\ (f \notin misread => w \in content[f])

\* "Two overlapping writers therefore converge to ONE group file": two files
\* of one group mean that the creator of one was cut short before it could
\* register it, or that the index has been taken for empty.
OneFile ==
  Index \notin misread =>
    \A f, g \in files :
      Name[f] = Name[g] /\ pc[f] # "dead" /\ pc[g] # "dead" => f = g

\* The mentions of a group are those in the file that the index gives for it.
Stored(n) == IF index[n] = None THEN {} ELSE content[index[n]]

\* Whoever cannot read the index may forget every group; a file, its group.
Damaged ==
  IF Index \in misread THEN Names ELSE {Name[f] : f \in misread}

Store == INSTANCE MentionStore WITH
  stored <- [n \in Names |-> Stored(n)],
  damaged <- Damaged

\* "conflict-safe WITHOUT a queue": for all its steps, files and locks, a save
\* happens at once and in its own group alone, and no save undoes another.
SavesAtOnce == Store!Spec

\* "so there is no deadlock": every writer ends.
WritersEnd == \A w \in Writers : <>(pc[w] \in {"done", "dead"})
===============================================================================
