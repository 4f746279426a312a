--------------------------- MODULE PhaseChainProofs ---------------------------
(***************************************************************************)
(* Theorems about PhaseChain, for any books, files, tasks and bounds.      *)
(***************************************************************************)
EXTENDS PhaseChain, FiniteSetTheorems, TLAPS

-----------------------------------------------------------------------------
(* Type correctness.                                                       *)

LEMMA EmptyTypes == NoTask \in TaskState /\ NoItem \in Item
BY DEF NoTask, TaskState, Scope, Pc, NoItem, Item

THEOREM InitTypeOK == Init => TypeOK
<1> SUFFICES ASSUME Init
             PROVE  TypeOK
  OBVIOUS
<1>1. task \in [Slot -> TaskState]
  BY EmptyTypes DEF Init
<1>2. parsedQ \in [Book -> Item] /\ \A b \in Book : parsedQ[b].keys = {}
  BY EmptyTypes DEF Init, NoItem
<1>3. failures \in 0..MaxFailures
  BY PhaseChainAssumption DEF Init
<1>4. upload \in [File -> {"absent", "stored", "listed", "queued", "handled"}]
  BY DEF Init
<1>5. lock \in [Phase -> BOOLEAN]
  BY DEF Init
<1> QED
  BY <1>1, <1>2, <1>3, <1>4, <1>5 DEF Init, TypeOK

\* The ways requests, tasks and locks change.
LEMMA AskType ==
  ASSUME requests \subseteq Phase \X Scope, NEW p \in Phase, NEW b \in Scope, Ask(p, b)
  PROVE  requests' \subseteq Phase \X Scope
BY DEF Ask

LEMMA Names == 1 \in Phase /\ 2 \in Phase /\ 3 \in Phase /\ Book \subseteq Scope /\ All \in Scope
BY DEF Phase, Scope

LEMMA GoToType ==
  ASSUME task \in [Slot -> TaskState], NEW s \in Slot, NEW pc \in Pc, GoTo(s, pc)
  PROVE  task' \in [Slot -> TaskState]
BY DEF GoTo, TaskState

LEMMA ForgetType ==
  ASSUME task \in [Slot -> TaskState], NEW s \in Slot, NEW pc \in Pc, Forget(s, pc)
  PROVE  task' \in [Slot -> TaskState]
BY DEF Forget, TaskState

LEMMA SetSeenType ==
  ASSUME task \in [Slot -> TaskState], NEW s \in Slot, NEW pc \in Pc,
         NEW seen \in SUBSET File,
         task' = [task EXCEPT ![s].pc = pc, ![s].seen = seen]
  PROVE  task' \in [Slot -> TaskState]
<1>1. [task[s] EXCEPT !.pc = pc, !.seen = seen] \in TaskState
  BY DEF TaskState
<1> QED
  BY <1>1

LEMMA LeaveType ==
  ASSUME task \in [Slot -> TaskState], NEW s \in Slot, Leave(s)
  PROVE  task' \in [Slot -> TaskState]
BY EmptyTypes DEF Leave

LEMMA RemoveLockType ==
  ASSUME lock \in [Phase -> BOOLEAN], NEW s \in Slot, RemoveLock(s)
  PROVE  lock' \in [Phase -> BOOLEAN]
BY DEF RemoveLock

LEMMA PendingBookType == TypeOK => PendingBook \in Scope
<1> SUFFICES ASSUME TypeOK
             PROVE  PendingBook \in Scope
  OBVIOUS
<1> DEFINE books == {BookOf[f] : f \in content}
<1>1. books \subseteq Book
  BY PhaseChainAssumption DEF TypeOK
<1>2. CASE Cardinality(books) = 1
  <2>1. books # {}
    BY <1>2, FS_EmptySet
  <2> QED
    BY <1>1, <1>2, <2>1 DEF PendingBook, Scope
<1>3. CASE Cardinality(books) # 1
  BY <1>3 DEF PendingBook, Scope
<1> QED
  BY <1>2, <1>3

LEMMA UploadTypeOK ==
  ASSUME TypeOK, NEW f \in File, UploadStep(f)
  PROVE  TypeOK'
<1> USE DEF TypeOK, Stage, fileVars, failVars, queueVars
<1>1. CASE Upload(f)
  BY <1>1 DEF Upload
<1>2. CASE UpdateManifest(f)
  BY <1>2 DEF UpdateManifest
<1>3. CASE QueuePending(f)
  BY <1>3 DEF QueuePending
<1>4. CASE LaunchPhase1IfIdle(f)
  BY <1>4, PendingBookType DEF LaunchPhase1IfIdle, Ask, Phase
<1> QED
  BY <1>1, <1>2, <1>3, <1>4 DEF UploadStep

LEMMA QueueTypeOK ==
  ASSUME TypeOK,
         \/ \E f \in File : QueueParsed(f)
         \/ LaunchPhase2IfIdle
         \/ Reconcile
         \/ \E p \in Phase : ClearStaleLock(p)
         \/ DedupComplete
  PROVE  TypeOK'
<1> USE DEF TypeOK, fileVars, failVars, queueVars, triggerVars
<1>1. ASSUME NEW f \in File, QueueParsed(f)
      PROVE  TypeOK'
  <2>1. BookOf[f] \in Book
    BY PhaseChainAssumption
  <2>2. /\ parsedQ' \in [Book -> Item]
        /\ \A b \in Book : parsedQ'[b].keys # {} => parsedQ'[b].there
    BY <1>1, <2>1 DEF QueueParsed, Item
  <2> QED
    BY <1>1, <2>2 DEF QueueParsed
<1>2. CASE LaunchPhase2IfIdle
  <2>1. requests' \subseteq Phase \X Scope
    BY <1>2, AskType, Names DEF LaunchPhase2IfIdle, Parked
  <2> QED
    BY <1>2, <2>1 DEF LaunchPhase2IfIdle
<1>3. CASE Reconcile
  <2>1. requests' \subseteq Phase \X Scope
    BY <1>3, PendingBookType, AskType, Names DEF Reconcile, Parked
  <2> QED
    BY <1>3, <2>1 DEF Reconcile
<1>4. ASSUME NEW p \in Phase, ClearStaleLock(p)
      PROVE  TypeOK'
  BY <1>4 DEF ClearStaleLock
<1>5. CASE DedupComplete
  <2>1. task' \in [Slot -> TaskState]
    BY <1>5, EmptyTypes DEF DedupComplete
  <2>2. lock' \in [Phase -> BOOLEAN]
    BY <1>5, Zenon DEF DedupComplete
  <2>3. dropped' \subseteq File
    BY <1>5 DEF DedupComplete, Drop, Owed, Running
  <2>4. requests' \subseteq Phase \X Scope
    BY <1>5 DEF DedupComplete, Ask, Phase, Scope
  <2> QED
    BY <1>5, <2>1, <2>2, <2>3, <2>4 DEF DedupComplete
<1> QED
  BY <1>1, <1>2, <1>3, <1>4, <1>5

LEMMA RunTaskTypeOK ==
  ASSUME TypeOK, NEW p \in Phase, NEW b \in Scope, RunTask(p, b)
  PROVE  TypeOK'
<1> USE DEF TypeOK, fileVars, failVars, queueVars, triggerVars
<1>1. CASE TakeLockAndLaunch(p, b)
  <2>1. [phase |-> p, book |-> b, pc |-> FirstStep[p], work |-> {}, seen |-> {}]
          \in TaskState
    BY DEF TaskState, FirstStep, Phase, Pc
  <2>2. task' \in [Slot -> TaskState]
    BY <1>1, <2>1 DEF TakeLockAndLaunch, Start
  <2> QED
    BY <1>1, <2>2 DEF TakeLockAndLaunch
<1>2. CASE LockedOut(p, b)
  <2>1. /\ parsedQ' \in [Book -> Item]
        /\ \A c \in Book : parsedQ'[c].keys # {} => parsedQ'[c].there
    <3>1. CASE p = 2 /\ b # All
      <4>1. b \in Book /\ [parsedQ[b] EXCEPT !.there = TRUE] \in Item
        BY <3>1 DEF Scope, Item
      <4> QED
        BY <1>2, <3>1, <4>1 DEF LockedOut, Item
    <3>2. CASE ~(p = 2 /\ b # All)
      BY <1>2, <3>2 DEF LockedOut
    <3> QED
      BY <3>1, <3>2
  <2> QED
    BY <1>2, <2>1 DEF LockedOut, Scope
<1>3. CASE LaunchFails(p, b)
  BY <1>3, PhaseChainAssumption DEF LaunchFails, Failure, Drop
<1> QED
  BY <1>1, <1>2, <1>3 DEF RunTask

LEMMA Phase1TypeOK ==
  ASSUME TypeOK, NEW s \in Slot, Phase1Step(s)
  PROVE  TypeOK'
<1> USE DEF TypeOK, fileVars, failVars, queueVars, triggerVars
<1>1. CASE PreparePhase1(s)
  BY <1>1, GoToType, RemoveLockType DEF PreparePhase1, Pc
<1>2. CASE Download(s)
  <2>1. task' \in [Slot -> TaskState]
    <3> DEFINE work == IF task[s].book = All /\ manifest # {}
                       THEN manifest ELSE Uploaded \cap FilesOf(task[s].book)
    <3>1. work \subseteq File
      BY DEF Uploaded
    <3>2. [task[s] EXCEPT !.pc = "parse", !.work = work] \in TaskState
      BY <3>1 DEF TaskState, Pc
    <3> QED
      BY <1>2, <3>2 DEF Download
  <2> QED
    BY <1>2, <2>1 DEF Download
<1>3. CASE ClearManifest(s)
  BY <1>3, GoToType DEF ClearManifest, Pc
<1>4. CASE FinalSyncPhase1(s)
  BY <1>4, GoToType DEF FinalSyncPhase1, TaskState, Pc
<1>5. CASE ClearContent(s)
  BY <1>5, ForgetType DEF ClearContent, Pc
<1>6. CASE GetContent(s)
  <2>1. task \in [Slot -> TaskState] /\ content \subseteq File
    OBVIOUS
  <2>2. task' = [task EXCEPT ![s].pc = "write", ![s].seen = content]
    BY <1>6 DEF GetContent
  <2>3. task' \in [Slot -> TaskState]
    <3> HIDE DEF TypeOK
    <3> QED BY <2>1, <2>2, SetSeenType DEF Pc
  <2> QED
    BY <1>6, <2>3 DEF GetContent
<1>7. CASE PutContent(s)
  BY <1>7, ForgetType DEF PutContent, TaskState, Pc
<1>8. CASE TriggerPhase2(s)
  BY <1>8, GoToType DEF TriggerPhase2, Ask, TaskState, Phase, Pc
<1> QED
  BY <1>1, <1>2, <1>3, <1>4, <1>5, <1>6, <1>7, <1>8 DEF Phase1Step

LEMMA Phase2TypeOK ==
  ASSUME TypeOK, NEW s \in Slot, Phase2Step(s)
  PROVE  TypeOK'
<1> USE DEF TypeOK, fileVars, failVars, queueVars, triggerVars
<1>1. CASE ReadManifest(s)
  <2> DEFINE keys == IF task[s].book = All THEN {} ELSE parsedQ[task[s].book].keys
  <2>1. keys \subseteq File
    BY DEF TaskState, Scope, Item
  <2>2. task' \in [Slot -> TaskState]
    <3> DEFINE pc == IF keys = {} THEN "fetch" ELSE "delete"
    <3>1. pc \in Pc
      BY DEF Pc
    <3>2. task' = [task EXCEPT ![s].pc = pc, ![s].seen = keys]
      BY <1>1 DEF ReadManifest
    <3> HIDE DEF pc, keys
    <3> QED
      BY <2>1, <3>1, <3>2, SetSeenType
  <2> QED
    BY <1>1, <2>2 DEF ReadManifest
<1>2. CASE DeleteManifest(s)
  <2>1. /\ parsedQ' \in [Book -> Item]
        /\ \A b \in Book : parsedQ'[b].keys # {} => parsedQ'[b].there
    BY <1>2, EmptyTypes DEF DeleteManifest, NoItem
  <2> QED
    BY <1>2, <2>1, GoToType DEF DeleteManifest, Pc
<1>3. CASE DownloadPhase2Inputs(s)
  <2>1. Work(s) \subseteq File
    BY DEF Work
  <2>2. task' \in [Slot -> TaskState]
    <3>1. [task[s] EXCEPT !.pc = "extract", !.work = Work(s), !.seen = {}] \in TaskState
      BY <2>1 DEF TaskState, Pc
    <3> QED
      BY <1>3, <3>1 DEF DownloadPhase2Inputs
  <2> QED
    BY <1>3, <2>2 DEF DownloadPhase2Inputs
<1>4. CASE AbortPhase2(s)
  BY <1>4, LeaveType, RemoveLockType DEF AbortPhase2
<1>5. CASE SyncChanged(s)
  BY <1>5 DEF SyncChanged, TaskState
<1>6. CASE FinalSyncPhase2(s)
  BY <1>6, ForgetType DEF FinalSyncPhase2, TaskState, Pc
<1>7. CASE DedupGate(s)
  <2>1. task' \in [Slot -> TaskState]
    BY <1>7, GoToType DEF DedupGate, Pc
  <2>2. task[s].book \in Scope
    BY DEF TaskState
  <2>3. requests' \subseteq Phase \X Scope
    BY <1>7, <2>2, AskType, Names DEF DedupGate
  <2> QED
    BY <1>7, <2>1, <2>3 DEF DedupGate
<1>8. CASE TriggerNextBook(s)
  <2>1. task' \in [Slot -> TaskState]
    BY <1>8, GoToType DEF TriggerNextBook, Pc
  <2>2. requests' \subseteq Phase \X Scope
    BY <1>8, AskType, Names DEF TriggerNextBook, Parked
  <2> QED
    BY <1>8, <2>1, <2>2 DEF TriggerNextBook
<1> QED
  BY <1>1, <1>2, <1>3, <1>4, <1>5, <1>6, <1>7, <1>8 DEF Phase2Step

LEMMA Phase3TypeOK ==
  ASSUME TypeOK, NEW s \in Slot, Phase3Step(s)
  PROVE  TypeOK'
<1> USE DEF TypeOK, fileVars, failVars, queueVars, triggerVars
<1>1. CASE Enrich(s)
  BY <1>1, GoToType, RemoveLockType DEF Enrich, Pc
<1>2. CASE TriggerNextEnrich(s)
  <2>1. task' \in [Slot -> TaskState]
    BY <1>2, LeaveType DEF TriggerNextEnrich, TaskState, Scope, Pc
  <2> QED
    BY <1>2, <2>1 DEF TriggerNextEnrich, Ask, Scope, Phase
<1>3. CASE ConsumePendingEnrich(s)
  BY <1>3, LeaveType DEF ConsumePendingEnrich
<1> QED
  BY <1>1, <1>2, <1>3 DEF Phase3Step

LEMMA EndTypeOK ==
  ASSUME TypeOK, NEW s \in Slot, Unlock(s) \/ PhaseFails(s) \/ Interrupted(s)
  PROVE  TypeOK'
<1> USE DEF TypeOK, fileVars, failVars, queueVars, triggerVars
<1>1. CASE Unlock(s)
  BY <1>1, LeaveType, RemoveLockType DEF Unlock
<1>2. Drop(Owed(s)) => dropped' \subseteq File
  BY DEF Drop, Owed
<1>3. Failure => failures' \in 0..MaxFailures
  BY PhaseChainAssumption DEF Failure
<1>4. CASE PhaseFails(s)
  BY <1>2, <1>3, <1>4, LeaveType, RemoveLockType DEF PhaseFails
<1>5. CASE Interrupted(s)
  <2>1. parsed' \subseteq File /\ notices' \subseteq File
    BY <1>5 DEF Interrupted, TaskState
  <2> QED
    BY <1>2, <1>3, <1>5, <2>1, LeaveType, RemoveLockType DEF Interrupted
<1> QED
  BY <1>1, <1>4, <1>5

THEOREM NextTypeOK == TypeOK /\ [Next]_vars => TypeOK'
<1> SUFFICES ASSUME TypeOK, [Next]_vars
             PROVE  TypeOK'
  OBVIOUS
<1>1. CASE UNCHANGED vars
  BY <1>1 DEF TypeOK, vars, fileVars, failVars, queueVars, triggerVars
<1>2. ASSUME NEW s \in Slot, TaskStep(s)
      PROVE  TypeOK'
  BY <1>2, Phase1TypeOK, Phase2TypeOK, Phase3TypeOK, EndTypeOK DEF TaskStep
<1> QED
  BY <1>1, <1>2, UploadTypeOK, QueueTypeOK, RunTaskTypeOK DEF Next

\* Every behaviour keeps the types; in particular an item of pending#parsed
\* that has keys exists.
THEOREM TypeCorrect == Spec => []TypeOK
BY InitTypeOK, NextTypeOK, PTL DEF Spec

-----------------------------------------------------------------------------
(* No parsed file is stranded.  The invariant says besides which files a   *)
(* phase 2 works on, and who sees to a file that has an event file already *)
(* and so is not queued again.                                             *)

\* A phase 2 has work only while it extracts, and only parsed files.
ExtractsParsed ==
  \A s \in Slot : task[s].phase = 2 /\ task[s].work # {} =>
    task[s].pc = "extract" /\ task[s].work \subseteq parsed

EventsSeenTo ==
  \A f \in events \ (extracted \cup dropped) :
    \E s \in Slot : task[s].phase = 2 /\ f \in task[s].work

ChainInv ==
  /\ ExtractsParsed
  /\ EventsSeenTo
  /\ ParsedNotStranded

THEOREM InitChainInv == Init => ChainInv
BY DEF Init, ChainInv, ExtractsParsed, EventsSeenTo, ParsedNotStranded, NoTask

\* A task that reads the queue, fetches or extracts; the others have no files.
Busy(s) ==
  /\ task[s].phase = 2
  /\ task[s].pc \in {"read", "delete", "fetch", "extract"}

LEMMA OnlyBusyExtract ==
  ASSUME ChainInv, NEW s \in Slot, NEW f \in File, WillExtract(s, f)
  PROVE  Busy(s)
BY DEF ChainInv, ExtractsParsed, WillExtract, Busy

\* What is parsed is announced, and nothing is forgotten.
NothingLost ==
  /\ parsed \subseteq parsed'
  /\ parsed' \ parsed \subseteq notices'
  /\ notices \subseteq notices'
  /\ events' = events
  /\ extracted' = extracted
  /\ dropped \subseteq dropped'
  /\ \A b \in Book : parsedQ[b].there => parsedQ'[b].there
  /\ \A b \in Book : <<2, b>> \in requests => <<2, b>> \in requests'

\* A step in which the tasks of leaving end, whose files are dropped, and
\* otherwise only tasks move that are not busy.
LEMMA LeavingStep ==
  ASSUME TypeOK, TypeOK', ChainInv, NothingLost, NEW leaving \in SUBSET Slot,
         \A s \in leaving : task'[s] = NoTask /\ Owed(s) \subseteq dropped',
         \A s \in Slot \ leaving :
           \/ task'[s] = task[s]
           \/ ~Busy(s) /\ ~Busy(s)' /\ (task'[s].phase = 2 => task'[s].work = {})
  PROVE  ChainInv'
<1>1. ExtractsParsed'
  BY DEF ChainInv, ExtractsParsed, NothingLost, NoTask
<1>2. EventsSeenTo'
  <2> SUFFICES ASSUME NEW f \in events \ (extracted \cup dropped'), f \in File
               PROVE  \E s \in Slot : task'[s].phase = 2 /\ f \in task'[s].work
    BY DEF EventsSeenTo, NothingLost, TypeOK
  <2>1. PICK s \in Slot : task[s].phase = 2 /\ f \in task[s].work
    BY DEF ChainInv, EventsSeenTo, NothingLost
  <2>2. WillExtract(s, f) /\ Busy(s) /\ f \in parsed
    BY <2>1, OnlyBusyExtract DEF WillExtract, ChainInv, ExtractsParsed
  <2>3. s \notin leaving
    BY <2>2 DEF Owed, NothingLost
  <2> QED
    BY <2>1, <2>2, <2>3
<1>3. ParsedNotStranded'
  <2> SUFFICES ASSUME NEW f \in parsed' \ (extracted \cup dropped'), f \in File,
                      BookOf[f] \in Book
               PROVE  \/ f \in notices'
                      \/ parsedQ'[BookOf[f]].there
                      \/ <<2, BookOf[f]>> \in requests'
                      \/ \E s \in Slot : WillExtract(s, f)'
    BY PhaseChainAssumption DEF ParsedNotStranded, NothingLost, TypeOK
  <2>1. CASE f \in notices \/ f \notin parsed
    BY <2>1 DEF NothingLost
  <2>2. CASE parsedQ[BookOf[f]].there \/ <<2, BookOf[f]>> \in requests
    BY <2>2 DEF NothingLost
  <2>3. ASSUME f \in parsed, NEW s \in Slot, WillExtract(s, f)
        PROVE  WillExtract(s, f)'
    <3>1. Busy(s)
      BY <2>3, OnlyBusyExtract
    <3>2. s \notin leaving
      BY <2>3 DEF Owed, NothingLost
    <3> QED
      BY <2>3, <3>1, <3>2 DEF WillExtract
  <2> QED
    BY <2>1, <2>2, <2>3 DEF ChainInv, ParsedNotStranded, NothingLost
<1> QED
  BY <1>1, <1>2, <1>3 DEF ChainInv


\* The special case in which no task moves.
LEMMA TasksRest ==
  ASSUME TypeOK, TypeOK', ChainInv, NothingLost, task' = task
  PROVE  ChainInv'
<1> DEFINE leaving == {}
<1>1. leaving \in SUBSET Slot
  OBVIOUS
<1>2. \A s \in leaving : task'[s] = NoTask /\ Owed(s) \subseteq dropped'
  OBVIOUS
<1>3. \A s \in Slot \ leaving : task'[s] = task[s]
  OBVIOUS
<1> HIDE DEF leaving
<1> QED
  BY <1>1, <1>2, <1>3, LeavingStep

\* One task moves and is not busy, or has none of the files left.
LEMMA IdleTaskMoves ==
  ASSUME TypeOK, TypeOK', ChainInv, NothingLost, NEW s \in Slot,
         \A t \in Slot \ {s} : task'[t] = task[t],
         ~Busy(s), ~Busy(s)', task'[s].phase = 2 => task'[s].work = {}
  PROVE  ChainInv'
<1> DEFINE leaving == {}
<1>1. leaving \in SUBSET Slot
  OBVIOUS
<1>2. \A t \in leaving : task'[t] = NoTask /\ Owed(t) \subseteq dropped'
  OBVIOUS
<1>3. \A t \in Slot \ leaving :
        \/ task'[t] = task[t]
        \/ ~Busy(t) /\ ~Busy(t)' /\ (task'[t].phase = 2 => task'[t].work = {})
  OBVIOUS
<1> HIDE DEF leaving
<1> QED
  BY <1>1, <1>2, <1>3, LeavingStep

LEMMA UploadChainInv ==
  ASSUME TypeOK, TypeOK', ChainInv, NEW f \in File, UploadStep(f)
  PROVE  ChainInv'
<1> USE DEF NothingLost, fileVars, failVars, queueVars
<1>1. CASE Upload(f)
  BY <1>1, TasksRest DEF Upload
<1>2. CASE UpdateManifest(f)
  BY <1>2, TasksRest DEF UpdateManifest
<1>3. CASE QueuePending(f)
  BY <1>3, TasksRest DEF QueuePending
<1>4. CASE LaunchPhase1IfIdle(f)
  BY <1>4, TasksRest DEF LaunchPhase1IfIdle, Ask
<1> QED
  BY <1>1, <1>2, <1>3, <1>4 DEF UploadStep

\* The file is parked, or its event file says that a task sees to it.
LEMMA QueueParsedChainInv ==
  ASSUME TypeOK, TypeOK', ChainInv, NEW f \in File, QueueParsed(f)
  PROVE  ChainInv'
<1> USE DEF QueueParsed, fileVars, failVars
<1>1. ExtractsParsed' /\ EventsSeenTo'
  BY DEF ChainInv, ExtractsParsed, EventsSeenTo
<1>2. ParsedNotStranded'
  <2> SUFFICES ASSUME NEW g \in parsed \ (extracted \cup dropped), g \in File,
                      BookOf[g] \in Book, BookOf[f] \in Book
               PROVE  \/ g \in notices'
                      \/ parsedQ'[BookOf[g]].there
                      \/ <<2, BookOf[g]>> \in requests
                      \/ \E s \in Slot : WillExtract(s, g)
    BY PhaseChainAssumption DEF ParsedNotStranded, WillExtract, TypeOK
  <2>1. CASE g = f /\ f \in events
    BY <2>1 DEF ChainInv, EventsSeenTo, WillExtract
  <2>2. CASE g = f /\ f \notin events
    BY <2>2 DEF TypeOK, Item
  <2>3. CASE g # f
    <3>1. parsedQ[BookOf[g]].there => parsedQ'[BookOf[g]].there
      BY DEF TypeOK, Item
    <3> QED
      BY <2>3, <3>1 DEF ChainInv, ParsedNotStranded
  <2> QED
    BY <2>1, <2>2, <2>3
<1> QED
  BY <1>1, <1>2 DEF ChainInv

LEMMA QueueChainInv ==
  ASSUME TypeOK, TypeOK', ChainInv,
         LaunchPhase2IfIdle \/ Reconcile \/ \E p \in Phase : ClearStaleLock(p)
  PROVE  ChainInv'
<1> USE DEF NothingLost, fileVars, failVars, queueVars
<1>1. CASE LaunchPhase2IfIdle
  BY <1>1, TasksRest DEF LaunchPhase2IfIdle, Ask
<1>2. CASE Reconcile
  BY <1>2, TasksRest DEF Reconcile, Ask
<1>3. ASSUME NEW p \in Phase, ClearStaleLock(p)
      PROVE  ChainInv'
  BY <1>3, TasksRest DEF ClearStaleLock
<1> QED
  BY <1>1, <1>2, <1>3

LEMMA DedupCompleteChainInv ==
  ASSUME TypeOK, TypeOK', ChainInv, DedupComplete
  PROVE  ChainInv'
<1>1. NothingLost
  BY DEF DedupComplete, NothingLost, Drop, Ask, queueVars
<1>2. \A s \in Running(2) : task'[s] = NoTask /\ Owed(s) \subseteq dropped'
  BY DEF DedupComplete, Running, Drop, Owed, TypeOK
<1>3. \A s \in Slot \ Running(2) : task'[s] = task[s]
  BY DEF DedupComplete, Running
<1>4. Running(2) \in SUBSET Slot
  BY DEF Running
<1> QED
  BY <1>1, <1>2, <1>3, <1>4, LeavingStep


LEMMA LaunchChainInv ==
  ASSUME TypeOK, TypeOK', ChainInv, NEW p \in Phase, NEW b \in Scope,
         TakeLockAndLaunch(p, b)
  PROVE  ChainInv'
<1> USE DEF TakeLockAndLaunch, Start, NoTask, fileVars, failVars, queueVars
<1> PICK s \in Slot :
      /\ task[s] = NoTask
      /\ task' = [task EXCEPT ![s] =
                    [phase |-> p, book |-> b, pc |-> FirstStep[p],
                     work |-> {}, seen |-> {}]]
  OBVIOUS
<1>1. \A t \in Slot \ {s} : task'[t] = task[t]
  OBVIOUS
<1>2. task'[s].phase = p /\ task'[s].book = b /\ task'[s].work = {}
  BY DEF TypeOK
<1>3. ExtractsParsed' /\ EventsSeenTo'
  BY <1>1, <1>2 DEF ChainInv, ExtractsParsed, EventsSeenTo
<1>4. ParsedNotStranded'
  <2> SUFFICES ASSUME NEW f \in parsed \ (extracted \cup dropped)
               PROVE  \/ f \in notices
                      \/ parsedQ[BookOf[f]].there
                      \/ <<2, BookOf[f]>> \in requests'
                      \/ \E t \in Slot : WillExtract(t, f)'
    BY DEF ParsedNotStranded
  <2>1. CASE <<2, BookOf[f]>> \in requests \ requests'
    <3>1. p = 2 /\ b = BookOf[f]
      BY <2>1
    <3>2. task'[s].pc = "read"
      BY <3>1 DEF FirstStep, Phase, TypeOK
    <3> QED
      BY <1>2, <3>1, <3>2 DEF WillExtract
  <2>2. ASSUME NEW t \in Slot, WillExtract(t, f)
        PROVE  WillExtract(t, f)'
    <3>1. t # s
      BY <2>2 DEF WillExtract
    <3> QED
      BY <1>1, <2>2, <3>1 DEF WillExtract
  <2> QED
    BY <2>1, <2>2 DEF ChainInv, ParsedNotStranded
<1> QED
  BY <1>3, <1>4 DEF ChainInv

LEMMA RefusedChainInv ==
  ASSUME TypeOK, TypeOK', ChainInv, NEW p \in Phase, NEW b \in Scope,
         LockedOut(p, b) \/ LaunchFails(p, b)
  PROVE  ChainInv'
<1>1. /\ UNCHANGED <<parsed, notices, events, extracted, task>>
      /\ dropped \subseteq dropped'
  BY DEF LockedOut, LaunchFails, Drop, fileVars, failVars
<1>2. ExtractsParsed' /\ EventsSeenTo'
  BY <1>1 DEF ChainInv, ExtractsParsed, EventsSeenTo
<1>3. \A c \in Book : parsedQ[c].there => parsedQ'[c].there
  BY DEF LockedOut, LaunchFails, queueVars, TypeOK, Item
<1>4. ParsedNotStranded'
  <2> SUFFICES ASSUME NEW f \in parsed \ (extracted \cup dropped'), f \in File,
                      BookOf[f] \in Book
               PROVE  \/ f \in notices
                      \/ parsedQ'[BookOf[f]].there
                      \/ <<2, BookOf[f]>> \in requests'
                      \/ \E s \in Slot : WillExtract(s, f)
    BY <1>1, PhaseChainAssumption DEF ParsedNotStranded, WillExtract, TypeOK
  <2>1. CASE <<2, BookOf[f]>> \in requests \ requests'
    <3>1. p = 2 /\ b = BookOf[f] /\ b # All
      BY <2>1, PhaseChainAssumption DEF LockedOut, LaunchFails
    <3>2. CASE LockedOut(p, b)
      BY <3>1, <3>2 DEF LockedOut, TypeOK, Item
    <3>3. CASE LaunchFails(p, b)
      BY <3>1, <3>3 DEF LaunchFails, Drop, FilesOf
    <3> QED
      BY <3>2, <3>3
  <2> QED
    BY <1>1, <1>3, <2>1 DEF ChainInv, ParsedNotStranded
<1> QED
  BY <1>2, <1>4 DEF ChainInv

LEMMA Phase1ChainInv ==
  ASSUME TypeOK, TypeOK', ChainInv, NEW s \in Slot, Phase1Step(s)
  PROVE  ChainInv'
<1>1. NothingLost
  BY DEF Phase1Step, PreparePhase1, Download, ClearManifest, FinalSyncPhase1,
         ClearContent, GetContent, PutContent, TriggerPhase2, Ask,
         NothingLost, fileVars, failVars, queueVars, triggerVars
<1>2. /\ task[s].phase = 1 /\ task'[s].phase = 1
      /\ \A t \in Slot \ {s} : task'[t] = task[t]
  <2> USE DEF At, TypeOK, TaskState
  <2>1. CASE PreparePhase1(s)
    BY <2>1 DEF PreparePhase1, GoTo
  <2>2. CASE Download(s)
    BY <2>2 DEF Download
  <2>3. CASE ClearManifest(s)
    BY <2>3 DEF ClearManifest, GoTo
  <2>4. CASE FinalSyncPhase1(s)
    BY <2>4 DEF FinalSyncPhase1, GoTo
  <2>5. CASE ClearContent(s)
    BY <2>5 DEF ClearContent, Forget
  <2>6. CASE GetContent(s)
    BY <2>6 DEF GetContent
  <2>7. CASE PutContent(s)
    BY <2>7 DEF PutContent, Forget
  <2>8. CASE TriggerPhase2(s)
    BY <2>8 DEF TriggerPhase2, GoTo
  <2> QED
    BY <2>1, <2>2, <2>3, <2>4, <2>5, <2>6, <2>7, <2>8 DEF Phase1Step
<1> QED
  BY <1>1, <1>2, IdleTaskMoves DEF Busy

LEMMA Phase3ChainInv ==
  ASSUME TypeOK, TypeOK', ChainInv, NEW s \in Slot, Phase3Step(s)
  PROVE  ChainInv'
<1>1. NothingLost
  BY DEF Phase3Step, Enrich, TriggerNextEnrich, ConsumePendingEnrich, Ask,
         NothingLost, fileVars, failVars, queueVars, triggerVars
<1>2. /\ task[s].phase = 3 /\ task'[s].phase # 2
      /\ \A t \in Slot \ {s} : task'[t] = task[t]
  <2> USE DEF At, TypeOK, TaskState
  <2>1. CASE Enrich(s)
    BY <2>1 DEF Enrich, GoTo
  <2>2. CASE TriggerNextEnrich(s)
    BY <2>2 DEF TriggerNextEnrich, Leave, NoTask
  <2>3. CASE ConsumePendingEnrich(s)
    BY <2>3 DEF ConsumePendingEnrich, Leave, NoTask
  <2> QED
    BY <2>1, <2>2, <2>3 DEF Phase3Step
<1> QED
  BY <1>1, <1>2, IdleTaskMoves DEF Busy

\* The end of phase 2 and of any task: no file is left on it.
LEMMA AfterWorkChainInv ==
  ASSUME TypeOK, TypeOK', ChainInv, NEW s \in Slot,
         DedupGate(s) \/ TriggerNextBook(s) \/ Unlock(s)
  PROVE  ChainInv'
<1>1. NothingLost
  BY DEF DedupGate, TriggerNextBook, Unlock, Ask,
         NothingLost, fileVars, failVars, queueVars, triggerVars
<1>2. /\ ~Busy(s) /\ ~Busy(s)'
      /\ task'[s].phase = 2 => task'[s].work = {}
      /\ \A t \in Slot \ {s} : task'[t] = task[t]
  <2> USE DEF At, TypeOK, TaskState, Busy, ChainInv, ExtractsParsed
  <2>1. CASE DedupGate(s)
    BY <2>1 DEF DedupGate, GoTo
  <2>2. CASE TriggerNextBook(s)
    BY <2>2 DEF TriggerNextBook, GoTo
  <2>3. CASE Unlock(s)
    BY <2>3 DEF Unlock, Leave, NoTask
  <2> QED
    BY <2>1, <2>2, <2>3
<1> QED
  BY <1>1, <1>2, IdleTaskMoves

\* A task that ends before its work is done drops what it owes.
LEMMA FailedChainInv ==
  ASSUME TypeOK, TypeOK', ChainInv, NEW s \in Slot,
         PhaseFails(s) \/ Interrupted(s) \/ AbortPhase2(s)
  PROVE  ChainInv'
<1>1. NothingLost
  BY DEF PhaseFails, Interrupted, AbortPhase2, Drop,
         NothingLost, fileVars, failVars, queueVars, triggerVars
<1>2. task' = [task EXCEPT ![s] = NoTask]
  BY DEF PhaseFails, Interrupted, AbortPhase2, Leave
<1>3. Owed(s) \subseteq dropped'
  <2>1. CASE PhaseFails(s) \/ Interrupted(s)
    BY <2>1 DEF PhaseFails, Interrupted, Drop, Owed
  <2>2. CASE AbortPhase2(s)
    <3> SUFFICES ASSUME NEW f \in Owed(s)
                 PROVE  FALSE
      OBVIOUS
    <3>1. task[s].book = BookOf[f] /\ f \in parsed /\ f \in File
      BY <2>2 DEF AbortPhase2, At, Owed, WillExtract, ChainInv, ExtractsParsed, TypeOK
    <3>2. f \in Work(s) /\ task[s].book # All
      BY <3>1, PhaseChainAssumption DEF Work, FilesOf
    <3> QED
      BY <2>2, <3>2 DEF AbortPhase2
  <2> QED
    BY <2>1, <2>2
<1>4. {s} \in SUBSET Slot
  OBVIOUS
<1>5. \A t \in {s} : task'[t] = NoTask /\ Owed(t) \subseteq dropped'
  BY <1>2, <1>3 DEF TypeOK
<1>6. \A t \in Slot \ {s} : task'[t] = task[t]
  BY <1>2 DEF TypeOK
<1> QED
  BY <1>1, <1>4, <1>5, <1>6, LeavingStep

\* The keys of the deleted item may not have been read, but the task that
\* deletes it fetches the whole book next.
LEMMA ManifestChainInv ==
  ASSUME TypeOK, TypeOK', ChainInv, NEW s \in Slot,
         ReadManifest(s) \/ DeleteManifest(s)
  PROVE  ChainInv'
<1> USE DEF fileVars, failVars, queueVars, triggerVars
<1>1. /\ UNCHANGED <<parsed, notices, events, extracted, dropped, requests>>
      /\ \A b \in Book : b # task[s].book => parsedQ'[b] = parsedQ[b]
  BY DEF ReadManifest, DeleteManifest, TypeOK
<1>2. /\ task[s].phase = 2 /\ task[s].pc \in {"read", "delete"}
      /\ task'[s].phase = 2 /\ task'[s].pc \in {"delete", "fetch"}
      /\ task'[s].book = task[s].book /\ task'[s].work = task[s].work
      /\ \A t \in Slot \ {s} : task'[t] = task[t]
  BY DEF ReadManifest, DeleteManifest, At, GoTo, TypeOK, TaskState
<1>3. \A t \in Slot, f \in File : WillExtract(t, f) => WillExtract(t, f)'
  BY <1>2 DEF WillExtract
<1>4. ExtractsParsed'
  BY <1>1, <1>2 DEF ChainInv, ExtractsParsed
<1>5. EventsSeenTo'
  BY <1>1, <1>2 DEF ChainInv, EventsSeenTo
<1>6. ParsedNotStranded'
  <2> SUFFICES ASSUME NEW f \in parsed \ (extracted \cup dropped), f \in File,
                      BookOf[f] \in Book
               PROVE  \/ f \in notices
                      \/ parsedQ'[BookOf[f]].there
                      \/ <<2, BookOf[f]>> \in requests
                      \/ \E t \in Slot : WillExtract(t, f)'
    BY <1>1, PhaseChainAssumption DEF ParsedNotStranded, TypeOK
  <2>1. CASE BookOf[f] = task[s].book
    BY <1>2, <2>1 DEF WillExtract
  <2>2. CASE BookOf[f] # task[s].book
    BY <1>1, <1>3, <2>2 DEF ChainInv, ParsedNotStranded
  <2> QED
    BY <2>1, <2>2
<1> QED
  BY <1>4, <1>5, <1>6 DEF ChainInv

LEMMA FetchChainInv ==
  ASSUME TypeOK, TypeOK', ChainInv, NEW s \in Slot, DownloadPhase2Inputs(s)
  PROVE  ChainInv'
<1> USE DEF fileVars, failVars, queueVars, triggerVars
<1>1. UNCHANGED <<parsed, notices, events, extracted, dropped, requests, parsedQ>>
  BY DEF DownloadPhase2Inputs
<1>2. /\ task[s].phase = 2 /\ task[s].pc = "fetch" /\ task[s].work = {}
      /\ task'[s].phase = 2 /\ task'[s].pc = "extract" /\ task'[s].work = Work(s)
      /\ \A t \in Slot \ {s} : task'[t] = task[t]
  BY DEF DownloadPhase2Inputs, At, TypeOK, TaskState, ChainInv, ExtractsParsed
<1>3. Work(s) \subseteq parsed
  BY DEF Work
<1>4. \A t \in Slot, f \in parsed : WillExtract(t, f) => WillExtract(t, f)'
  <2> SUFFICES ASSUME NEW f \in parsed, f \in File, WillExtract(s, f)
               PROVE  WillExtract(s, f)'
    BY <1>2 DEF WillExtract, TypeOK
  <2>1. task[s].book = BookOf[f] /\ task[s].book # All
    BY <1>2, PhaseChainAssumption DEF WillExtract
  <2>2. f \in Work(s)
    BY <2>1 DEF Work, FilesOf
  <2> QED
    BY <1>2, <2>2 DEF WillExtract
<1>5. ExtractsParsed'
  BY <1>1, <1>2, <1>3 DEF ChainInv, ExtractsParsed
<1>6. EventsSeenTo'
  BY <1>1, <1>2 DEF ChainInv, EventsSeenTo
<1>7. ParsedNotStranded'
  BY <1>1, <1>4 DEF ChainInv, ParsedNotStranded
<1> QED
  BY <1>5, <1>6, <1>7 DEF ChainInv

LEMMA SyncChainInv ==
  ASSUME TypeOK, TypeOK', ChainInv, NEW s \in Slot, SyncChanged(s)
  PROVE  ChainInv'
<1> USE DEF failVars, queueVars, triggerVars
<1>1. PICK f \in task[s].work : events' = events \cup {f}
  BY DEF SyncChanged
<1>2. /\ UNCHANGED <<parsed, notices, extracted, dropped, requests, parsedQ, task>>
      /\ task[s].phase = 2
  BY DEF SyncChanged, At
<1>3. EventsSeenTo'
  BY <1>1, <1>2 DEF ChainInv, EventsSeenTo
<1>4. ExtractsParsed' /\ ParsedNotStranded'
  BY <1>2 DEF ChainInv, ExtractsParsed, ParsedNotStranded, WillExtract
<1> QED
  BY <1>3, <1>4 DEF ChainInv

LEMMA FinalSyncChainInv ==
  ASSUME TypeOK, TypeOK', ChainInv, NEW s \in Slot, FinalSyncPhase2(s)
  PROVE  ChainInv'
<1> USE DEF queueVars, triggerVars
<1>1. /\ UNCHANGED <<parsed, notices, events, requests, parsedQ>>
      /\ extracted' = extracted \cup task[s].work
      /\ dropped' = dropped \ task[s].work
  BY DEF FinalSyncPhase2
<1>2. /\ task[s].phase = 2 /\ task[s].pc = "extract"
      /\ task'[s].phase = 2 /\ task'[s].work = {}
      /\ \A t \in Slot \ {s} : task'[t] = task[t]
  BY DEF FinalSyncPhase2, At, Forget, TypeOK, TaskState
<1>3. ExtractsParsed'
  BY <1>1, <1>2 DEF ChainInv, ExtractsParsed
<1>4. EventsSeenTo'
  BY <1>1, <1>2 DEF ChainInv, EventsSeenTo
<1>5. ParsedNotStranded'
  <2> SUFFICES ASSUME NEW f \in parsed \ (extracted \cup dropped), f \notin task[s].work
               PROVE  \/ f \in notices
                      \/ parsedQ[BookOf[f]].there
                      \/ <<2, BookOf[f]>> \in requests
                      \/ \E t \in Slot : WillExtract(t, f)'
    BY <1>1 DEF ParsedNotStranded
  <2>1. ASSUME NEW t \in Slot, WillExtract(t, f)
        PROVE  WillExtract(t, f)'
    <3>1. t # s
      BY <1>2, <2>1 DEF WillExtract
    <3> QED
      BY <1>2, <2>1, <3>1 DEF WillExtract
  <2> QED
    BY <2>1 DEF ChainInv, ParsedNotStranded
<1> QED
  BY <1>3, <1>4, <1>5 DEF ChainInv

LEMMA Phase2ChainInv ==
  ASSUME TypeOK, TypeOK', ChainInv, NEW s \in Slot, Phase2Step(s)
  PROVE  ChainInv'
BY ManifestChainInv, FetchChainInv, FailedChainInv, SyncChainInv,
   FinalSyncChainInv, AfterWorkChainInv DEF Phase2Step

THEOREM NextChainInv == TypeOK /\ ChainInv /\ [Next]_vars => ChainInv'
<1> SUFFICES ASSUME TypeOK, ChainInv, [Next]_vars
             PROVE  ChainInv'
  OBVIOUS
<1>0. TypeOK'
  BY NextTypeOK
<1>1. CASE UNCHANGED vars
  BY <1>0, <1>1, TasksRest
  DEF vars, NothingLost, fileVars, failVars, queueVars, triggerVars
<1>2. ASSUME NEW f \in File, UploadStep(f) \/ QueueParsed(f)
      PROVE  ChainInv'
  BY <1>0, <1>2, UploadChainInv, QueueParsedChainInv
<1>3. CASE LaunchPhase2IfIdle \/ Reconcile \/ \E p \in Phase : ClearStaleLock(p)
  BY <1>0, <1>3, QueueChainInv
<1>4. CASE DedupComplete
  BY <1>0, <1>4, DedupCompleteChainInv
<1>5. ASSUME NEW p \in Phase, NEW b \in Scope, RunTask(p, b)
      PROVE  ChainInv'
  BY <1>0, <1>5, LaunchChainInv, RefusedChainInv DEF RunTask
<1>6. ASSUME NEW s \in Slot, TaskStep(s)
      PROVE  ChainInv'
  BY <1>0, <1>6, Phase1ChainInv, Phase2ChainInv, Phase3ChainInv,
     AfterWorkChainInv, FailedChainInv DEF TaskStep
<1> QED
  BY <1>1, <1>2, <1>3, <1>4, <1>5, <1>6 DEF Next

\* A parsed chapter is stranded only by a phase 2 that failed, was stopped or
\* could not be launched, whatever the books, chapters, tasks and bounds: the
\* two calls of _read_manifest and a queue that is skipped for an existing
\* event file lose nothing.
THEOREM NoChapterStranded == Spec => []ParsedNotStranded
<1>1. TypeOK /\ ChainInv => ParsedNotStranded
  BY DEF ChainInv
<1> QED
  BY <1>1, InitTypeOK, NextTypeOK, InitChainInv, NextChainInv, PTL DEF Spec

-----------------------------------------------------------------------------
(* What "dropped" excuses: without a failure, and with a gate that asks for *)
(* no review, it is empty and ParsedNotStranded holds of every chapter.     *)

DropsHaveCause ==
  /\ review => GateBlocks
  /\ dropped # {} => failures > 0 \/ GateBlocks

LEMMA NextDropsHaveCause == TypeOK /\ DropsHaveCause /\ [Next]_vars => DropsHaveCause'
<1> SUFFICES ASSUME TypeOK, DropsHaveCause, [Next]_vars
             PROVE  DropsHaveCause'
  OBVIOUS
<1>0. failures \in Nat
  BY PhaseChainAssumption DEF TypeOK
<1>1. ASSUME UNCHANGED <<review, failVars>>
      PROVE  DropsHaveCause'
  BY <1>1 DEF DropsHaveCause, failVars
<1>2. ASSUME Failure, UNCHANGED review
      PROVE  DropsHaveCause'
  BY <1>0, <1>2 DEF DropsHaveCause, Failure
<1>3. ASSUME NEW f \in File, UploadStep(f) \/ QueueParsed(f)
      PROVE  DropsHaveCause'
  BY <1>1, <1>3
  DEF UploadStep, Upload, UpdateManifest, QueuePending, LaunchPhase1IfIdle,
      QueueParsed, fileVars
<1>4. CASE LaunchPhase2IfIdle \/ Reconcile \/ \E p \in Phase : ClearStaleLock(p)
  BY <1>1, <1>4
  DEF LaunchPhase2IfIdle, Reconcile, ClearStaleLock, fileVars, triggerVars
<1>5. CASE DedupComplete
  BY <1>5 DEF DedupComplete, DropsHaveCause
<1>6. ASSUME NEW p \in Phase, NEW b \in Scope, RunTask(p, b)
      PROVE  DropsHaveCause'
  BY <1>1, <1>2, <1>6
  DEF RunTask, TakeLockAndLaunch, LockedOut, LaunchFails, fileVars, triggerVars
<1>7. ASSUME NEW s \in Slot, Phase1Step(s) \/ Phase3Step(s) \/ Unlock(s)
      PROVE  DropsHaveCause'
  BY <1>1, <1>7
  DEF Phase1Step, PreparePhase1, Download, ClearManifest, FinalSyncPhase1,
      ClearContent, GetContent, PutContent, TriggerPhase2, Phase3Step, Enrich,
      TriggerNextEnrich, ConsumePendingEnrich, Unlock, fileVars, triggerVars
<1>8. ASSUME NEW s \in Slot, Phase2Step(s)
      PROVE  DropsHaveCause'
  <2>1. CASE FinalSyncPhase2(s)
    BY <2>1 DEF FinalSyncPhase2, DropsHaveCause, triggerVars
  <2>2. CASE DedupGate(s)
    BY <2>2 DEF DedupGate, DropsHaveCause, fileVars, failVars
  <2> QED
    BY <1>1, <1>8, <2>1, <2>2
    DEF Phase2Step, ReadManifest, DeleteManifest, DownloadPhase2Inputs,
        AbortPhase2, SyncChanged, TriggerNextBook, fileVars, triggerVars
<1>9. ASSUME NEW s \in Slot, PhaseFails(s) \/ Interrupted(s)
      PROVE  DropsHaveCause'
  BY <1>2, <1>9 DEF PhaseFails, Interrupted, triggerVars
<1>10. CASE UNCHANGED vars
  BY <1>1, <1>10 DEF vars, fileVars, triggerVars
<1> QED
  BY <1>3, <1>4, <1>5, <1>6, <1>7, <1>8, <1>9, <1>10 DEF Next, TaskStep

\* While nothing has failed and no review can be asked for, no parsed chapter is
\* stranded: until its entities are in S3 its event is on the way, its book is
\* parked or requested, or a task will see to it.
THEOREM NoneStrandedUnfailed ==
  ASSUME ~GateBlocks
  PROVE  Spec => [](failures = 0 =>
           \A f \in parsed \ extracted :
             \/ f \in notices
             \/ parsedQ[BookOf[f]].there
             \/ <<2, BookOf[f]>> \in requests
             \/ \E s \in Slot : WillExtract(s, f))
<1> DEFINE Seen == \A f \in parsed \ extracted :
                     \/ f \in notices
                     \/ parsedQ[BookOf[f]].there
                     \/ <<2, BookOf[f]>> \in requests
                     \/ \E s \in Slot : WillExtract(s, f)
<1>1. Init => DropsHaveCause
  BY DEF Init, DropsHaveCause
<1>2. DropsHaveCause /\ ParsedNotStranded => (failures = 0 => Seen)
  BY DEF DropsHaveCause, ParsedNotStranded
<1> HIDE DEF Seen
<1>3. Spec => [](failures = 0 => Seen)
  BY <1>1, <1>2, NextDropsHaveCause, TypeCorrect, NoChapterStranded, PTL DEF Spec
<1> QED
  BY <1>3 DEF Seen
===============================================================================
