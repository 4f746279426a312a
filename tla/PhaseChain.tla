------------------------------ MODULE PhaseChain ------------------------------
(***************************************************************************)
(* The event-driven phase chain in serial mode (MULTI_DOC_ENABLED off): how *)
(* an uploaded file gets parsed (phase 1), extracted (phase 2) and enriched *)
(* (phase 3), by way of the queues pending#content, pending#parsed#{book}   *)
(* and pending#enrich#{book} and of the S3 manifest.                        *)
(*                                                                         *)
(* Processes: the trigger invocations of uploads, of parsed files and of    *)
(* asynchronous requests, the reconciliation, and the ECS tasks.  One step  *)
(* per access to a queue; taking a launch lock and starting the task is one *)
(* step here, LaunchLock has its details.  The tasks run without batches,   *)
(* BatchJobs has those.                                                     *)
(***************************************************************************)
EXTENDS Naturals, FiniteSets

CONSTANTS
  Book,        \* the books
  All,         \* the empty book name: every book
  File,        \* content files; each yields one parsed and one event file
  BookOf,      \* the book of each file
  Slot,        \* bound: tasks that run at once
  MaxRequests, \* bound: requests in flight
  GateBlocks,  \* TRUE if the dedup gate may ask for a human review
  MaxFailures  \* bound: launches and tasks that fail or are interrupted

ASSUME PhaseChainAssumption ==
  /\ All \notin Book
  /\ BookOf \in [File -> Book]
  /\ MaxRequests \in Nat
  /\ GateBlocks \in BOOLEAN
  /\ MaxFailures \in Nat

Phase == 1..3
Scope == Book \cup {All}

VARIABLES
  upload,     \* how far the invocation for the upload of each file is
  manifest,   \* manifests/pending.json
  content,    \* keys of pending#content
  parsed,     \* files with a -parsed.json in S3
  notices,    \* parsed files whose S3 event is still to be handled
  awake,      \* an invocation is about to run _launch_phase2_if_idle
  parsedQ,    \* pending#parsed#{book}: may exist without keys
  enrichQ,    \* books with a pending#enrich#{book}
  events,     \* files with an -event.json in S3
  extracted,  \* files whose entities are in S3
  failures,   \* how many have failed
  dropped,    \* history: files a failed or stopped task was to extract
  review,     \* a human review is awaited
  requests,   \* calls of _run_task on their way
  lock,       \* the singleton launch locks
  task        \* the ECS tasks

failVars == <<failures, dropped>>
fileVars == <<parsed, notices, events, extracted, failVars>>
queueVars == <<content, parsedQ, enrichQ>>
triggerVars == <<upload, awake, review, manifest>>
vars == <<fileVars, queueVars, triggerVars, requests, lock, task>>

NoItem == [there |-> FALSE, keys |-> {}]
NoTask == [phase |-> 0, book |-> All, pc |-> "none", work |-> {}, seen |-> {}]

Pc == {"none", "boot", "download", "parse", "sync", "prune", "write", "trigger",
       "read", "delete", "fetch", "extract", "gate", "next", "unlock",
       "enrich", "nextEnrich", "consume"}

Item == [there : BOOLEAN, keys : SUBSET File]
TaskState == [phase : 0..3, book : Scope, pc : Pc, work : SUBSET File,
              seen : SUBSET File]

TypeOK ==
  /\ upload \in [File -> {"absent", "stored", "listed", "queued", "handled"}]
  /\ manifest \subseteq File
  /\ content \subseteq File
  /\ parsed \subseteq File
  /\ notices \subseteq File
  /\ awake \in BOOLEAN
  /\ parsedQ \in [Book -> Item]
  /\ enrichQ \subseteq Book
  /\ events \subseteq File
  /\ extracted \subseteq File
  /\ failures \in 0..MaxFailures
  /\ dropped \subseteq File
  /\ review \in BOOLEAN
  /\ requests \subseteq Phase \X Scope
  /\ lock \in [Phase -> BOOLEAN]
  /\ task \in [Slot -> TaskState]
  /\ \A b \in Book : parsedQ[b].keys # {} => parsedQ[b].there

Init ==
  /\ upload = [f \in File |-> "absent"]
  /\ manifest = {}
  /\ content = {}
  /\ parsed = {}
  /\ notices = {}
  /\ awake = FALSE
  /\ parsedQ = [b \in Book |-> NoItem]
  /\ enrichQ = {}
  /\ events = {}
  /\ extracted = {}
  /\ failures = 0
  /\ dropped = {}
  /\ review = FALSE
  /\ requests = {}
  /\ lock = [p \in Phase |-> FALSE]
  /\ task = [s \in Slot |-> NoTask]

Uploaded == {f \in File : upload[f] # "absent"}
FilesOf(b) == {f \in File : b \in {All, BookOf[f]}}
Parked == {b \in Book : parsedQ[b].there}

\* list_tasks for one family, and for all.
Running(p) == {s \in Slot : task[s].phase = p}
Idle == \A p \in Phase : Running(p) = {}

Ask(p, b) ==
  /\ requests' = requests \cup {<<p, b>>}
  /\ Cardinality(requests') <= MaxRequests

\* A phase 2 that will read S3 for the book of f, or works on f.
WillExtract(s, f) ==
  /\ task[s].phase = 2
  /\ \/ /\ task[s].book = BookOf[f]
        /\ task[s].pc \in {"read", "delete", "fetch"}
     \/ f \in task[s].work

\* The files that count on a task.
Owed(s) == {f \in parsed \ extracted : WillExtract(s, f)}
Drop(files) == dropped' = dropped \cup (files \ extracted)

Failure ==
  /\ failures < MaxFailures
  /\ failures' = failures + 1

-----------------------------------------------------------------------------
(* Uploads: handler, _update_manifest, _queue_pending,                     *)
(* _launch_phase1_if_idle.                                                 *)

Stage(f, from, to) ==
  /\ upload[f] = from
  /\ upload' = [upload EXCEPT ![f] = to]

Upload(f) ==
  /\ Stage(f, "absent", "stored")
  /\ UNCHANGED <<fileVars, queueVars, awake, review, manifest, requests, lock, task>>

UpdateManifest(f) ==
  /\ Stage(f, "stored", "listed")
  /\ manifest' = manifest \cup {f}
  /\ UNCHANGED <<fileVars, queueVars, awake, review, requests, lock, task>>

QueuePending(f) ==
  /\ Stage(f, "listed", "queued")
  /\ content' = content \cup {f}
  /\ UNCHANGED <<fileVars, parsedQ, enrichQ, awake, review, manifest, requests, lock, task>>

\* The book of a phase 1: the only one with pending content, or all.
PendingBook ==
  LET books == {BookOf[f] : f \in content}
  IN IF Cardinality(books) = 1 THEN CHOOSE b \in books : TRUE ELSE All

LaunchPhase1IfIdle(f) ==
  /\ Stage(f, "queued", "handled")
  /\ IF Idle THEN Ask(1, PendingBook) ELSE UNCHANGED requests
  /\ UNCHANGED <<fileVars, queueVars, awake, review, manifest, lock, task>>

-----------------------------------------------------------------------------
(* Parsed files: _queue_parsed, _launch_phase2_if_idle.                    *)

\* A file with an event file is not queued.
QueueParsed(f) ==
  /\ f \in notices
  /\ notices' = notices \ {f}
  /\ awake' = TRUE
  /\ parsedQ' = IF f \in events THEN parsedQ
                ELSE [parsedQ EXCEPT ![BookOf[f]] =
                        [there |-> TRUE, keys |-> @.keys \cup {f}]]
  /\ UNCHANGED <<parsed, events, extracted, failVars, content, enrichQ, upload,
                 review, manifest, requests, lock, task>>

LaunchPhase2IfIdle ==
  /\ awake
  /\ awake' = FALSE
  /\ IF Idle /\ Parked # {} THEN \E b \in Parked : Ask(2, b) ELSE UNCHANGED requests
  /\ UNCHANGED <<fileVars, queueVars, upload, review, manifest, lock, task>>

-----------------------------------------------------------------------------
(* The drain, on a phase-complete event or on schedule, and the sweep.     *)

Reconcile ==
  /\ Idle
  /\ \/ /\ content # {}
        /\ Ask(1, PendingBook)
     \/ /\ content = {}
        /\ \E b \in Parked : Ask(2, b)
     \/ /\ content = {}
        /\ Parked = {}
        /\ \E b \in enrichQ : Ask(3, b)
  /\ UNCHANGED <<fileVars, queueVars, triggerVars, lock, task>>

ClearStaleLock(p) ==
  /\ lock[p]
  /\ Running(p) = {}
  /\ lock' = [lock EXCEPT ![p] = FALSE]
  /\ UNCHANGED <<fileVars, queueVars, triggerVars, requests, task>>

\* The dedup-complete topic: the reviewer is done.  Every phase 2 task is
\* stopped, whatever its book, and releases its lock.
DedupComplete ==
  /\ review
  /\ review' = FALSE
  /\ task' = [s \in Slot |-> IF task[s].phase = 2 THEN NoTask ELSE task[s]]
  /\ lock' = [lock EXCEPT ![2] = @ /\ Running(2) = {}]
  /\ Drop(UNION {Owed(s) : s \in Running(2)})
  /\ UNCHANGED failures
  /\ Ask(3, All)
  /\ UNCHANGED <<parsed, notices, events, extracted, queueVars, upload, awake, manifest>>

-----------------------------------------------------------------------------
(* _run_task                                                               *)

FirstStep == [p \in Phase |-> <<"boot", "read", "enrich">>[p]]

Start(p, b) ==
  \E s \in Slot :
    /\ task[s] = NoTask
    /\ task' = [task EXCEPT ![s] =
                  [phase |-> p, book |-> b, pc |-> FirstStep[p],
                   work |-> {}, seen |-> {}]]

\* The lock is free, or nobody works under it and it is old enough.
TakeLockAndLaunch(p, b) ==
  /\ <<p, b>> \in requests
  /\ ~lock[p] \/ Running(p) = {}
  /\ lock' = [lock EXCEPT ![p] = TRUE]
  /\ Start(p, b)
  /\ requests' = requests \ {<<p, b>>}
  /\ UNCHANGED <<fileVars, queueVars, triggerVars>>

\* Mutant: queued without a look at the book.
LockedOutAnyBook(p, b) ==
  /\ <<p, b>> \in requests
  /\ lock[p]
  /\ parsedQ' = IF p = 2 /\ b # All THEN [parsedQ EXCEPT ![b].there = TRUE] ELSE parsedQ
  /\ enrichQ' = IF p = 3 THEN enrichQ \cup {b} ELSE enrichQ
  /\ requests' = requests \ {<<p, b>>}
  /\ UNCHANGED <<fileVars, content, triggerVars, lock, task>>

\* The request is queued for later, if it names a book.
LockedOut(p, b) ==
  /\ <<p, b>> \in requests
  /\ lock[p]
  /\ parsedQ' = IF p = 2 /\ b # All THEN [parsedQ EXCEPT ![b].there = TRUE] ELSE parsedQ
  /\ enrichQ' = IF p = 3 /\ b # All THEN enrichQ \cup {b} ELSE enrichQ
  /\ requests' = requests \ {<<p, b>>}
  /\ UNCHANGED <<fileVars, content, triggerVars, lock, task>>

\* run_task places no task, every time Lambda tries again.
LaunchFails(p, b) ==
  /\ Failure
  /\ <<p, b>> \in requests
  /\ ~lock[p]
  /\ requests' = requests \ {<<p, b>>}
  /\ IF p = 2 THEN Drop(parsed \cap FilesOf(b)) ELSE UNCHANGED dropped
  /\ UNCHANGED <<parsed, notices, events, extracted, queueVars, triggerVars, lock, task>>

-----------------------------------------------------------------------------
(* A task.                                                                 *)

At(s, p, pc) == task[s].phase = p /\ task[s].pc = pc
GoTo(s, pc) == task' = [task EXCEPT ![s].pc = pc]
Forget(s, pc) == task' = [task EXCEPT ![s].pc = pc, ![s].work = {}, ![s].seen = {}]
Leave(s) == task' = [task EXCEPT ![s] = NoTask]
RemoveLock(s) == lock' = [lock EXCEPT ![task[s].phase] = FALSE]

PreparePhase1(s) ==
  /\ At(s, 1, "boot")
  /\ GoTo(s, "download")
  /\ RemoveLock(s)
  /\ UNCHANGED <<fileVars, queueVars, triggerVars, requests>>

\* One book: everything stored of it.  All books: the manifest or, without
\* one, everything.
Download(s) ==
  /\ At(s, 1, "download")
  /\ task' = [task EXCEPT ![s].pc = "parse",
                ![s].work = IF task[s].book = All /\ manifest # {}
                            THEN manifest
                            ELSE Uploaded \cap FilesOf(task[s].book)]
  /\ UNCHANGED <<fileVars, queueVars, triggerVars, requests, lock>>

ClearManifest(s) ==
  /\ At(s, 1, "parse")
  /\ GoTo(s, "sync")
  /\ manifest' = {}
  /\ UNCHANGED <<fileVars, queueVars, upload, awake, review, requests, lock>>

\* Uploading the parsed files raises their events, again if they were there.
FinalSyncPhase1(s) ==
  /\ At(s, 1, "sync")
  /\ GoTo(s, "prune")
  /\ parsed' = parsed \cup task[s].work
  /\ notices' = notices \cup task[s].work
  /\ UNCHANGED <<events, extracted, failVars, queueVars, triggerVars, requests, lock>>

\* _clear_processed_content_keys: a blind delete for all books ...
ClearContent(s) ==
  /\ At(s, 1, "prune")
  /\ task[s].book = All
  /\ Forget(s, "trigger")
  /\ content' = {}
  /\ UNCHANGED <<fileVars, parsedQ, enrichQ, triggerVars, requests, lock>>

\* ... and a get followed by a put of what remains for one book.
GetContent(s) ==
  /\ At(s, 1, "prune")
  /\ task[s].book # All
  /\ task' = [task EXCEPT ![s].pc = "write", ![s].seen = content]
  /\ UNCHANGED <<fileVars, queueVars, triggerVars, requests, lock>>

PutContent(s) ==
  /\ At(s, 1, "write")
  /\ Forget(s, "trigger")
  /\ content' = task[s].seen \ FilesOf(task[s].book)
  /\ UNCHANGED <<fileVars, parsedQ, enrichQ, triggerVars, requests, lock>>

TriggerPhase2(s) ==
  /\ At(s, 1, "trigger")
  /\ GoTo(s, "unlock")
  /\ Ask(2, task[s].book)
  /\ UNCHANGED <<fileVars, queueVars, triggerVars, lock>>

\* _read_manifest: an item without keys is left where it is.
ReadManifest(s) ==
  /\ At(s, 2, "read")
  /\ LET keys == IF task[s].book = All THEN {} ELSE parsedQ[task[s].book].keys
     IN task' = [task EXCEPT ![s].pc = IF keys = {} THEN "fetch" ELSE "delete",
                             ![s].seen = keys]
  /\ UNCHANGED <<fileVars, queueVars, triggerVars, requests, lock>>

DeleteManifest(s) ==
  /\ At(s, 2, "delete")
  /\ GoTo(s, "fetch")
  /\ parsedQ' = [parsedQ EXCEPT ![task[s].book] = NoItem]
  /\ UNCHANGED <<fileVars, content, enrichQ, triggerVars, requests, lock>>

\* Mutant: only the files of the manifest, or else of the scan, are fetched.
WorkFromManifest(s) ==
  IF task[s].seen # {} THEN task[s].seen
  ELSE (parsed \cap FilesOf(task[s].book)) \ events

\* What is on the task's disk when phase 2 starts: for one book all that S3
\* has of it (_rehydrate_scored_entities), else what the scan finds.
Work(s) ==
  IF task[s].book = All THEN parsed \ events
  ELSE parsed \cap FilesOf(task[s].book)

DownloadPhase2Inputs(s) ==
  /\ At(s, 2, "fetch")
  /\ Work(s) # {}
  /\ task' = [task EXCEPT ![s].pc = "extract", ![s].work = Work(s), ![s].seen = {}]
  /\ UNCHANGED <<fileVars, queueVars, triggerVars, requests, lock>>

\* No parsed file, or more of them than the scope guard allows a run
\* without a book.
AbortPhase2(s) ==
  /\ At(s, 2, "fetch")
  /\ task[s].book = All \/ Work(s) = {}
  /\ Leave(s)
  /\ RemoveLock(s)
  /\ UNCHANGED <<fileVars, queueVars, triggerVars, requests>>

\* A pass of BackgroundSync, the only way an event file gets to S3.
SyncChanged(s) ==
  /\ At(s, 2, "extract")
  /\ \E f \in task[s].work : events' = events \cup {f}
  /\ UNCHANGED <<parsed, notices, extracted, failVars, queueVars, triggerVars,
                 requests, lock, task>>

FinalSyncPhase2(s) ==
  /\ At(s, 2, "extract")
  /\ Forget(s, "gate")
  /\ extracted' = extracted \cup task[s].work
  /\ dropped' = dropped \ task[s].work
  /\ UNCHANGED <<parsed, notices, events, failures, queueVars, triggerVars,
                 requests, lock>>

DedupGate(s) ==
  /\ At(s, 2, "gate")
  /\ GoTo(s, "next")
  /\ \/ /\ Ask(3, task[s].book)
        /\ UNCHANGED review
     \/ /\ GateBlocks
        /\ review' = TRUE
        /\ UNCHANGED requests
  /\ UNCHANGED <<fileVars, queueVars, upload, awake, manifest, lock>>

\* The first item of a scan, in no particular order.
TriggerNextBook(s) ==
  /\ At(s, 2, "next")
  /\ GoTo(s, "unlock")
  /\ IF Parked = {} THEN UNCHANGED requests ELSE \E b \in Parked : Ask(2, b)
  /\ UNCHANGED <<fileVars, queueVars, triggerVars, lock>>

\* The last call of phases 1 and 2.
Unlock(s) ==
  /\ task[s].pc = "unlock"
  /\ Leave(s)
  /\ RemoveLock(s)
  /\ UNCHANGED <<fileVars, queueVars, triggerVars, requests>>

Enrich(s) ==
  /\ At(s, 3, "enrich")
  /\ GoTo(s, "nextEnrich")
  /\ RemoveLock(s)
  /\ UNCHANGED <<fileVars, queueVars, triggerVars, requests>>

\* From here on "book" is the next book.
TriggerNextEnrich(s) ==
  /\ At(s, 3, "nextEnrich")
  /\ \/ /\ enrichQ = {}
        /\ Leave(s)
        /\ UNCHANGED requests
     \/ \E b \in enrichQ :
          /\ Ask(3, b)
          /\ task' = [task EXCEPT ![s].pc = "consume", ![s].book = b]
  /\ UNCHANGED <<fileVars, queueVars, triggerVars, lock>>

ConsumePendingEnrich(s) ==
  /\ At(s, 3, "consume")
  /\ Leave(s)
  /\ enrichQ' = enrichQ \ {task[s].book}
  /\ UNCHANGED <<fileVars, content, parsedQ, triggerVars, requests, lock>>

\* The phase fails before its post-processing; phase 3 keeps its lock.
PhaseFails(s) ==
  /\ Failure
  /\ task[s].pc \in {"boot", "download", "parse", "read", "delete", "fetch",
                     "extract", "enrich"}
  /\ Leave(s)
  /\ IF task[s].phase = 3 THEN UNCHANGED lock ELSE RemoveLock(s)
  /\ Drop(Owed(s))
  /\ UNCHANGED <<parsed, notices, events, extracted, queueVars, triggerVars, requests>>

\* SIGTERM: what has been parsed is uploaded, the lock released.
Interrupted(s) ==
  /\ Failure
  /\ task[s] # NoTask
  /\ Leave(s)
  /\ RemoveLock(s)
  /\ IF task[s].phase = 1
     THEN \E done \in SUBSET task[s].work :
            parsed' = parsed \cup done /\ notices' = notices \cup done
     ELSE UNCHANGED <<parsed, notices>>
  /\ Drop(Owed(s))
  /\ UNCHANGED <<events, extracted, queueVars, triggerVars, requests>>

-----------------------------------------------------------------------------
UploadStep(f) ==
  \/ Upload(f)
  \/ UpdateManifest(f)
  \/ QueuePending(f)
  \/ LaunchPhase1IfIdle(f)

RunTask(p, b) ==
  \/ TakeLockAndLaunch(p, b)
  \/ LockedOut(p, b)
  \/ LaunchFails(p, b)

Phase1Step(s) ==
  \/ PreparePhase1(s)
  \/ Download(s)
  \/ ClearManifest(s)
  \/ FinalSyncPhase1(s)
  \/ ClearContent(s)
  \/ GetContent(s)
  \/ PutContent(s)
  \/ TriggerPhase2(s)

Phase2Step(s) ==
  \/ ReadManifest(s)
  \/ DeleteManifest(s)
  \/ DownloadPhase2Inputs(s)
  \/ AbortPhase2(s)
  \/ SyncChanged(s)
  \/ FinalSyncPhase2(s)
  \/ DedupGate(s)
  \/ TriggerNextBook(s)

Phase3Step(s) ==
  \/ Enrich(s)
  \/ TriggerNextEnrich(s)
  \/ ConsumePendingEnrich(s)

TaskStep(s) ==
  \/ Phase1Step(s)
  \/ Phase2Step(s)
  \/ Phase3Step(s)
  \/ Unlock(s)
  \/ PhaseFails(s)
  \/ Interrupted(s)

Next ==
  \/ \E f \in File : UploadStep(f) \/ QueueParsed(f)
  \/ LaunchPhase2IfIdle
  \/ Reconcile
  \/ \E p \in Phase : ClearStaleLock(p)
  \/ DedupComplete
  \/ \E p \in Phase, b \in Scope : RunTask(p, b)
  \/ \E s \in Slot : TaskStep(s)

Spec == Init /\ [][Next]_vars

-----------------------------------------------------------------------------
(* Properties.                                                             *)

\* A parsed file is stranded only by a task that failed or was stopped:
\* until its entities are in S3 its event is on the way, its book is parked
\* or requested, or a task will see to it.
\* In particular the keys that _read_manifest deletes unread (appended
\* between its get and its delete) are not missed.
ParsedNotStranded ==
  \A f \in parsed \ (extracted \cup dropped) :
    \/ f \in notices
    \/ parsedQ[BookOf[f]].there
    \/ <<2, BookOf[f]>> \in requests
    \/ \E s \in Slot : WillExtract(s, f)
===============================================================================
