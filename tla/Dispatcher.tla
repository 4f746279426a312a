------------------------------ MODULE Dispatcher ------------------------------
(***************************************************************************)
(* The multi-document dispatcher (MULTI_DOC_ENABLED on): lifecycle records  *)
(* doc#{book} in the cache table, the trigger that seeds them and starts an *)
(* execution of the state machine, and the executions ("drains"), each a    *)
(* loop of enumerate_pending (scan, scope guard, claims), clamp_pool, NAT   *)
(* creation and a Map over the claimed documents, one ECS task for each.    *)
(*                                                                         *)
(* One step per access to the table and per change of a task.  NatLifecycle *)
(* has the NAT, BatchJobs has the batches that a task may leave behind.     *)
(***************************************************************************)
EXTENDS Naturals, FiniteSets

CONSTANTS
  Docs,       \* the documents: one per book
  MaxDrains,  \* bound: executions of the state machine
  Uploads,    \* bound: trigger invocations that seed a document
  BookSets,   \* what the uploads may be for
  NoCount,    \* DISPATCH_EXPECTED_COUNT is not set
  Declared,   \* the values DISPATCH_EXPECTED_COUNT may have
  Ceiling,    \* LARGE_RUN_CEILING
  PoolMin,    \* POOL_MIN
  PoolMax,    \* POOL_MAX
  Quotas,     \* tasks that the Fargate vCPU quota may allow
  InBatch,    \* the phases that submit a batch
  Attempts,   \* 1 + MaxAttempts of the state machine's retry
  MaxFaults   \* bound: failures of tasks, calls and executions

ASSUME DispatcherAssumption ==
  /\ IsFiniteSet(Docs)
  /\ MaxDrains \in Nat
  /\ BookSets \subseteq [Uploads -> Docs]
  /\ NoCount \notin Nat
  /\ Declared \subseteq Nat \cup {NoCount}
  /\ Ceiling \in Nat
  /\ PoolMin \in Nat \ {0}
  /\ PoolMax \in Nat
  /\ Quotas \subseteq Nat
  /\ InBatch \subseteq {2, 3}
  /\ Attempts \in Nat \ {0}
  /\ MaxFaults \in Nat

Drains == 1..MaxDrains
NoDrain == 0

VARIABLES
  doc,       \* the lifecycle records
  upload,    \* how far each trigger invocation is, and its document
  dpc,       \* where each execution is
  todo,      \* documents its scan has still to read
  snap,      \* the READY records its scan has read and not yet claimed
  pool,      \* its effective pool size
  item,      \* its work items
  batch,     \* batches in flight, by document and phase
  expected,  \* the declared count
  faults,    \* how many failures there have been
  driver,    \* history: the execution whose task made the document READY
  overtaken   \* history: documents whose record was written behind a task's back

drainVars == <<dpc, todo, snap, pool>>
vars == <<doc, upload, drainVars, item, batch, expected, faults, driver, overtaken>>

Phases == 1..3
\* Mutant of Ready: a document that waits for its review counts as READY.
ReadyForReview == {"held_unprocessed", "parsed", "extracted", "deduped",
                   "enriched", "needs-review"}

Ready == {"held_unprocessed", "parsed", "extracted", "deduped", "enriched"}

Terminal == {"done", "needs-review"}
Ended == {"done", "aborted", "failed"}

Record == [status : Ready \cup Terminal \cup {"none", "running"}, next : Phases]
Item == [st : {"none", "waiting", "running", "advanced"}, phase : Phases,
         tries : 0..Attempts]
Upload == [pc : {"start", "look", "execute", "end"}, book : Docs]

NoRecord == [status |-> "none", next |-> 1]
NoItem == [st |-> "none", phase |-> 1, tries |-> 0]

TypeOK ==
  /\ doc \in [Docs -> Record]
  /\ upload \in [Uploads -> Upload]
  /\ dpc \in [Drains -> Ended \cup {"off", "scan", "claim", "prepare", "fanout"}]
  /\ todo \in [Drains -> SUBSET Docs]
  /\ snap \in [Drains -> [Docs -> Record]]
  /\ pool \in [Drains -> Nat]
  /\ item \in [Drains -> [Docs -> Item]]
  /\ batch \subseteq Docs \X InBatch
  /\ expected \in Declared
  /\ faults \in 0..MaxFaults
  /\ driver \in [Docs -> Drains \cup {NoDrain}]
  /\ overtaken \subseteq Docs

Init ==
  /\ doc = [d \in Docs |-> NoRecord]
  /\ \E bs \in BookSets :
       upload = [u \in Uploads |-> [pc |-> "start", book |-> bs[u]]]
  /\ dpc = [x \in Drains |-> "off"]
  /\ todo = [x \in Drains |-> {}]
  /\ snap = [x \in Drains |-> [d \in Docs |-> NoRecord]]
  /\ pool = [x \in Drains |-> PoolMin]
  /\ item = [x \in Drains |-> [d \in Docs |-> NoItem]]
  /\ batch = {}
  /\ expected \in Declared
  /\ faults = 0
  /\ driver = [d \in Docs |-> NoDrain]
  /\ overtaken = {}

Fault ==
  /\ faults < MaxFaults
  /\ faults' = faults + 1

\* Tasks of the execution x are to do, or are doing, the work of d.
Works(x, d) == item[x][d].st \in {"waiting", "running"}
Active(x) == dpc[x] \notin Ended \cup {"off"}

-----------------------------------------------------------------------------
(* Writes of the lifecycle record: upsert and set_status overwrite it.      *)

\* The history of a write that leaves d with the status s, made by a task of
\* the execution x; W are the executions that still work on d.
Note(d, s, x, W) ==
  /\ driver' = [driver EXCEPT ![d] = IF s \in Ready THEN x ELSE NoDrain]
  /\ overtaken' = IF W # {} THEN overtaken \cup {d} ELSE overtaken

Workers(d) == {x \in Drains : Works(x, d)}

\* Mutant of Advanced: next_phase is not updated.
AdvancedInPlace(d, p) ==
  CASE p = 1 -> {[doc[d] EXCEPT !.status = "parsed"]}
    [] p = 2 -> {[doc[d] EXCEPT !.status = "extracted"],
                 [doc[d] EXCEPT !.status = "needs-review"]}
    [] p = 3 -> {[doc[d] EXCEPT !.status = "done"]}

\* Mutant of Advanced: every phase has a next one.
AdvancedBeyond(d, p) ==
  CASE p = 1 -> {[status |-> "parsed", next |-> 2]}
    [] p = 2 -> {[status |-> "extracted", next |-> 3],
                 [doc[d] EXCEPT !.status = "needs-review"]}
    [] p = 3 -> {[status |-> "done", next |-> 4]}

\* _advance_doc_lifecycle and _offramp_doc_needs_review: what the record of d
\* may become when its phase p has completed.  The gate of phase 2 decides.
Advanced(d, p) ==
  CASE p = 1 -> {[status |-> "parsed", next |-> 2]}
    [] p = 2 -> {[status |-> "extracted", next |-> 3],
                 [doc[d] EXCEPT !.status = "needs-review"]}
    [] p = 3 -> {[doc[d] EXCEPT !.status = "done"]}

-----------------------------------------------------------------------------
(* The trigger.                                                             *)

\* _seed_docs: content is seeded for phase 1, parsed chapters for phase 2.
Seed(u) ==
  /\ upload[u].pc = "start"
  /\ upload' = [upload EXCEPT ![u].pc = "look"]
  /\ LET d == upload[u].book IN
       \E p \in {1, 2} :
         /\ doc' = [doc EXCEPT ![d] = [status |-> "held_unprocessed", next |-> p]]
         /\ Note(d, "held_unprocessed", NoDrain, Workers(d))
  /\ UNCHANGED <<drainVars, item, batch, expected, faults>>

\* _start_dispatcher: list_executions, then start_execution.
SeesRunning(u) ==
  /\ upload[u].pc = "look"
  /\ \E x \in Drains : Active(x)
  /\ upload' = [upload EXCEPT ![u].pc = "end"]
  /\ UNCHANGED <<doc, drainVars, item, batch, expected, faults, driver, overtaken>>

SeesNone(u) ==
  /\ upload[u].pc = "look"
  /\ \A x \in Drains : ~Active(x)
  /\ upload' = [upload EXCEPT ![u].pc = "execute"]
  /\ UNCHANGED <<doc, drainVars, item, batch, expected, faults, driver, overtaken>>

StartExecution(u, x) ==
  /\ upload[u].pc = "execute"
  /\ dpc[x] = "off"
  /\ \A y \in Drains : y < x => dpc[y] # "off"
  /\ upload' = [upload EXCEPT ![u].pc = "end"]
  /\ dpc' = [dpc EXCEPT ![x] = "scan"]
  /\ todo' = [todo EXCEPT ![x] = Docs]
  /\ UNCHANGED <<doc, snap, pool, item, batch, expected, faults, driver, overtaken>>

\* An error: the caller falls back to the serial launch.
StartFails(u) ==
  /\ upload[u].pc \in {"look", "execute"}
  /\ Fault
  /\ upload' = [upload EXCEPT ![u].pc = "end"]
  /\ UNCHANGED <<doc, drainVars, item, batch, expected, driver, overtaken>>

-----------------------------------------------------------------------------
(* enumerate_pending.                                                       *)

\* _scan_ready_candidates: the pages of one scan are read one after another.
Scan(x, d) ==
  /\ dpc[x] = "scan"
  /\ d \in todo[x]
  /\ todo' = [todo EXCEPT ![x] = @ \ {d}]
  /\ snap' = [snap EXCEPT ![x][d] =
       IF doc[d].status \in Ready THEN doc[d] ELSE NoRecord]
  /\ UNCHANGED <<doc, upload, dpc, pool, item, batch, expected, faults, driver, overtaken>>

Candidates(x) == {d \in Docs : snap[x][d].status \in Ready}

\* enforce_scope: the declared count, if any, must be the actual one, and a
\* run above the ceiling must be declared.
InScope(n) ==
  /\ expected # NoCount => n = expected
  /\ n > Ceiling => expected = n

Guard(x) ==
  /\ dpc[x] = "scan"
  /\ todo[x] = {}
  /\ dpc' = [dpc EXCEPT ![x] =
       IF InScope(Cardinality(Candidates(x))) THEN "claim" ELSE "aborted"]
  /\ UNCHANGED <<doc, upload, todo, snap, pool, item, batch, expected, faults, driver, overtaken>>

\* Mutant of ClaimWon: the write is not conditional.
ClaimAnyway(x, d) ==
  /\ dpc[x] = "claim"
  /\ d \in Candidates(x)
  /\ doc' = [doc EXCEPT ![d].status = "running"]
  /\ item' = [item EXCEPT ![x][d] =
       [st |-> "waiting", phase |-> snap[x][d].next, tries |-> 1]]
  /\ snap' = [snap EXCEPT ![x][d] = NoRecord]
  /\ UNCHANGED <<upload, dpc, todo, pool, batch, expected, faults, driver, overtaken>>

\* Mutant of ClaimWon: the claims are for what a second scan finds.
ClaimRescanned(x, d) ==
  /\ dpc[x] = "claim"
  /\ doc[d].status \in Ready
  /\ doc' = [doc EXCEPT ![d].status = "running"]
  /\ item' = [item EXCEPT ![x][d] =
       [st |-> "waiting", phase |-> doc[d].next, tries |-> 1]]
  /\ snap' = [snap EXCEPT ![x][d] = NoRecord]
  /\ UNCHANGED <<upload, dpc, todo, pool, batch, expected, faults, driver, overtaken>>

\* _claim_doc: conditional on the status the scan has read.
ClaimWon(x, d) ==
  /\ dpc[x] = "claim"
  /\ d \in Candidates(x)
  /\ doc[d].status = snap[x][d].status
  /\ doc' = [doc EXCEPT ![d].status = "running"]
  /\ item' = [item EXCEPT ![x][d] =
       [st |-> "waiting", phase |-> snap[x][d].next, tries |-> 1]]
  /\ snap' = [snap EXCEPT ![x][d] = NoRecord]
  /\ UNCHANGED <<upload, dpc, todo, pool, batch, expected, faults, driver, overtaken>>

ClaimLost(x, d) ==
  /\ dpc[x] = "claim"
  /\ d \in Candidates(x)
  /\ doc[d].status # snap[x][d].status
  /\ snap' = [snap EXCEPT ![x][d] = NoRecord]
  /\ UNCHANGED <<doc, upload, dpc, todo, pool, item, batch, expected, faults, driver, overtaken>>

Items(x) == {d \in Docs : item[x][d].st # "none"}

\* AnyPending: with nothing claimed the execution is done.
AnyPending(x) ==
  /\ dpc[x] = "claim"
  /\ Candidates(x) = {}
  /\ dpc' = [dpc EXCEPT ![x] = IF Items(x) = {} THEN "done" ELSE "prepare"]
  /\ UNCHANGED <<doc, upload, todo, snap, pool, item, batch, expected, faults, driver, overtaken>>

-----------------------------------------------------------------------------
(* The rest of the state machine.                                           *)

Least(m, n) == IF m < n THEN m ELSE n
Greatest(m, n) == IF m < n THEN n ELSE m

\* clamp_pool; the quota falls back to PoolMax when it cannot be read.
Effective(quota) == Greatest(Least(PoolMax, Greatest(quota, 1)), PoolMin)

\* ClampPool, CreateNat and WaitForNat.
Prepare(x) ==
  /\ dpc[x] = "prepare"
  /\ \E q \in Quotas \cup {PoolMax} : pool' = [pool EXCEPT ![x] = Effective(q)]
  /\ dpc' = [dpc EXCEPT ![x] = "fanout"]
  /\ UNCHANGED <<doc, upload, todo, snap, item, batch, expected, faults, driver, overtaken>>

\* Neither EnumeratePending nor ClampPool is retried, CreateNat gives up: the
\* execution fails with what it has claimed.
DrainFails(x) ==
  /\ dpc[x] \in {"scan", "claim", "prepare"}
  /\ Fault
  /\ dpc' = [dpc EXCEPT ![x] = "failed"]
  /\ item' = [item EXCEPT ![x] = [d \in Docs |-> NoItem]]
  /\ UNCHANGED <<doc, upload, todo, snap, pool, batch, expected, driver, overtaken>>

Launched(x) == {d \in Docs : item[x][d].st \in {"running", "advanced"}}

\* FanOut starts a task under MaxConcurrency.
Launch(x, d) ==
  /\ dpc[x] = "fanout"
  /\ item[x][d].st = "waiting"
  /\ Cardinality(Launched(x)) < pool[x]
  /\ item' = [item EXCEPT ![x][d].st = "running"]
  /\ UNCHANGED <<doc, upload, drainVars, batch, expected, faults, driver, overtaken>>

\* _post_process: the phase is complete and the record advances.
Advance(x, d) ==
  /\ item[x][d].st = "running"
  /\ item' = [item EXCEPT ![x][d].st = "advanced"]
  /\ \E r \in Advanced(d, item[x][d].phase) :
       /\ doc' = [doc EXCEPT ![d] = r]
       /\ Note(d, r.status, x, Workers(d) \ {x})
  /\ UNCHANGED <<upload, drainVars, batch, expected, faults>>

\* The write of the record raises: a warning.
AdvanceRaises(x, d) ==
  /\ item[x][d].st = "running"
  /\ Fault
  /\ item' = [item EXCEPT ![x][d].st = "advanced"]
  /\ UNCHANGED <<doc, upload, drainVars, batch, expected, driver, overtaken>>

\* run_submit_only: the task ends with a batch in flight.
Park(x, d) ==
  /\ item[x][d].st = "running"
  /\ item[x][d].phase \in InBatch
  /\ batch' = batch \cup {<<d, item[x][d].phase>>}
  /\ item' = [item EXCEPT ![x][d] = NoItem]
  /\ UNCHANGED <<doc, upload, drainVars, expected, faults, driver, overtaken>>

Exit(x, d) ==
  /\ item[x][d].st = "advanced"
  /\ item' = [item EXCEPT ![x][d] = NoItem]
  /\ UNCHANGED <<doc, upload, drainVars, batch, expected, faults, driver, overtaken>>

\* States.TaskFailed, be it after the record has advanced: the task is run
\* again, or DocFailed ends the branch and leaves the record as it is.
TaskFails(x, d) ==
  /\ item[x][d].st \in {"running", "advanced"}
  /\ Fault
  /\ IF item[x][d].tries < Attempts
       THEN /\ item' = [item EXCEPT ![x][d] =
                [st |-> "running", phase |-> @.phase, tries |-> @.tries + 1]]
            /\ overtaken' = IF item[x][d].st = "advanced" THEN overtaken \cup {d} ELSE overtaken
       ELSE /\ item' = [item EXCEPT ![x][d] = NoItem]
            /\ UNCHANGED overtaken
  /\ UNCHANGED <<doc, upload, drainVars, batch, expected, driver>>

\* Mutant of FanOutEnds: one pass per execution.
FanOutIsLast(x) ==
  /\ dpc[x] = "fanout"
  /\ Items(x) = {}
  /\ dpc' = [dpc EXCEPT ![x] = "done"]
  /\ UNCHANGED <<doc, upload, todo, snap, pool, item, batch, expected, faults, driver, overtaken>>

\* The Map has ended: enumerate again.
FanOutEnds(x) ==
  /\ dpc[x] = "fanout"
  /\ Items(x) = {}
  /\ dpc' = [dpc EXCEPT ![x] = "scan"]
  /\ todo' = [todo EXCEPT ![x] = Docs]
  /\ UNCHANGED <<doc, upload, snap, pool, item, batch, expected, faults, driver, overtaken>>

\* run_retrieve_only: the task that the batch poller starts completes the
\* phase, outside of any execution.
Retrieve(d, p) ==
  /\ <<d, p>> \in batch
  /\ batch' = batch \ {<<d, p>>}
  /\ \E r \in Advanced(d, p) :
       /\ doc' = [doc EXCEPT ![d] = r]
       /\ Note(d, r.status, NoDrain, Workers(d))
  /\ UNCHANGED <<upload, drainVars, item, expected, faults>>

\* The phase fails on the batch's results: the job is closed as failed.
RetrieveFails(d, p) ==
  /\ <<d, p>> \in batch
  /\ Fault
  /\ batch' = batch \ {<<d, p>>}
  /\ UNCHANGED <<doc, upload, drainVars, item, expected, driver, overtaken>>

-----------------------------------------------------------------------------
TriggerStep(u) ==
  \/ Seed(u)
  \/ SeesRunning(u)
  \/ SeesNone(u)
  \/ \E x \in Drains : StartExecution(u, x)

\* What an execution and its tasks do by themselves.
DrainStep(x) ==
  \/ Guard(x)
  \/ AnyPending(x)
  \/ Prepare(x)
  \/ FanOutEnds(x)
  \/ \E d \in Docs :
       \/ Scan(x, d)
       \/ ClaimWon(x, d)
       \/ ClaimLost(x, d)
       \/ Launch(x, d)
       \/ Advance(x, d)
       \/ Park(x, d)
       \/ Exit(x, d)

Failure ==
  \/ \E u \in Uploads : StartFails(u)
  \/ \E x \in Drains : DrainFails(x)
  \/ \E x \in Drains, d \in Docs : AdvanceRaises(x, d) \/ TaskFails(x, d)
  \/ \E d \in Docs, p \in InBatch : RetrieveFails(d, p)

Next ==
  \/ \E u \in Uploads : TriggerStep(u)
  \/ \E x \in Drains : DrainStep(x)
  \/ \E d \in Docs, p \in InBatch : Retrieve(d, p)
  \/ Failure

Spec == Init /\ [][Next]_vars

\* Step Functions carries an execution on; every task ends, by itself or at
\* the limit of its phase.
FairSpec == Spec /\ \A x \in Drains : WF_vars(DrainStep(x))

-----------------------------------------------------------------------------
(* Properties.                                                              *)

\* _claim_doc, "so a doc is never double-dispatched": two executions have
\* tasks for one document only if its record was written behind a task's
\* back, by an upload that seeds it again, a batch retrieved for it, or a task
\* that fails after it has advanced the record and is run again.
WorkedOnce ==
  \A d \in Docs \ overtaken : Cardinality(Workers(d)) <= 1

\* A document that is done or waits for a review changes only by a new upload,
\* a batch retrieved for it, or a task the record of which was overtaken.
TerminalIsFinal ==
  [][\A d \in Docs \ overtaken :
       doc[d].status \in Terminal /\ doc'[d] # doc[d] =>
         \/ \E u \in Uploads : upload[u].book = d /\ upload[u].pc # upload'[u].pc
         \/ batch' # batch]_vars

\* The document is still to be claimed by the execution x.
Sees(x, d) ==
  \/ dpc[x] = "fanout"
  \/ dpc[x] = "scan" /\ (d \in todo[x] \/ snap[x][d].status = doc[d].status)
  \/ dpc[x] = "claim" /\ snap[x][d].status = doc[d].status
  \/ dpc[x] \in {"aborted", "failed"}

\* The loop of the state machine: a document that a task has advanced to its
\* next phase is not left behind, the execution of that task enumerates it
\* again, unless it fails or the scope guard stops it.
ProgressIsDriven ==
  \A d \in Docs :
    doc[d].status \in Ready /\ driver[d] # NoDrain => Sees(driver[d], d)

\* "The dispatched set can never exceed the set the guard approved".
ScopeHeld ==
  \A x \in Drains :
    Cardinality(Items(x)) <= IF expected = NoCount THEN Ceiling ELSE expected

\* The uploads being finite, every execution ends: no document is dispatched
\* again and again.
DrainsEnd == <>[](\A x \in Drains : ~Active(x))
===============================================================================
