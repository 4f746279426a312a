# A verification of the WWII data extraction pipeline

This directory holds TLA+ models of the coordination logic of the pipeline:
the code that decides which task may run, when the network exists, what is
submitted and paid for, and what is written when several processes share a
table or a file. TLC checks the models on small instances; TLAPS proves the
central theorems for every value of the constants.

## 1. The system

Books and documents are uploaded to S3 and go through phases: conversion and
OCR (0), parsing (1), extraction by the Grok API (2), a deduplication gate, and
enrichment (3). Each phase is an ECS Fargate task, usually on Spot capacity.
Lambda functions start the tasks, create and delete the NAT gateway the tasks
need, poll the Grok batches and run the human review pages. All of them
coordinate through one DynamoDB table (`CACHE_TABLE`), by items with a key
prefix: `lock#`, `pending#`, `manifest#`, `nat#lease#`, `batch_job#`,
`retrieve#`, `credit#`, `doc#`, `ocr#`, `ocrctl#`, `url#`. Nothing else serialises them: each
Lambda invocation, each task and each EventBridge rule is a process of its own,
and every call to DynamoDB, ECS, EC2 or S3 is a step between which the others
may act. Inside a task, threads and subprocesses share JSON files.

### 1.1 Inventory

| part | code | state it keeps | operations | what is hard | what makes it correct |
|---|---|---|---|---|---|
| phase launch lock | `lambda_handlers/trigger_handler.py`, `ecs_entrypoint.py` | one item per phase, or per phase and book | put if absent, reclaim if stale, undo, release by the task, sweep, TTL | check-then-act on a listing; crashes of either side; late SIGTERM; expiry | one task per key; nobody is robbed; a dead holder's lock goes away |
| NAT and endpoints | `nat_manager.py`, `nat_teardown.py`, `idle_backstop_reaper.py`, `utils/nat_lease.py` | EC2 gateway, route, endpoints; `lock#nat-manager`; leases; `reaper#state` | create, delete, verify; decide; strike; acquire, renew, release | two deleters and many creators; partial failures; scans that are old when used | one gateway; demand is respected; an idle gateway goes away |
| Grok batches | `batch_poller.py`, `utils/job_queue.py`, `ecs_entrypoint.run_submit_only`, `run_retrieve_only` | `batch_job#` rows, `retrieve#` claims, batches at Grok | submit, enqueue, poll, mark, claim, launch, close | overlapping polls, claims that expire, tasks that die | one retrieve per batch; closed is final; ready is retrieved |
| credit gate | `utils/credit_gate.py`, `grok_client.submit_batch` | `credit#spend` | reserve, release | concurrent submitters, lost replies, stopped tasks | joint cost within the budget |
| entity files | `utils/file_lock.py`, `extraction/people_groups.py` | JSON files, `index.json`, `.lock` files | locked read-modify-write, atomic replace, find or create | threads and processes, nested locks, killed writers | one file per group, nothing saved is lost, no deadlock |
| phase chain | `trigger_handler.py`, `ecs_entrypoint.py` | `pending#parsed/enrich/content/ocr`, `manifests/pending.json` | queue, drain, phase-complete, reconcile | read and delete in two calls; asynchronous invocation before the consume | no request is lost; every queued book runs in the end |
| dispatcher | `dispatcher_handlers.py`, `ingestion/doc_lifecycle.py`, `cloudformation/dispatcher.yaml`, `trigger_handler.py` | `doc#` records, executions of a state machine | seed, start, enumerate and claim, clamp the pool, run a task, advance the record, park on a batch | overlapping executions, records written behind a task's back, retried tasks, executions that die with claimed documents | a document is dispatched once; progress is driven on; the scope that was approved is kept |
| OCR jobs | `trigger_handler.py`, `ocr_spot_controller.py`, `ocr_merge_handler.py`, `cloudformation/ocr.yaml`, `scripts/chandra_entrypoint.sh` | AWS Batch jobs, `ocr#` and `ocrctl#` items, `ocr-output/` | claim a book, submit its ranges, move a starved job to on-demand, cap, merge | a listing made state by state; overwriting a stale record; submit without terminate; overlapping merges | a range is moved once; 48 h cap; what has succeeded is in the book |
| OpenSERP | `phase3_enqueue_openserp.py`, `openserp_worker.py`, `openserp_worker_autoscaler.py`, `enrichment/openserp_enrichment.py` | SQS queue, entity files, service size | enqueue, receive, extend, enrich, write then delete, scale | redelivery, two workers on one entity, stops in the middle | every entity is searched; nobody's finds are lost; the service goes to zero |
| URL registry | `utils/url_registry.py`, `utils/url_fetch.py` | `url#` records, cached verdicts | decide, claim, reclaim, finalize, record the verdict | stale claims, cool-down, redirects | a URL is fetched by one task at a time; "searched" means that the verdict is there |
| dedup gate, review pages | `dedup_gate_handler.py`, `*_ui_handler.py` | `review_status.json`, reports in S3 | block, forward, fan out, complete | status read before the fan-out | no enrichment before the review |
| dedup merging | `dedup/*.py` | entity files, resolved set | group, merge, rewrite references | order of merges, idempotence | every reference has a target |
| the work of a phase | `phase*.py`, `extraction/`, `enrichment/`, `ingestion/` | files | parse, prompt, validate, look up | data quality | about text; not the subject here |

How the parts interact: the trigger fires a NAT warm-up and launches a task
under the launch lock; the task takes a lease, asks for the network, works and
writes entity files, may pass the credit gate and leave a batch to the poller;
the poller launches a retrieve task *without* the launch lock; that task closes
the row and runs the same post-processing as the phase, which releases the lock
and triggers the next phase. The decider and the reaper read the leases, locks
and rows the others write. With `MULTI_DOC_ENABLED` the trigger seeds `doc#`
records instead and starts the dispatcher, whose tasks run the same phases. OCR
precedes all this: its jobs run in AWS Batch, and the merge of their output
uploads the content that the trigger reacts to. Enrichment may send entities to
the OpenSERP queue, whose workers share the URL registry.

`PROJECT.json` lists every part with its status, and under `hazards` what in
this code is hard to test, at its line. Vendored code (`src/aws/`), data,
documents, scripts and tests are left aside.

### 1.2 What the code means by time

Leases, locks and claims carry a TTL, and DynamoDB deletes an expired item
*some time* later: an expired item still exists for `attribute_not_exists`.
All modules model expiry as a separate step of the environment, enabled once
the TTL has passed.

## 2. The modules

Each component has its module (`X.tla`), a module of instances for TLC
(`MCX.tla`, with one `.cfg` per question) and a module of theorems and their
proofs, `XProofs.tla` (`BatchProofs.tla` for both `BatchJobs` and `CreditGate`,
`OcrProofs.tla` for `OcrJobs` and `OcrMerge`). `PROJECT.json` maps every definition to its source lines.
Definitions with a name like `ScanPending` that are introduced as *Mutant* are
plausible bugs, used nowhere in the specification: each property of a passing
run is shown to fail when one of them takes the place of the original.

Two components are composed of modules: `SearchWork` EXTENDS `UrlRegistry` (the
queue and the workers around the steps of a page) and is shown to implement
`WorkDelivery`; `OcrMerge` EXTENDS `OcrJobs` (the merges around the jobs).
`GroupFiles` is shown to implement `MentionStore`, the promise of the locked
files; `BatchJobs` and `UrlRegistry` both implement `ExclusiveWork`, the promise
of a claim. The components themselves are not composed into one: each takes the part of its
neighbours' behaviour it depends on as an action of the environment (the phase
locks in `NatLifecycle` may be cleared by a sweep, its batch row changes as
`BatchJobs` changes it). The compositions worth making are in the plan
(section 6).

### 2.1 LaunchLock: the launch lock of a phase

| specification | code |
|---|---|
| `lock[k]` | item `lock#{family}[#{book}]`; `owner` is a history field that no code reads |
| `pc[l]` of a launcher | where an invocation of `_run_task` is; one step per DynamoDB or ECS call |
| `Begin`, `PutLock` | `_run_task`, the conditional put of `_acquire_task_lock` |
| `ListTasks`, `ReadAge` | `list_tasks`, `_lock_age_seconds`, `_try_reclaim_if_gone` |
| `DeleteStale`, `PutReclaimed` | `_reclaim_stale_lock`: delete on the observed timestamp, put again |
| `Skip` | the queueing at the end of `_acquire_task_lock` |
| `Launch`, `LaunchFails`, `UndoLock`, `Die` | `_launch_ecs_task`, whose `run_task` may raise with or without a task placed; the Lambda's time-out |
| `PreparePhase1`, `Release`, `Exit`, `ExitHolding` | `_prepare_phase1`, `_post_process`, the exits of `run_phase` that leave the lock |
| `Interrupt`, `EmergencyRelease`, `Kill` | SIGTERM: ECS stops listing the task, the handler deletes the lock, or is killed |
| `SweepGet`, `SweepList`, `SweepDelete` | the lock part of `_handle_scheduled_check` |
| `StartRetrieve` | `batch_poller._trigger_retrieve`, which takes no lock |
| `Expire`, `Tick` | the TTL; the clock, which may not pass the Lambda's time-out. Nothing limits a task |
| `dropped` | history: launchers whose item was deleted by somebody who did not look whose it was (`Drop`) |

Deployment choices are constants: `MultiDoc` (per-book locks), `EarlyRelease`
(phase 1 drops its lock when it starts), `SpotStop` (ECS may stop a task).

### 2.2 NatLifecycle: the gateway, its leases and its two deleters

| specification | code |
|---|---|
| `LockNat` ... `UnlockNat`, `LoserAnswers` | `_create_all`: the lock, the endpoints, find or create, wait, route, floor lease, verify; the loser's blind "ready" |
| `CreateFails`, `CreatorDies`, `NatLockExpires` | the `finally` clause, the Lambda time-out, the TTL of 600 s (twice the time-out) |
| `FireWarmup`, `AskForNat`, `UseNat`, `GiveUp` | `_fire_nat_warmup`, `_ensure_nat_if_needed` |
| `AcquireLease`, `ReleaseLease`, `LeaseExpires` | `nat_lease`; a task at work renews its lease |
| `Check`, `DeleteNat`, `DeleteEndpoints`, `DeleterDies` | `_delete_all`: the four sources of `_nat_demand_present` in order, then the gateway, then the endpoints |
| `Decide` | `nat_teardown.handler` |
| `ReaperResets` ... `Reap` | the branches of `idle_backstop_reaper.handler`, each with its saved state |
| `FirstPage`, `InView`, `Sees` | the leases and the batch rows are scanned without following `LastEvaluatedKey`: a scan holds the rows of the first page and any others |
| `old`, `calm`, `waited` | history: demand in view that has lasted since a deleter looked; no output since the first strike; an hour since it |

An observation of the decider or the reaper is one step: its only effect is to
send a delete, and the delete checks the demand again.

### 2.3 BatchJobs: batches, rows, claims and retrieve tasks

| specification | code |
|---|---|
| `Submit`, `BatchReturns`, `WaitRaises` | the phase run by `run_submit_only` in a subprocess, which waits for its batch |
| `Enqueue`, `EndEnqueued`, `EndAlone`, `SubmitterDies` | `_enqueue_from_metrics`; the three ends of `run_submit_only`; a stopped task |
| `Scan`, `TakeJob`, `Return` | one invocation of `batch_poller.handler`; the status it read is the one it acts on |
| `CheckStatus`, `MarkReady`, `MarkFailed` | `_check_batch_status`, the conditional and the unconditional update |
| `Claim`, `LaunchFetch`, `LaunchFetchFails`, `LaunchUnanswered` | `_claim_retrieve`, `_trigger_retrieve`; `run_task` that raises with no task placed, and with one |
| `FetchEnds`, `FetchPostProcesses`, `FetchDies` | `run_retrieve_only` |
| `ClaimExpires`, `Tick` | the claim's TTL; ages of claims and invocations. Nothing limits a task |
| `loose` | history: batches whose claim went, by its TTL or after a lost reply, while a task worked on them or a poller was about to start one |

Time is kept as ages rather than as a clock, so that the state space is finite
without a bound on time.

`ExclusiveWork` is what a claim is for: an item is worked on by one worker at a
time, and by nobody once it is finished. Here the items are the batches, the
workers the retrieve tasks that run, and a batch is finished when its row says
retrieved or failed; the tasks of a `loose` batch do not count. `LaunchFetch` is the only `Take`; everything else, the
expiry of a claim included, may at most free a worker or finish a batch.

### 2.4 CreditGate: the budget

`Reserve` is the one DynamoDB update with its condition; `Refuse` any error of
it; `ReserveUnanswered` an update whose reply is lost. `Send`, `SendRaises`,
`PollRaises`, `ReturnResults` and `Release` are `GrokClient.submit_batch` around
`_submit_poll_retrieve`; `RunLive` is what `run_submit_only` does when no batch
has come out of the phase; `Die` a stopped task. Costs are whole units; `Total`
counts the units of a set of submissions as a cardinality, so that it needs no
recursion and can be proved about.

### 2.5 GroupFiles, MentionStore: one file per people group

`OpenIndex` ... `CloseIndex` are the steps of `_save_group`: the index lock, the
look-up, a merge under the group's own lock or a new file and its registration.
`Open`, `Flock` and `Close` are `locked_json`: first the lock of the process,
then `flock` on `<path>.lock`. Each path has an inode number that a replacement
raises, so that a lock on the data file itself would be seen to protect
nothing. `Raise` leaves both `with` blocks; `Kill` ends all threads of a process
and lets the kernel drop their file locks. A file that cannot be read is taken
for empty, as in the code.

`MentionStore` is what the callers count on: one store of mentions per group,
where a save happens at once, adds one mention to its group and takes none away;
only a group that somebody could not read may lose mentions. `GroupFiles` maps
the file that the index names to the store of a group (`Stored`), a new file to
nothing until it is registered: `RegisterGroup` and `UpdateGroup` are a `Save`,
a misread file is a `Damage`, and every other step, a killed process included, a
stutter.

### 2.6 PhaseChain: from an upload to enrichment

| specification | code |
|---|---|
| `content`, `parsedQ[b]`, `enrichQ` | items `pending#content`, `pending#parsed#{b}`, `pending#enrich#{b}`; `there` tells an item without keys from none |
| `manifest`, `parsed`, `events`, `extracted` | `manifests/pending.json`; files in S3: parsed chapters, event files, entities |
| `upload[f]`, `notices`, `awake` | where the invocation of an S3 event is: for an upload, for a parsed file, before `_launch_phase2_if_idle` |
| `Upload` ... `LaunchPhase1IfIdle` | `_handle_content_topic`, a step per access |
| `QueueParsed`, `LaunchPhase2IfIdle` | the parsed topic in `_route_topics` |
| `Reconcile`, `ClearStaleLock` | `_reconcile_pending` with its order of phases; the lock part of `_handle_scheduled_check` |
| `DedupComplete` | the dedup-complete topic: every phase 2 is stopped, phase 3 is asked for |
| `TakeLockAndLaunch`, `LockedOut`, `LaunchFails` | the three ends of `_run_task` |
| `PreparePhase1` ... `TriggerPhase2` | phase 1: inputs, manifest, upload of what is parsed, the get and the put of `_clear_processed_content_keys`, the hand-over |
| `ReadManifest`, `DeleteManifest` | the two calls of `_read_manifest` |
| `DownloadPhase2Inputs`, `AbortPhase2`, `Work` | `_download_phase2_inputs` with `_rehydrate_scored_entities`, which fetches the whole book whatever the manifest says |
| `SyncChanged`, `FinalSyncPhase2` | a pass of `BackgroundSync`; `_final_sync`, which leaves event files out |
| `DedupGate`, `TriggerNextBook`, `Unlock` | the rest of `_post_process` for phase 2 |
| `Enrich` ... `ConsumePendingEnrich` | phase 3 and the next book |
| `PhaseFails`, `Interrupted` | a phase that ends with an error; SIGTERM |
| `dropped` | history: files that a failed or stopped phase 2 was to extract |

What is coarser than the code: the launch lock is taken in one step with the
launch (`LaunchLock` has the steps); requests with the same phase and book that
are under way at once are one; the code takes the first parked book in sorted
order, the model any; a phase-complete event is a `Reconcile`, which is enabled
whenever nothing runs; the title gate lets every file through; the output of
phase 3 is not kept. The chain runs in serial mode and without batches.

### 2.7 Dispatcher: many documents at once

| specification | code |
|---|---|
| `doc[d]` | record `doc#{book}`: `status` and `next_phase` |
| `Seed`, `SeesRunning`, `SeesNone`, `StartExecution`, `StartFails` | `_seed_docs` and `_start_dispatcher` of the trigger, the list and the start as two calls |
| `Scan`, `Guard`, `ClaimWon`, `ClaimLost`, `AnyPending` | `enumerate_pending`: the pages of its scan, `enforce_scope` on the count, the conditional claims, the choice of the state machine |
| `Prepare`, `DrainFails` | `clamp_pool` and the NAT; a step of the execution that fails |
| `Launch`, `Advance`, `AdvanceRaises`, `Park`, `Exit`, `TaskFails` | the Map over the claimed documents: the task, `_advance_doc_lifecycle` and the off-ramp to a review, an end with a batch in flight, the retries of the state machine |
| `FanOutEnds` | the next pass of the loop |
| `Retrieve`, `RetrieveFails` | `run_retrieve_only`, outside of every execution |
| `driver`, `overtaken` | history: the execution whose task made a document READY; documents written behind a task's back |

### 2.8 UrlRegistry, SearchWork, WorkDelivery, ExclusiveWork: the search queue

| specification | code |
|---|---|
| `reg[u]`, `verdict[u]` | record `url#...`; the cached verdict of a page |
| `TakeSummary` ... `Record` in `UrlRegistry` | one discovered page in `process_positive_url`: cached verdict, `_verify_result`, `decide`, `claim` with its read and its two conditional puts, fetch and summary, `finalize_searched`, `_cache_url_verdict` |
| `ClaimRaises`, `FinalizeRaises`, `RecordFails` | the calls of it that may fail: either put of a claim (with or without the item), the finalization, the write of the verdict, whose error is swallowed |
| `lost` | history: pages whose summary did not reach the cache |
| `stale`, `Age` | claims older than `CLAIM_STALE_SECONDS`; claims are numbered, so the number is their time |
| `Choose`, `Send` | `build_messages` and `enqueue` |
| `Lapse`, `LapseHeld`, `Redrive` | SQS: visibility, a heartbeat that fails or stops, the redrive policy |
| `Receive` ... `Delete`, `Exit` | `run_worker` and `process_message` |
| `Start`, `Stop`, `Kill`, `Crash` | the ECS service, SIGTERM and SIGKILL, Spot |
| `Measure`, `Update`, `ScaleFails` | `openserp_worker_autoscaler.handler`; the NAT it waits for |

`WorkDelivery` is the promise of the queue in five actions: a message that was
sent is delivered up to `MaxReceive` times; it leaves the queue when its entity
is searched, or to the DLQ after the last delivery. `SearchWork` maps its eight
kinds of worker, queue and service steps to these or to stutters (`Delivery`).

The registry below the queue makes the promise of `ExclusiveWork` (section 2.3)
for pages: a worker works on a page while it fetches and finalizes it under a
claim that is not stale, and a page is finished when its record says searched.
A new claim and the reclaim of a stale one are a `Take`; the lapse of a claim is
a worker that leaves.

### 2.9 OcrJobs and OcrMerge: from a PDF to one chapter

| specification | code |
|---|---|
| `claim`, `Intake`, `Look`, `Reclaim`, `Expire` | item `ocr#{book}`; `_claim_or_reclaim_ocr`; `_ocr_job_in_flight`, a step per listing, of which one page is read (`Found`) |
| `Submit`, `SubmitRaises`, `TriggerStops` | the loop over `_ocr_chunks` in `_submit_ocr` |
| `job[j]`, `Begin`, `PutOutput`, `Succeed`, `AttemptFails` | a Batch job with its two attempts; the container puts its output before it exits |
| `ctl[r]`, `Pick`, `Get`, `Check`, `Overwrite`, `Resubmit`, `Terminate`, `Note`, `Release` | item `ocrctl#{jobName}`; `_resubmit_to_ondemand`, a step per call |
| `List`, `Scan`, `Cap`, `Starve`, `Age` | the two halves of `handler`: starved spot jobs, and moved jobs older than 48 h, as far as one page of the scan shows them |
| `Announce`, `Repeat` | the EventBridge rule for jobs that have succeeded |
| `ListKeys`, `Promote`, `TurnAway`, `MergeFails` | `ocr_merge_handler.handler`: list the book's output, write the chapter, or hand a book with next to no text to review; Lambda's retries |
| `scope.shown`, `paged`, `blank` | jobs that every listing of the trigger holds, records that every scan for the cap holds, ranges without text |
| `seen`, `shaken`, `late`, `lost` | history: shown jobs a listing must have met; jobs whose own record was overwritten as stale or deleted by a run that gave up; output a merge could not know, and what such a merge has written over, a last try has given up or a merge has turned away |

Batch's SUBMITTED, PENDING and RUNNABLE are one status, and so are STARTING and
RUNNING: the code treats them alike, except that it lists them one by one; the
listings are merged with them.

## 3. The runs

Every run is small on purpose: the actors are as few as the race needs, plus
one. The cfg files are the reference for the constants.

| run | checks | what it shows |
|---|---|---|
| `lock_books` | `OneTaskPerKey`, `ReclaimSafe` | The lock of a book, 3 launchers and a retrieve task on Spot, lost replies included. Three launchers are needed: one whose lock is stale and two that find it stale. Two tasks at work on the book mean that somebody has deleted a lock without looking; the mutant that reclaims without the observed timestamp does it alone. |
| `lock_freed` | `LockIsFreed`, `LossHasCause` | Phase 1, 2 launchers, a retrieve task, Spot stops. The sweep frees a singleton lock in the end; nobody loses one to a reclaim, to the undoing of a launch without a task or to the end of a task that owns its own. |
| `nat_demand` | `EarlierDemandKept`, `NoSecondGateway` | A worker, a retrieve task and a warm-up against the decider, with OCR jobs and a batch. The floor lease of the gateway may lie behind the first page of the scans, the other rows on it; deletes are cut short. |
| `nat_idle` | `ReapOnlyAfterStall`, `IdleNatTornDown` | The reaper alone is enough for an idle gateway to go, and never goes early, whatever rows its scans hold. |
| `batch_poll` | `TypeOK`, `ClosedIsFinal`, `RetrievesExclude`, `ReadyIsClosed` | Two overlapping invocations, two tasks, one batch, two things cut short or left without a reply: rows and claims implement `ExclusiveWork` until a claim goes while it is counted on, and a ready batch is closed in the end, that one included. |
| `credit_share` | `GateTypeOK`, `JointlyWithinBudget` | Costs 3, 2, 2 against a budget of 5: any two with the 3 fit, all three do not. |
| `chain_parsed` | `TypeOK`, `ParsedNotStranded` | Two chapters of one book, two tasks, a review, one failure anywhere. A parsed chapter that is not extracted has an event on its way, a parked or requested book, or a task that will read it, unless a phase 2 that was to extract it failed or was stopped. In particular the delete in `_read_manifest` loses nothing, because phase 2 fetches the whole book afterwards. |
| `drain_docs` | `TypeOK`, `WorkedOnce`, `ProgressIsDriven`, `ScopeHeld`, `TerminalIsFinal`, `DrainsEnd` | Two documents, two uploads (of one book or of two), two executions, with and without a declared count, one failure anywhere. Nobody works on a document beside its task unless its record was written behind that task's back; a document that has advanced is enumerated again by its execution; executions end. |
| `search_pages` | `TypeOK`, `Landed`, `FindsKept`, `FetchesExclude` | The registry implements `ExclusiveWork` and verdicts and finds are kept, with two workers, two entities that share a page which may redirect, one claim that goes stale, one fault (a crash, a late heartbeat, a write that raises). A relevant page that is searched has its verdict unless the write of it failed or its worker was lost before it. |
| `search_queue` | `Delivered`, `Drained` | The queue without pages and with two faults: it implements `WorkDelivery`, and everything is handled in the end and the service scaled to zero. |
| `ocr_jobs` | `TypeOK`, `MovedOnce`, `WholeBook`, `NoBlindReclaim`, `Routed`, `Capped` | Nine small instances in one run. No job is terminated as starved without its copy, and only a record that was overwritten or given up lets a job have two; a claim is not taken over past a job that was in flight throughout and that the listings' first pages hold; nothing starves, and nothing moved whose record the cap can read runs for ever; whatever succeeded reaches the chapter, was overwritten by an older merge, or went to review with nothing but blank output. |
| `group_share` | `TypeOK`, `MentionsKept`, `OneFile`, `WritersEnd`, `SavesAtOnce` | Two threads in each of two processes, three of them with one group: contention inside a process, between processes, and on a second file. |

### 3.1 Bounds, and why they are enough

- `MaxTime` in `LaunchLock` stops the clock. In `lock_books` the bound (4)
  exceeds the TTL, so a lock can be taken, outlive its TTL, be
  reclaimed and be taken again. In `lock_freed` the TTL is out of reach on
  purpose: the sweep, not the expiry, must free the lock.
- `MaxCrashes` in `BatchJobs` and `GroupFiles` counts invocations, tasks and
  processes cut short. Two suffice for a crash while the consequences of
  another are being repaired. In `BatchJobs` a launch that raises counts too;
  without the bound, liveness could not hold of any system.
- Ages in `BatchJobs` are counted up to the limit plus one, which is exact.
- `batch_poll` has a time-out of 1 and a TTL of 2: a task can outlive its claim,
  an invocation cannot. The deployment has 300 s and 6 h. No bound on a task is
  assumed, since the code has none.
- `FirstPage` in `nat_demand` holds every row but the floor lease; that of
  `nat_idle` holds none, so that every row may be overlooked at every look.
- `chain_parsed` has one book: that a book is not confused with another is no
  part of its property, and with two chapters the append between a read and a
  delete happens. `MaxRequests` (1) bounds the calls of `_run_task` that are
  under way, `MaxFailures` (1) the failures, interruptions and failed launches.
- `drain_docs` has two documents and two executions: with three of either the
  question is the same, as every property speaks of one document and one or two
  executions. `Ceiling` 1 makes an undeclared run of both documents exceed it,
  `Declared` lets the count be unset or 2, `PoolMax` 2 lets both run at once.
  `MaxFaults` is 1 and `Attempts` 2, so that a task is retried once.
- `search_pages` has `MaxAged` 1: one claim may go stale and be reclaimed, while
  the reclaimer's own stays fresh. `MaxReceive` is 2 in both runs (the
  deployment has 5): a message is delivered, delivered again, and then put
  aside. `search_queue` gives the entities no pages: what the workers find has
  no part in its properties. Its two faults are two deliveries that are lost.
- `ocr_jobs` chooses one of `Scopes` in its initial state and keeps it: each
  scope is an instance with the actors that one question needs (two uploads, two
  runs of the controller, two ranges, merges, up to two faults), and one run of
  TLC goes through all of them; their product would be out of reach. `MaxMoves`
  (3) copies of a job are never all used: a copy needs a run of the controller
  and, from the second on, a disturbed record, so no `Resubmit` is disabled for
  want of a copy. In all scopes but three the pages hold everything and no output
  is blank; in one the listings hold the first of two ranges, in one the cap reads
  the record of the first of two, in one the first is blank. `MergeTries` is 2, Lambda makes
  3 by default.
- `lock_books`, `chain_parsed` and `search_pages` use symmetry, over launchers
  and books, over tasks and chapters, over workers and messages; no run with
  liveness does.
- `CHECK_DEADLOCK FALSE` everywhere: launchers, submissions and writers are
  finite in number, and when all have ended the system stops.

### 3.2 Fairness

- `LaunchLock`: the scheduled rule fires again and again (weak fairness of each
  sweeper), a launcher ends one way or another (the Lambda time-out is one) and
  so does a task. No fairness for `Begin` in particular, for Spot stops or for
  the clock.
- `NatLifecycle`: the schedule of the reaper, Lambda
  time-outs, TTLs, EC2's own transitions and the ends of tasks. None for
  launches, crashes, OCR jobs, new batches or new output. The sweep that clears
  the lock of a stopped task is assumed here; `LaunchLock` shows it for the
  singleton lock.
- `BatchJobs`: the poller's schedule, tasks, expiry and time. None for Grok,
  which may never finish, nor for submitters.
- `Dispatcher`: Step Functions carries an execution on and a task ends, by
  itself or at the limit of its phase (weak fairness of `DrainStep`). None for
  uploads and for the retrieval of batches, which nobody guarantees.
- `SearchWork`: a worker that runs goes on (`_MAX_ENTITY_SECONDS`), ECS starts
  the tasks of the service, SQS lets visibility lapse, the autoscaler is
  scheduled. Faults are bounded by `MaxFaults`, so the NAT is ready in the end.
  None for producers, for SIGTERM and SIGKILL.
- `OcrMerge`: the hourly schedule of the controller (weak fairness of each run's
  steps, the next run included), and time: a job that waits grows old, and so
  does a record. *Nothing* makes an instance available, on spot or on demand:
  `Routed` and `Capped` must not rely on it.
- `GroupFiles`: a thread that can go on does. A lock that is contended without
  end could starve a thread; here every writer takes it a bounded number of
  times, so weak fairness is enough.

## 4. Where the code departs from its documents

The following were met while modelling. No run shows them: the models take
the steps as the code has them, and each property says for which behaviours it
holds in spite of them.

Locks, NAT, batches, the phase chain:

- `_handle_scheduled_check` deletes a singleton lock on the strength of a
  listing made before another invocation may have taken it
  (`trigger_handler.py:1431`); a reclaim has a guard against this
  (`trigger_handler.py:1761-1762`), the sweep has none.
- A lease taken after a delete has looked at the leases does not keep the
  gateway, against "NAT up while ANY compute runs"
  (`docs/current/dataquality/CONCURRENCY_AND_NAT_SPEC.md:48`).
  `EarlierDemandKept` is about demand that has lasted since the delete began.
- A phase 2 that has waited for its batch still leaves a row, so that the batch
  is post-processed twice, against "there is NO pending batch for the poller"
  (`ecs_entrypoint.py:3711-3713`).
- The pruning of `pending#content` is a get and an unconditional put: a key
  appended in between is lost, against "preserving content queued (for other
  books) while it ran" (`ecs_entrypoint.py:1737-1738`).

- Per-book locks of dead tasks are not swept: `_handle_scheduled_check` knows
  the singleton keys only, so a book waits for the TTL of two hours.
- A request that loses the race for a stale lock is dropped, not queued
  (`_acquire_task_lock` returns before the queueing).
- A task whose SIGTERM handler is slow deletes a lock that is no longer its
  own; a retrieve task does so when it ends; a task that works for more than two
  hours loses its lock to the TTL; a launch whose reply is lost is undone under
  its task (`trigger_handler.py:1947-1955`). Two tasks on one key follow from each
  of these, against "a single book can't double-run a phase"; `OneTaskPerKey`
  says that from nothing else.
- The loser of `lock#nat-manager` answers "ready" without verification, even
  when its wait has run out.
- The leases and batch rows are scanned one page at a time, without following
  `LastEvaluatedKey` (`nat_manager.py:108`, `167`), of a table that "holds tens of
  thousands of SEARCH_CACHE rows" (`idle_backstop_reaper.py:61-64`): a gateway is
  deleted under demand behind the first page. `EarlierDemandKept` is about the
  rows that the first page holds, whichever these are.
- `run_task` may place a task and lose its reply; `batch_poller` then releases
  the claim of a batch that is being retrieved (`batch_poller.py:454-458`), and
  the next poll starts a second task. Nor does anything keep a retrieve task
  within the six hours of its claim, whatever the comment at
  `batch_poller.py:347` says. `OneRetrieve` and its companions except the batches
  to which one of these has happened (`loose`).
- `credit_gate.reserve` puts arithmetic and `if_not_exists` into a condition
  expression, which DynamoDB's condition grammar does not have. If the service
  rejects the request the gate refuses every batch; `Refuse` covers this.
- A reservation is never returned when its task is stopped or when the reply of
  `reserve` is lost: the counter only errs upwards. Conversely a batch whose
  wait raises is returned to the budget although Grok may bill it.
- Endpoints may stay for ever without a gateway: a delete that stops between
  the two, or a create that fails after them, leaves them, and the decider and
  the reaper exit when there is no gateway. `nat_teardown.py:214-216` says they
  are "deleted WITH NAT".
- A phase whose batch the gate has refused is run again without batches by
  `run_submit_only`, past the gate; `credit_gate.py:8-9` says "HOLD the work".
- A launch that meets a held lock queues its book without keys, and
  `_read_manifest` removes only items that have keys: the item stays, and the
  reconcile pass launches the book again and again, before all books sorted
  after it.
- A phase 2 consumes its queue entry when it starts. If it fails, is
  interrupted, or is stopped because the review of *another* book is complete,
  its chapters wait for the next upload of their book.
- A phase 1 over several books asks for a phase 2 without a book, which
  `_launch_phase2_if_idle` calls a launch that must not be made and which the
  scope guard of the phase may abort. The books are still parked, so nothing is
  lost (`ParsedNotStranded`).
- `BackgroundSync.stop` makes no last pass and `_final_sync` leaves
  `output/content` out: event files of the last two minutes stay on the task's
  disk, and the next upload of the book queues their chapters again.
- `clamp_pool` raises its result to `pool_min` after it has cut it to the
  quota, so that a small quota is exceeded.
- `write_json_with_lock` takes no lock, whatever its docstring says.

The dispatcher:

- The claim tests the status only: a document that was parsed, dispatched, and
  has come back to the same status since the scan is dispatched for the phase of
  the old record.
- An execution that fails, or a task that fails for the last time, leaves its
  documents "running", and nothing returns them. So does the retrieval of a batch
  that fails; and a document that a retrieval has advanced is READY without an
  execution, until the next upload starts one.
- A document that is seeded again while its task works is dispatched a second
  time, against "so a doc is never double-dispatched"; `WorkedOnce` exempts it
  (`overtaken`). So is a task that fails after it has advanced the record.
- The trigger sees an execution that has done its last scan and starts none
  (`trigger_handler.py:1084`): the seeded document waits for the next upload.
- `DISPATCH_EXPECTED_COUNT` is compared in *each* pass, the last and empty one
  included, where it differs: a declared run ends as aborted.
- `run_submit_only` runs `_post_process`, which advances the record, even if the
  run that was not a batch has ended with an error (`ecs_entrypoint.py:3703-3706`).
- No state of the state machine invokes `human_gate`.

The search queue and the URL registry:

- The registry is finalized before the verdict is cached: a worker that dies in
  between, or a write of the verdict that raises, which nobody hears of
  (`openserp_enrichment.py:782-790`, `search_cache.py:103-113`), leaves a page that
  everybody skips for 90 days, against "searched always implies data landed".
  `Landed` says that nothing else does (`lost`).
- The verdict is cached under the URL alone (`openserp_enrichment.py:777`), the
  registry keys it "on (url, entity)" (`url_registry.py:20-22`): a page that was
  rejected for one entity is rejected for all; a later rejection overwrites
  another entity's summary.
- A redirect finalizes the record of the *final* URL; that of the first stays
  `in_progress`, to be reclaimed later. The final URL, when it is found itself,
  is skipped although it has no verdict.
- A page that is deferred is dropped, and its entity counts as searched. A page
  that could not be fetched for the moment is cached as rejected for 90 days.
- The counter of DNS failures is reset by each claim, so that no fetch ever
  makes a page `dead`.
- A claim of more than 600 s may be reclaimed while its worker is alive;
  `FetchesExclude` is about claims that are not stale.
- A delivery that outlives its visibility (a failed heartbeat, an entity of more
  than `_MAX_ENTITY_SECONDS`), or a second message for an entity, lets a later
  write drop the finds of an earlier one; `FindsKept` exempts these (`late`).
- Scale-in and Spot stops count as deliveries: they drive healthy messages
  towards the DLQ, and one whose entity has been saved may go there.

OCR:

- `_claim_or_reclaim_ocr` takes a claim over when no job is in flight; that is
  also so while a live invocation reads the PDF before its first `submit_job`.
  Two uploads close together are both submitted, against "deny redundant
  submissions AT INTAKE" (`trigger_handler.py:972`). After 24 h the claim
  expires, and an upload submits without looking for jobs at all. `NoBlindReclaim`
  says what the look does guarantee.
- The look reads one page of `list_jobs` per queue and status
  (`trigger_handler.py:779`), of queues that all books share, where the controller
  next door paginates: a job behind the page is missed. And it looks for the book
  anywhere in a job's name, so that a job of "War 2" holds up an upload of "War".
- When a submission fails half-way the claim is deleted and the earlier ranges
  stay: the next upload submits them again.
- "Moved at most once" (`ocr_spot_controller.py`) fails when two runs overwrite
  the same stale record, and when a call raises after `submit_job` was accepted
  (`shaken` in `MovedOnce`). A run that ends between its claim and the
  submission leaves a record that says "already routed": the job is never
  moved (`Held` in `Routed`).
- The 48 h cap knows a moved job by the record of its *name*: overwritten for a
  later job, deleted by a run that gives up, or re-created without a time by
  `update_item`, it leaves a job without a cap. So does a record behind the one
  page that `_enforce_ondemand_cap` reads of a filtered scan of the shared table
  (`ocr_spot_controller.py:251-255`): `Capped` is about the records on it.
- The time a job has waited is taken from `createdAt`, not from when it became
  RUNNABLE.
- Each merge promotes what it has found and triggers parsing, however little
  that is if there is text in it; a range that has failed is absent without a word; an older merge
  that ends later overwrites a fuller chapter (`lost` in `WholeBook`).
- `ocr-output/` is never cleared: a new upload of a book is merged with what is
  left of the old one.

## 5. The proofs

| theorem | says | assumes | argument |
|---|---|---|---|
| `LaunchLockProofs!TypeCorrect` | `[]TypeOK` | - | one case per action |
| `LaunchLockProofs!ReclaimIsSafe` | a reclaim never robs a holder | `LambdaTimeout <= Grace` | `ReclaimInv` |
| `LaunchLockProofs!LossIsTheft` | `LossHasCause`: an owner who goes on relying on its lock loses it to a named theft only | `LambdaTimeout <= Grace` | `ReclaimInv` |
| `LaunchLockProofs!OwnLockHolds` | whoever may still launch or is at work owns its lock, unless it was deleted blindly | `LambdaTimeout <= Grace` | `ReclaimInv`, `RelyingBegins`, `KeepsOwning` |
| `LaunchLockProofs!MutualExclusion` | `OneTaskPerKey` | `LambdaTimeout <= Grace` | from `OwnLock` |
| `NatLifecycleProofs!TypeCorrect` | `[]TypeOK` | - | one lemma per kind of process |
| `NatLifecycleProofs!DemandIsRespected` | `EarlierDemandKept`: a delete overlooks no lasting demand in view, for every `FirstPage` | - | `GuardInv` |
| `NatLifecycleProofs!OneGateway` | create is called only without a gateway | - | `OneCreatorInv` |
| `NatLifecycleProofs!ReapNeedsStall` | `ReapOnlyAfterStall` | - | `StallInv` |
| `BatchProofs!TypeCorrect` | `[]TypeOK` | - | one lemma per kind of process |
| `BatchProofs!RetrieveIsExclusive` | one retrieve task per batch that is not `loose` | `PollTimeout <= ClaimTTL` | `ClaimInv` |
| `BatchProofs!ClosedStaysClosed` | a closed batch stays closed, under the same exception | the same | `RowInv`, `OpenInv`, `StaleInv` |
| `BatchProofs!RetrievesAreExclusive` | `Spec => RetrievesExclude`: rows and claims implement `ExclusiveWork` | the same | `ClaimInv`, `OpenInv`, `ClosedStep` |
| `BatchProofs!GateTypeCorrect`, `BudgetIsKept` | the counter stays natural; the budget holds | - | `Covered` |
| `PhaseChainProofs!TypeCorrect` | `[]TypeOK` | - | one lemma per kind of process |
| `DispatcherProofs!TypeCorrect` | `[]TypeOK` | - | frame lemmas, one case per action |
| `DispatcherProofs!NoDoubleDispatch`, `TerminalStays` | `WorkedOnce`, `TerminalIsFinal` | - | `WorkInv` |
| `DispatcherProofs!DispatchIsBounded` | no execution holds more than was approved | - | `InPass`, `Bounded` |
| `DispatcherProofs!NoneLeftBehind` | `ProgressIsDriven` | - | `InPass` |
| `SearchWorkProofs!TypeCorrect` | `[]TypeOK` | - | part of `Inv` |
| `SearchWorkProofs!OneFetch` | one fetch of a page under fresh claims | - | `HoldingOK`, `OneHolder` |
| `SearchWorkProofs!FetchesAreExclusive` | `Spec => FetchesExclude`: the registry implements `ExclusiveWork` | - | `HoldingOK`, `OneHolder` |
| `SearchWorkProofs!VerdictLands` | `Landed` | - | `RegistryOK`, `UsersOK` |
| `SearchWorkProofs!NoFindLost` | `FindsKept` | - | `LateHeld`, `LateOne`, `LateFinds` |
| `SearchWorkProofs!QueueDelivers` | `Spec => Delivered`: the queue implements `WorkDelivery` | - | `WorkOK`, `MsgOK` |
| `OcrProofs!TypeCorrect` | `[]TypeOK` | - | `TypeInv`, one lemma per kind of process |
| `OcrProofs!MovedOnlyOnce` | `MovedOnce` | - | `CopyFirst`, `RecordStands` |
| `OcrProofs!ReclaimSees` | `NoBlindReclaim` | - | `LookOK`, `SeenKnown`, `Fresh`, `SeenShown` |
| `OcrProofs!WholeBookPromoted` | `WholeBook` | - | `Stored`, `Listing`, `Delivered` |
| `GroupFilesProofs!TypeCorrect` | `[]TypeOK`; the index names only files that are there | - | `TypeInv` |
| `GroupFilesProofs!NoDeadlock` | who has the index waits for nobody; somebody can always go on | - | `LockInv` |
| `GroupFilesProofs!SavedStays` | `MentionsKept` | - | `LockInv`, `DataInv` |
| `GroupFilesProofs!OneFileForGroup` | `OneFile` | - | `LockInv`, `DataInv` |
| `GroupFilesProofs!StoreImplemented` | `Spec => SavesAtOnce`: the files implement `MentionStore` | - | `LockInv`, `DataInv`, `StoreInv` |
| `PhaseChainProofs!NoChapterStranded` | no parsed chapter is stranded but by a failure | - | `ChainInv` |
| `PhaseChainProofs!NoneStrandedUnfailed` | without a failure and without reviews none is stranded at all | `~GateBlocks` | the same and `DropsHaveCause` |

Why the strengthenings are needed:

- `ReclaimInv`: that a reclaim is safe rests on the *age* of the lock. The
  listing is empty at one moment; a task launched since then could be missed.
  `ListingHolds` says that tasks which are at work after an empty listing were
  launched after it, so by an invocation that is still within its time-out;
  `ReclaimDecision` and `LockDescribesOwner` say that the owner's request is
  older than `Grace`. Together with `LambdaTimeout <= Grace` the owner has
  neither launched lately nor can launch any more. The deployment has a
  time-out of 300 s and a grace of 390 s (`NAT_WAIT_SECONDS` + 120).
- `LossHasCause` says how ownership ends. A reclaim takes what nobody relies on; a
  launch that is undone without a task, and a task that ends, delete their own
  item as long as it *is* their own. What is left is `Theft`, and TLC finds a
  behaviour for each of its disjuncts. `OwnLock` looks at the same from the side of
  the owner: all but the reclaim are blind deletions (`Drop`), which leave their
  mark in `dropped`. No theorem assumes that tasks are not stopped, that they are
  short or that no retrieve task runs.
- `GuardInv`: for each source a deleter has passed, nothing is left that has
  lasted since it started. It is inductive because a deleter that sees
  something stops.
- `OneCreatorInv`: whoever is between the lock and the unlock holds the lock,
  and at the create there is no gateway.
- `StallInv`: what the stored strike, the baseline and the age of the state say of
  the time since the first strike; without it the second observation knows only
  that something was stored.
- `ClaimInv`: a batch that is not `loose` has its claim as long as a task works on
  it or an invocation launches one, and one user of it at most. The claim of an
  invocation about to launch cannot expire, because it is no older than the
  invocation; that of a task may, and then the batch is `loose`.
- `StaleInv`: if an invocation holds a "ready" read of a batch that is not `loose`,
  the claim is still there, or the row is still ready, however long ago it was
  read.
- `Covered`: the cost of what stands is at most the counter, which is at most
  the budget. The counter may exceed the cost (lost replies, failed releases),
  so the budget property alone is not inductive.
- `ChainInv`: `_queue_parsed` skips a chapter that has an event file, so
  somebody must see to it already: `EventsSeenTo` says that a phase 2 has it at
  work, or that it has been extracted or dropped. `ExtractsParsed` says that a
  task has files only between its downloads and its last upload, so that a
  download replaces nothing and the end of a task leaves nothing behind.
- `DropsHaveCause`: `ParsedNotStranded` excuses the chapters in `dropped`; they
  are there only once something has failed or a review has been asked for, so
  that the excuse is empty in an undisturbed run.

- `WorkInv`: a document on which somebody works and that nobody has overtaken is
  "running" and has one worker. "Running" is what makes it inductive: a claim
  needs a READY status, so it meets no worker.
- `InPass`: an execution has items only between its claims and the end of its
  Map, and a snapshot only between its scan and its claims. With it `Bounded`
  counts the snapshot and the items together: each claim moves one document from
  the first to the second, so the count of the guard remains the bound.
- `Inv` of `SearchWorkProofs`: `OneHolder` says that no two workers fetch one
  page under claims that are not stale, and `HoldingOK` that such a claim is the
  one in the registry, unless the page is "searched" by now; a new claim meets
  either no record or a stale one, so it has no rival. `LateOne`, `LateHeld` and `LateFinds` say of an entity
  that is not `late` that at most one delivery is at work on it and that this
  worker still has every find of the record: the write therefore keeps them.
- `RecordStands`: while nobody has overwritten or deleted the record of a job,
  that record stands either for the only copy of the job or for the one run that
  is about to submit it. A second run that wants to move the job finds the record
  and leaves it. The property as first stated excused the run that overwrote a
  record instead of the job whose record it was; three overlapping runs break
  that form, too many for the instances of `ocr_jobs`, and the proof found it.
- `LookOK`: after each of the four listings, what it would have found is not
  among the jobs seen in flight. A job goes from waiting to running and from
  nowhere back, unless an attempt fails (which takes it out of `seen`); so the
  order of the listings, waiting before running on each queue, is what counts.
  `Fresh` says that a trigger never submits a job that is there already, which
  would send a running one back to the queue.
- `LockInv` of `GroupFilesProofs`: which locks a writer has follows from where it
  is, and no two writers have a file locked. Hence one writer at a time is under
  the index, whichever its process, and it meets nobody at the lock of a group
  file: that lock is only taken under the index. `NoDeadlock` follows: `Waits`
  is the negation of the guard at which a writer stands (that it is the negation
  of `ENABLED WriterStep`, TLC has confirmed on the instance of `group_share`).
- `DataInv`: what a writer under the index has read of it is still the index
  (`SeenCurrent`), what it is about to write of a file extends what the file holds
  (`MergesRight`), and a file whose creator has not ended before the
  registration is in the index (`Registered`). Each speaks of files that nobody
  has taken for empty.
- `StoreInv` is what remains true of an index or a file that was taken for
  empty, and the refinement needs it because the abstract store still allows one
  thing only to a damaged group: to lose mentions, never to gain another's. What
  a writer holds of the index is the index or nothing (`SeesEntries`), what it
  merges is the file of its own group or nothing (`MergesInGroup`), and the index
  names a file of the right group (`EntriesRight`).
- `Listing`: a handler that has listed knows all the output there is, or has it
  counted as late; what it writes over is then either in its own list or late.

Only model-checked: all liveness properties (TLAPS has no fairness and no
`ENABLED` here: `LockIsFreed`, `IdleNatTornDown`, `ReadyIsClosed`, `DrainsEnd`,
`Drained`, `WritersEnd`, `Routed`, `Capped`). Every invariant and every action
property of a run has a theorem.
The modules have no recursive operators, so that none of them is out of the
provers' reach.

## 6. Plan

Done: the modules above, in the order in which the rest of the system depends
on them. What a further step would add, the most important first:

1. More about `PhaseChain`: every parked book is run in the end, under the
   fairness of the schedule, with the keyless items that starve others; the
   output of phase 3, so that the race of `_consume_pending_enrich` becomes a
   property; `pending#ocr`. An abstract specification (a set of chapters owed,
   each extracted or dropped) that the chain is shown to implement.
2. The other users of the locked files: places, people, dates, equipment, and
   the writers of the enrichment that take no lock.
3. Composition of `BatchJobs` with `LaunchLock`: the retrieve task beside the
   phase's lock holder, and the post-processing both of them run.
4. Merging of duplicates as a pure algorithm against a reference definition; the
   review gate before the fan-out.

The number of runs is kept small: a question that a theorem has settled gives
its run up to a new one.

## 7. What is not modelled, and why

- Most of the repository, by its lines: the extraction, enrichment, parsing and
  conversion code, the scripts and the loader transform text and files, one item
  after another, without state that two actors share. The map therefore covers a
  few per cent of the lines, and could not cover a third of them with models that
  say anything a checker or a prover could get wrong.
- The elastic IP, the search service's size and the OCR jobs' own life inside
  `NatLifecycle`: OCR is a Boolean of the environment.
- In `Dispatcher`: the human gate, which no state invokes; the seeds of the
  prestage call; the pool that all executions share.
- In `SearchWork` and `UrlRegistry`: a cached verdict whose read fails (it is looked
  up again), images, entities other than people, the
  limit on results per entity, malformed messages, the manager of the search
  service, the counter of a domain's failures, the 90 days of retention.
- In `OcrJobs` and `OcrMerge`: the OOM flag and the quota warning, which alert
  and change nothing; the structured-reference track, which a merge launches in
  place of the promotion; the check of the file type; a range plan that differs
  between two uploads of a book (a PDF that cannot be read is one range).
- Errors while demand is looked up: the code keeps the gateway, as it would if
  demand were seen.
- The exact number of attempts to get the network (`NAT_READY_MAX_ATTEMPTS`):
  a task may give up after any answer that is not "ready".
- Retries inside the AWS SDK.
- Contents: prompts, parsing, schema checks (a guard that "may block a record"
  stands for them), prices (a constant per batch).
- The review pages, notifications, and the loader: no shared protocol.
- The work of the phases: properties of text rather than of states.
