------------------------------- MODULE BatchJobs -------------------------------
(***************************************************************************)
(* The Grok batches of phases 2 and 3.                                     *)
(*   - A submit-only task sends a batch to Grok and enqueues a             *)
(*     batch_job# row for it (run_submit_only, job_queue).                 *)
(*   - The poller, a scheduled Lambda whose invocations overlap, looks for *)
(*     rows that are pending or ready, asks Grok, marks the row, claims    *)
(*     retrieve#{batch} and launches a retrieve task (batch_poller).       *)
(*   - The retrieve task fetches the results, closes the row and runs the  *)
(*     post-processing (run_retrieve_only).                                *)
(*                                                                         *)
(* Time is kept as ages: how long an invocation or a claim has lasted.  One *)
(* unit is what the deployment makes of it.  Nothing bounds a task.        *)
(***************************************************************************)
EXTENDS Naturals

CONSTANTS
  Batches,     \* each named like the submit-only task that sends it
  Phase2,      \* those of phase 2
  Pollers,     \* slots for poller invocations
  Retrievers,  \* slots for retrieve tasks
  NoBatch,     \* "batch" of a poller or a task that has none
  PollTimeout, \* the longest a poller invocation lasts
  ClaimTTL,    \* the ttl of a claim
  MaxCrashes   \* bound: how many invocations and tasks are cut short

ASSUME BatchAssumption ==
  /\ Phase2 \subseteq Batches
  /\ NoBatch \notin Batches
  /\ PollTimeout \in Nat
  /\ ClaimTTL \in Nat
  /\ MaxCrashes \in Nat

VARIABLES
  grok,      \* what Grok knows of each batch
  row,       \* status of its batch_job# row
  submit,    \* where its submit-only task is
  posted,    \* how often its post-processing has run (up to 2)
  claims,    \* batches with a retrieve# item
  claimAge,  \* how old it is
  poll,      \* where each poller invocation is
  jobs,      \* the batches it has read and not handled yet
  ready,     \* those it has read as ready
  at,        \* the batch it is handling
  pollAge,   \* how long it has run
  fetch,     \* where each retrieve task is
  job,       \* its batch
  loose,     \* batches whose claim has gone while somebody counted on it
  crashes

submitVars == <<grok, submit>>
claimVars == <<claims, claimAge>>
pollVars == <<poll, jobs, ready, at, pollAge>>
fetchVars == <<fetch, job, loose>>
vars == <<submitVars, row, posted, claimVars, pollVars, fetchVars, crashes>>

PollSteps == {"next", "check", "mark", "fail", "claim", "launch"}

TypeOK ==
  /\ grok \in [Batches -> {"none", "working", "complete", "failed"}]
  /\ row \in [Batches -> {"none", "pending", "ready", "failed", "retrieved"}]
  /\ submit \in [Batches -> {"idle", "waiting", "saved", "enqueued", "alone", "ended"}]
  /\ posted \in [Batches -> 0..2]
  /\ claims \in SUBSET Batches
  /\ claimAge \in [Batches -> Nat]
  /\ poll \in [Pollers -> PollSteps \cup {"idle"}]
  /\ jobs \in [Pollers -> SUBSET Batches]
  /\ ready \in [Pollers -> SUBSET Batches]
  /\ at \in [Pollers -> Batches \cup {NoBatch}]
  /\ pollAge \in [Pollers -> Nat]
  /\ fetch \in [Retrievers -> {"free", "working", "closing"}]
  /\ job \in [Retrievers -> Batches \cup {NoBatch}]
  /\ loose \in SUBSET Batches
  /\ crashes \in 0..MaxCrashes
  /\ \A p \in Pollers : poll[p] \notin {"idle", "next"} => at[p] \in Batches
  /\ \A r \in Retrievers : fetch[r] # "free" => job[r] \in Batches

Init ==
  /\ grok = [b \in Batches |-> "none"]
  /\ row = [b \in Batches |-> "none"]
  /\ submit = [b \in Batches |-> "idle"]
  /\ posted = [b \in Batches |-> 0]
  /\ claims = {}
  /\ claimAge = [b \in Batches |-> 0]
  /\ poll = [p \in Pollers |-> "idle"]
  /\ jobs = [p \in Pollers |-> {}]
  /\ ready = [p \in Pollers |-> {}]
  /\ at = [p \in Pollers |-> NoBatch]
  /\ pollAge = [p \in Pollers |-> 0]
  /\ fetch = [r \in Retrievers |-> "free"]
  /\ job = [r \in Retrievers |-> NoBatch]
  /\ loose = {}
  /\ crashes = 0

-----------------------------------------------------------------------------
(* The submit-only task.                                                   *)

Submitter(b, from, to) ==
  /\ submit[b] = from
  /\ submit' = [submit EXCEPT ![b] = to]

PostProcess(b) ==
  posted' = [posted EXCEPT ![b] = IF @ < 2 THEN @ + 1 ELSE 2]

Submit(b) ==
  /\ Submitter(b, "idle", "waiting")
  /\ grok' = [grok EXCEPT ![b] = "working"]
  /\ UNCHANGED <<row, posted, claimVars, pollVars, fetchVars, crashes>>

\* Grok finishes; "complete" includes the batch the poller gives up on after
\* 24 h with some results, "failed" the one in which every request failed.
GrokFinishes(b) ==
  /\ grok[b] = "working"
  /\ \E s \in {"complete", "failed"} : grok' = [grok EXCEPT ![b] = s]
  /\ UNCHANGED <<row, submit, posted, claimVars, pollVars, fetchVars, crashes>>

\* The phase runs in a process of its own, which the patches of
\* run_submit_only do not reach: it waits for the batch, takes its results
\* and writes the metrics file, unless the wait or the fetch raises.
BatchReturns(b) ==
  /\ grok[b] # "working" /\ Submitter(b, "waiting", "saved")
  /\ UNCHANGED <<grok, row, posted, claimVars, pollVars, fetchVars, crashes>>

WaitRaises(b) ==
  /\ Submitter(b, "waiting", "alone")
  /\ UNCHANGED <<grok, row, posted, claimVars, pollVars, fetchVars, crashes>>

\* _enqueue_from_metrics: the guard against an identical pending job (same
\* phase, book and size, of any other submission) comes after the submission.
\* Rows are never "complete", the other status it looks for.
Enqueue(b) ==
  /\ \/ /\ Submitter(b, "saved", "enqueued")
        /\ row' = [row EXCEPT ![b] = "pending"]
     \/ /\ Submitter(b, "saved", "alone")
        /\ UNCHANGED row
  /\ UNCHANGED <<grok, posted, claimVars, pollVars, fetchVars, crashes>>

\* A phase 2 whose results are there ends like any other phase 2, unless its
\* process has failed after the batch.
EndEnqueued(b) ==
  /\ Submitter(b, "enqueued", "ended")
  /\ (b \in Phase2 /\ PostProcess(b)) \/ UNCHANGED posted
  /\ UNCHANGED <<grok, row, claimVars, pollVars, fetchVars, crashes>>

\* "No batch submitted": the phase is run again without batch.
EndAlone(b) ==
  /\ Submitter(b, "alone", "ended")
  /\ PostProcess(b)
  /\ UNCHANGED <<grok, row, claimVars, pollVars, fetchVars, crashes>>

Crashes == crashes < MaxCrashes /\ crashes' = crashes + 1

SubmitterDies(b) ==
  /\ Crashes
  /\ submit[b] \notin {"idle", "ended"}
  /\ submit' = [submit EXCEPT ![b] = "ended"]
  /\ UNCHANGED <<grok, row, posted, claimVars, pollVars, fetchVars>>

-----------------------------------------------------------------------------
(* The poller.                                                             *)

Goto(p, from, to) ==
  /\ poll[p] = from
  /\ poll' = [poll EXCEPT ![p] = to]

\* Mutant: only pending rows are read, like get_active_jobs does.
ScanPending(p) ==
  /\ Goto(p, "idle", "next")
  /\ jobs' = [jobs EXCEPT ![p] = {b \in Batches : row[b] = "pending"}]
  /\ ready' = [ready EXCEPT ![p] = {}]
  /\ pollAge' = [pollAge EXCEPT ![p] = 0]
  /\ UNCHANGED <<submitVars, row, posted, claimVars, at, fetchVars, crashes>>

\* _get_pending_jobs
Scan(p) ==
  /\ Goto(p, "idle", "next")
  /\ jobs' = [jobs EXCEPT ![p] = {b \in Batches : row[b] \in {"pending", "ready"}}]
  /\ ready' = [ready EXCEPT ![p] = {b \in Batches : row[b] = "ready"}]
  /\ pollAge' = [pollAge EXCEPT ![p] = 0]
  /\ UNCHANGED <<submitVars, row, posted, claimVars, at, fetchVars, crashes>>

\* _poll_one_job believes the status that was read.
TakeJob(p, b) ==
  /\ b \in jobs[p]
  /\ Goto(p, "next", IF b \in ready[p] THEN "claim" ELSE "check")
  /\ jobs' = [jobs EXCEPT ![p] = @ \ {b}]
  /\ at' = [at EXCEPT ![p] = b]
  /\ UNCHANGED <<submitVars, row, posted, claimVars, ready, pollAge, fetchVars, crashes>>

\* The invocation is over and its memory gone.
Stop(p) ==
  /\ poll' = [poll EXCEPT ![p] = "idle"]
  /\ jobs' = [jobs EXCEPT ![p] = {}]
  /\ ready' = [ready EXCEPT ![p] = {}]
  /\ at' = [at EXCEPT ![p] = NoBatch]
  /\ pollAge' = [pollAge EXCEPT ![p] = 0]

Return(p) ==
  /\ poll[p] = "next"
  /\ jobs[p] = {}
  /\ Stop(p)
  /\ UNCHANGED <<submitVars, row, posted, claimVars, fetchVars, crashes>>

\* _check_batch_status; an error is taken for "pending".
CheckStatus(p) ==
  /\ \/ Goto(p, "check", "mark") /\ grok[at[p]] = "complete"
     \/ Goto(p, "check", "fail") /\ grok[at[p]] = "failed"
     \/ Goto(p, "check", "next")
  /\ UNCHANGED <<submitVars, row, posted, claimVars, jobs, ready, at, pollAge,
                 fetchVars, crashes>>

\* Mutant: the update is unconditional.
MarkReadyAnyway(p) ==
  /\ Goto(p, "mark", "claim")
  /\ row' = [row EXCEPT ![at[p]] = "ready"]
  /\ UNCHANGED <<submitVars, posted, claimVars, jobs, ready, at, pollAge,
                 fetchVars, crashes>>

\* _mark_ready, on the condition that the row is pending.
MarkReady(p) ==
  /\ \/ /\ Goto(p, "mark", "claim")
        /\ row[at[p]] = "pending"
        /\ row' = [row EXCEPT ![at[p]] = "ready"]
     \/ /\ Goto(p, "mark", "next")
        /\ row[at[p]] # "pending"
        /\ UNCHANGED row
  /\ UNCHANGED <<submitVars, posted, claimVars, jobs, ready, at, pollAge,
                 fetchVars, crashes>>

\* _mark_failed
MarkFailed(p) ==
  /\ Goto(p, "fail", "next")
  /\ row' = [row EXCEPT ![at[p]] = "failed"]
  /\ UNCHANGED <<submitVars, posted, claimVars, jobs, ready, at, pollAge,
                 fetchVars, crashes>>

\* Mutant: the put is unconditional.
ClaimAnyway(p) ==
  /\ Goto(p, "claim", "launch")
  /\ claims' = claims \cup {at[p]}
  /\ claimAge' = [claimAge EXCEPT ![at[p]] = 0]
  /\ UNCHANGED <<submitVars, row, posted, jobs, ready, at, pollAge, fetchVars, crashes>>

\* _claim_retrieve, on the condition that there is no claim.
Claim(p) ==
  /\ \/ /\ Goto(p, "claim", "launch")
        /\ at[p] \notin claims
        /\ claims' = claims \cup {at[p]}
        /\ claimAge' = [claimAge EXCEPT ![at[p]] = 0]
     \/ /\ Goto(p, "claim", "next")
        /\ at[p] \in claims
        /\ UNCHANGED claimVars
  /\ UNCHANGED <<submitVars, row, posted, jobs, ready, at, pollAge, fetchVars, crashes>>

Place(r, b) ==
  /\ fetch[r] = "free"
  /\ fetch' = [fetch EXCEPT ![r] = "working"]
  /\ job' = [job EXCEPT ![r] = b]

\* run_task, after the network has been brought up and waited for.
LaunchFetch(p, r) ==
  /\ Goto(p, "launch", "next")
  /\ Place(r, at[p])
  /\ UNCHANGED <<submitVars, row, posted, claimVars, jobs, ready, at, pollAge, loose,
                 crashes>>

\* run_task placed no task, or it raised: _release_retrieve, whose own failure
\* is ignored.
LaunchFetchFails(p) ==
  /\ Crashes
  /\ Goto(p, "launch", "next")
  /\ claims' \in {claims, claims \ {at[p]}}
  /\ UNCHANGED <<submitVars, row, posted, claimAge, jobs, ready, at, pollAge, fetchVars>>

\* run_task raised although it has placed the task, its reply lost: the claim
\* is released under the task.
LaunchUnanswered(p, r) ==
  /\ Crashes
  /\ Goto(p, "launch", "next")
  /\ Place(r, at[p])
  /\ claims' = claims \ {at[p]}
  /\ loose' = loose \cup {at[p]}
  /\ UNCHANGED <<submitVars, row, posted, claimAge, jobs, ready, at, pollAge>>

PollerDies(p) ==
  /\ Crashes
  /\ poll[p] # "idle"
  /\ Stop(p)
  /\ UNCHANGED <<submitVars, row, posted, claimVars, fetchVars>>

-----------------------------------------------------------------------------
(* The retrieve task.                                                      *)

Finish(r) ==
  /\ fetch' = [fetch EXCEPT ![r] = "free"]
  /\ job' = [job EXCEPT ![r] = NoBatch]

\* Mutant: the status of BatchJob's comment.
FetchEndsComplete(r) ==
  /\ fetch[r] = "working"
  /\ row' = [row EXCEPT ![job[r]] = "complete"]
  /\ fetch' = [fetch EXCEPT ![r] = "closing"]
  /\ UNCHANGED <<submitVars, posted, claimVars, pollVars, job, loose, crashes>>

\* The rerun on the cached results ends, well or badly.
FetchEnds(r) ==
  /\ fetch[r] = "working"
  /\ \/ /\ row' = [row EXCEPT ![job[r]] = "retrieved"]
        /\ fetch' = [fetch EXCEPT ![r] = "closing"]
        /\ UNCHANGED job
     \/ /\ row' = [row EXCEPT ![job[r]] = "failed"]
        /\ Finish(r)
  /\ UNCHANGED <<submitVars, posted, claimVars, pollVars, loose, crashes>>

FetchPostProcesses(r) ==
  /\ fetch[r] = "closing"
  /\ Finish(r)
  /\ PostProcess(job[r])
  /\ UNCHANGED <<submitVars, row, claimVars, pollVars, loose, crashes>>

\* Spot stop, no network, no results.
FetchDies(r) ==
  /\ Crashes
  /\ fetch[r] # "free"
  /\ Finish(r)
  /\ UNCHANGED <<submitVars, row, posted, claimVars, pollVars, loose>>

-----------------------------------------------------------------------------
(* Time.                                                                   *)

\* p takes b for ready and will try to claim it.
TakesForReady(p, b) ==
  \/ poll[p] # "idle" /\ b \in jobs[p] \cap ready[p]
  \/ poll[p] = "claim" /\ at[p] = b

\* A task works on b, or an invocation would start one.
CountedOn(b) ==
  \/ \E r \in Retrievers : fetch[r] # "free" /\ job[r] = b
  \/ \E p \in Pollers : TakesForReady(p, b)

\* DynamoDB deletes a claim some time after its ttl has passed.
ClaimExpires(b) ==
  /\ b \in claims
  /\ claimAge[b] > ClaimTTL
  /\ claims' = claims \ {b}
  /\ loose' = IF CountedOn(b) THEN loose \cup {b} ELSE loose
  /\ UNCHANGED <<submitVars, row, posted, claimAge, pollVars, fetch, job, crashes>>

\* Ages are counted up to the largest limit plus one.
Older(n, limit) == IF n > limit THEN n ELSE n + 1

Tick ==
  /\ \A p \in Pollers : poll[p] # "idle" => pollAge[p] < PollTimeout
  /\ claimAge' = [b \in Batches |->
                    IF b \in claims THEN Older(claimAge[b], ClaimTTL) ELSE claimAge[b]]
  /\ pollAge' = [p \in Pollers |->
                   IF poll[p] # "idle" THEN pollAge[p] + 1 ELSE pollAge[p]]
  /\ UNCHANGED <<submitVars, row, posted, claims, poll, jobs, ready, at, fetchVars,
                 crashes>>

SubmitterStep(b) ==
  \/ BatchReturns(b)
  \/ WaitRaises(b)
  \/ Enqueue(b)
  \/ EndEnqueued(b)
  \/ EndAlone(b)

PollerStep(p) ==
  \/ Scan(p)
  \/ \E b \in Batches : TakeJob(p, b)
  \/ Return(p)
  \/ CheckStatus(p)
  \/ MarkReady(p)
  \/ MarkFailed(p)
  \/ Claim(p)
  \/ \E r \in Retrievers : LaunchFetch(p, r) \/ LaunchUnanswered(p, r)
  \/ LaunchFetchFails(p)

FetchStep(r) == FetchEnds(r) \/ FetchPostProcesses(r)

Next ==
  \/ \E b \in Batches :
       \/ Submit(b)
       \/ GrokFinishes(b)
       \/ SubmitterStep(b)
       \/ SubmitterDies(b)
       \/ ClaimExpires(b)
  \/ \E p \in Pollers : PollerStep(p) \/ PollerDies(p)
  \/ \E r \in Retrievers : FetchStep(r) \/ FetchDies(r)
  \/ Tick

Spec == Init /\ [][Next]_vars

\* The poller's schedule, the tasks and time go on.
Fairness ==
  /\ \A p \in Pollers : WF_vars(PollerStep(p))
  /\ \A r \in Retrievers : WF_vars(FetchStep(r))
  /\ \A b \in Batches : WF_vars(ClaimExpires(b))
  /\ WF_vars(Tick)

FairSpec == Spec /\ Fairness

-----------------------------------------------------------------------------
(* Properties.                                                             *)

\* No two retrieve tasks work on one batch, although a batch stays ready
\* while its task works and the poller tries again every few minutes, so long
\* as its claim has not gone while it was counted on.
OneRetrieve ==
  \A r, s \in Retrievers :
    /\ fetch[r] # "free"
    /\ fetch[s] # "free"
    /\ job[r] = job[s]
    => r = s \/ job[r] \in loose

\* Under the same condition, a batch that has been retrieved, or has failed, is
\* never reopened and never retrieved again, however long ago the invocation
\* that would do it has read its row.
ClosedIsFinal ==
  [][\A b \in Batches \ loose :
       row[b] \in {"retrieved", "failed"} =>
         /\ row'[b] = row[b]
         /\ \A r \in Retrievers :
              fetch[r] = "free" /\ fetch'[r] = "working" => job'[r] # b]_vars

\* The retrieve tasks at work on batches whose claim has held, and the batches
\* that are done with.
Retrieving ==
  {<<r, job[r]>> : r \in {r \in Retrievers : fetch[r] # "free" /\ job[r] \notin loose}}

ClosedBatches == {b \in Batches : row[b] \in {"retrieved", "failed"}}

Retrieval == INSTANCE ExclusiveWork WITH
  Workers <- Retrievers,
  Items <- Batches,
  working <- Retrieving,
  finished <- ClosedBatches

\* For all that invocations overlap and that invocations and tasks are cut
\* short, the rows and the claims give each batch to one task at a time, until
\* it is closed; a claim that goes while it is counted on ends this for its
\* batch.
RetrievesExclude == Retrieval!Spec

\* A finished batch whose row is ready is retrieved in the end, whatever has
\* been cut short on the way: "TTL'd so a crashed retrieve re-claims on a
\* later poll".
ReadyIsClosed ==
  \A b \in Batches : row[b] = "ready" ~> row[b] \in {"retrieved", "failed"}
===============================================================================
