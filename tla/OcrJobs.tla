------------------------------- MODULE OcrJobs -------------------------------
(***************************************************************************)
(* The OCR jobs of one book: the intake of an upload by the trigger (claim, *)
(* check for jobs in flight, one job per page range), the Batch jobs on the *)
(* spot and the on-demand queue, and the hourly spot controller that moves  *)
(* starved jobs and caps the moved ones.  OcrMerge adds the merge of their  *)
(* output.                                                                 *)
(*                                                                         *)
(* A job is <<copy, trigger, range>>: copy 0 is the one its trigger has     *)
(* submitted to the spot queue, the others are submitted by the controller  *)
(* to replace it.  The jobs of a range bear the same name.                  *)
(***************************************************************************)
EXTENDS Integers, FiniteSets

CONSTANTS
  Triggers,  \* the invocations of the trigger, one upload of the book each
  Runs,      \* the invocations of the controller that may overlap
  MaxRange,  \* the most page ranges of the book
  MaxMoves,  \* bound: copies of a job
  NoJob,     \* no job id
  Gone,      \* the id of a job that Batch no longer knows
  NoRecord,  \* no item in the table
  Scopes     \* bounds: the instances that one run of TLC goes through

Ranges == 1..MaxRange
Jobs == (0..MaxMoves) \X Triggers \X Ranges

\* A scope says who takes part, how many ranges the book has, whether events
\* are delivered to the merge, and how many faults there may be.  All books
\* share the queues and the table, of which two readers see one page: shown
\* are the jobs that every listing of the trigger holds, paged the ranges whose
\* record every scan for the cap holds.  The output of a blank range has next
\* to no text.
Scope == [triggers : SUBSET Triggers, runs : SUBSET Runs, last : Ranges,
          merging : BOOLEAN, faults : Nat,
          shown : SUBSET Jobs, paged : SUBSET Ranges, blank : SUBSET Ranges]

\* The item ocrctl#{name}: the job it was put for, its copy and its age.
Record == [spot : Jobs \cup {NoJob, Gone}, od : Jobs \cup {NoJob},
           age : {"young", "old", "never"}]

ASSUME OcrAssumption ==
  /\ IsFiniteSet(Triggers)
  /\ IsFiniteSet(Runs)
  /\ MaxRange \in Nat \ {0}
  /\ MaxMoves \in Nat
  /\ {NoJob, Gone} \cap Jobs = {}
  /\ NoJob # Gone
  /\ NoRecord \notin Record
  /\ Scopes \subseteq Scope

VARIABLES
  scope,    \* the instance, chosen once
  claim,    \* whether the item ocr#{book} exists
  up,       \* the invocations of the trigger; seen (history) are the shown
            \* jobs in flight since the start of its listing
  job,      \* the status of each job
  retried,  \* the jobs that are in their second attempt
  waited,   \* the jobs that were created longer than SPOT_WAIT_SECS ago
  output,   \* the ranges with an object under ocr-output/
  ctl,      \* the item ocrctl#{name} of each range
  run,      \* the invocations of the controller
  faults,   \* how many faults there have been
  shaken    \* history: jobs whose ocrctl# item was overwritten as stale, or
            \* deleted by a run that gave up

jobVars == <<scope, claim, up, job, retried, waited, output, ctl, run, faults,
             shaken>>

\* Batch reports a terminated job as FAILED, with the reason given: "moved"
\* (spot-starved) or "capped" (48 h).
Status == {"none", "runnable", "running", "uploaded", "succeeded", "failed",
           "moved", "capped"}
Live == {"runnable", "running", "uploaded"}
LiveJobs == {j \in Jobs : job[j] \in Live}
OnSpot(j) == j[1] = 0
SpotJobs == {j \in Jobs : OnSpot(j)}
Name(j) == j[3]

Upload == [at : {"off", "look", "reclaim", "submit", "end"}, next : Nat, seen : SUBSET Jobs]
Controller == [at : {"off", "route", "get", "check", "overwrite", "submit",
                     "terminate", "record", "release", "cap"},
               todo : SUBSET Jobs, on : Jobs \cup {NoJob},
               prior : Jobs \cup {NoJob, Gone}, od : Jobs \cup {NoJob}]

Idle == [at |-> "off", todo |-> {}, on |-> NoJob, prior |-> NoJob, od |-> NoJob]
ClaimOf(j) == [spot |-> j, od |-> NoJob, age |-> "young"]

JobsTypeOK ==
  /\ scope \in Scopes
  /\ claim \in BOOLEAN
  /\ up \in [Triggers -> Upload]
  /\ \A t \in Triggers : up[t].at = "submit" => up[t].next <= scope.last
  /\ job \in [Jobs -> Status]
  /\ retried \subseteq Jobs
  /\ waited \subseteq Jobs
  /\ output \subseteq Ranges
  /\ ctl \in [Ranges -> Record \cup {NoRecord}]
  /\ run \in [Runs -> Controller]
  /\ faults \in 0..scope.faults
  /\ shaken \subseteq Jobs

\* An earlier upload of the book, whose jobs left no output, may have left its
\* claim (for a day) and the records of its jobs (for ever).
JobsInit ==
  /\ scope \in Scopes
  /\ claim \in BOOLEAN
  /\ up = [t \in Triggers |-> [at |-> "off", next |-> 1, seen |-> {}]]
  /\ job = [j \in Jobs |-> "none"]
  /\ retried = {}
  /\ waited = {}
  /\ output = {}
  /\ \E leftover \in {NoRecord, ClaimOf(Gone)} : ctl = [r \in Ranges |-> leftover]
  /\ run = [c \in Runs |-> Idle]
  /\ faults = 0
  /\ shaken = {}

Fault == faults < scope.faults /\ faults' = faults + 1

-----------------------------------------------------------------------------
\* The trigger.

UpUnchanged == UNCHANGED <<scope, retried, waited, output, ctl, run, shaken>>

\* The conditional put of the claim.
Intake(t) ==
  /\ t \in scope.triggers /\ up[t].at = "off"
  /\ claim' = TRUE
  /\ up' = [up EXCEPT ![t] = [at |-> IF claim THEN "look" ELSE "submit", next |-> 1,
                              seen |-> IF claim THEN LiveJobs \cap scope.shown ELSE {}]]
  /\ UNCHANGED <<job, faults>> /\ UpUnchanged

\* Mutant: RUNNING is listed before RUNNABLE.
ListedBackwards(i) ==
  {j \in Jobs : /\ OnSpot(j) <=> i \in {1, 2}
                /\ job[j] \in IF i \in {2, 4} THEN {"runnable"} ELSE {"running", "uploaded"}}

\* The queues are listed one status after the other, in this order.
Listed(i) ==
  {j \in Jobs : /\ OnSpot(j) <=> i \in {1, 2}
                /\ job[j] \in IF i \in {1, 3} THEN {"runnable"} ELSE {"running", "uploaded"}}

\* Those on the first page for sure: list_jobs is not asked for a second one.
Found(i) == Listed(i) \cap scope.shown

\* The first page holds a job of the book, or one of another book in whose name
\* this book's occurs; or it holds neither.
Look(t) ==
  /\ up[t].at = "look"
  /\ \/ up' = [up EXCEPT ![t].at = "end", ![t].seen = {}]
     \/ /\ Found(up[t].next) = {} /\ up[t].next < 4
        /\ up' = [up EXCEPT ![t].next = up[t].next + 1]
     \/ /\ Found(up[t].next) = {} /\ up[t].next = 4
        /\ up' = [up EXCEPT ![t].at = "reclaim", ![t].seen = {}]
  /\ UNCHANGED <<claim, job, faults>> /\ UpUnchanged

\* No job was found: the claim is taken over.
Reclaim(t) ==
  /\ up[t].at = "reclaim"
  /\ claim' = TRUE
  /\ up' = [up EXCEPT ![t].at = "submit", ![t].next = 1]
  /\ UNCHANGED <<job, faults>> /\ UpUnchanged

\* Mutant: the last range is taken for one more.
SubmitOneMore(t) ==
  /\ up[t].at = "submit"
  /\ job' = [job EXCEPT ![<<0, t, up[t].next>>] = "runnable"]
  /\ up' = [up EXCEPT ![t].at = IF up[t].next > scope.last THEN "end" ELSE "submit",
                      ![t].next = up[t].next + 1]
  /\ UNCHANGED <<claim, faults>> /\ UpUnchanged

\* One job per range, in the order of the pages.
Submit(t) ==
  /\ up[t].at = "submit"
  /\ job' = [job EXCEPT ![<<0, t, up[t].next>>] = "runnable"]
  /\ up' = [up EXCEPT ![t].at = IF up[t].next = scope.last THEN "end" ELSE "submit",
                      ![t].next = up[t].next + 1]
  /\ UNCHANGED <<claim, faults>> /\ UpUnchanged

\* submit_job raises, with or without a job: the claim is released, the jobs
\* of the ranges before stay.
SubmitRaises(t) ==
  /\ up[t].at = "submit" /\ Fault
  /\ \/ UNCHANGED job
     \/ job' = [job EXCEPT ![<<0, t, up[t].next>>] = "runnable"]
  /\ claim' = FALSE
  /\ up' = [up EXCEPT ![t].at = "end"]
  /\ UpUnchanged

\* A listing fails (then a job is assumed to be in flight), or the invocation
\* ends early.
TriggerStops(t) ==
  /\ up[t].at \in {"look", "reclaim", "submit"} /\ Fault
  /\ up' = [up EXCEPT ![t].at = "end", ![t].seen = {}]
  /\ UNCHANGED <<claim, job>> /\ UpUnchanged

\* The claim expires after a day; no matter once all uploads have met it.
Expire ==
  /\ claim /\ \E t \in scope.triggers : up[t].at = "off"
  /\ claim' = FALSE
  /\ UNCHANGED <<up, job, faults>> /\ UpUnchanged

TriggerStep ==
  \/ \E t \in Triggers : \/ Intake(t) \/ Look(t) \/ Reclaim(t) \/ Submit(t)
                         \/ SubmitRaises(t) \/ TriggerStops(t)
  \/ Expire

-----------------------------------------------------------------------------
\* The Batch jobs.

BatchUnchanged == UNCHANGED <<scope, claim, ctl, run, shaken>>

\* More than SPOT_WAIT_SECS have passed since the job was created.
Starve(j) ==
  /\ OnSpot(j) /\ job[j] = "runnable" /\ j \notin waited
  /\ waited' = waited \cup {j}
  /\ UNCHANGED <<up, job, retried, output, faults>> /\ BatchUnchanged

Begin(j) ==
  /\ job[j] = "runnable"
  /\ job' = [job EXCEPT ![j] = "running"]
  /\ UNCHANGED <<up, retried, waited, output, faults>> /\ BatchUnchanged

\* The container uploads its output and then exits.
PutOutput(j) ==
  /\ job[j] = "running"
  /\ job' = [job EXCEPT ![j] = "uploaded"]
  /\ output' = output \cup {Name(j)}
  /\ UNCHANGED <<up, retried, waited, faults>> /\ BatchUnchanged

Succeed(j) ==
  /\ job[j] = "uploaded"
  /\ job' = [job EXCEPT ![j] = "succeeded"]
  /\ UNCHANGED <<up, retried, waited, output, faults>> /\ BatchUnchanged

\* The instance is taken away or the container fails: there are two attempts.
AttemptFails(j) ==
  /\ job[j] \in {"running", "uploaded"} /\ Fault
  /\ job' = [job EXCEPT ![j] = IF j \in retried THEN "failed" ELSE "runnable"]
  /\ retried' = retried \cup {j}
  /\ up' = [t \in Triggers |-> [up[t] EXCEPT !.seen = up[t].seen \ {j}]]
  /\ UNCHANGED <<waited, output>> /\ BatchUnchanged

-----------------------------------------------------------------------------
\* The controller.

RunUnchanged == UNCHANGED <<scope, claim, up, retried, waited, output>>

Terminal(j) == j \in {NoJob, Gone} \/ job[j] \notin Live

\* terminate_job does nothing to a job that has ended.
Terminated(j, reason) == [job EXCEPT ![j] = IF job[j] \in Live THEN reason ELSE job[j]]

\* The jobs listed as RUNNABLE on the spot queue that have waited for too long.
List(c) ==
  /\ c \in scope.runs /\ run[c].at = "off"
  /\ run' = [run EXCEPT ![c].at = "route",
                        ![c].todo = {j \in waited : job[j] = "runnable"}]
  /\ UNCHANGED <<job, ctl, faults, shaken>> /\ RunUnchanged

\* Mutant: the claim is put without its condition.
PickAnyway(c) ==
  /\ run[c].at = "route"
  /\ \E j \in run[c].todo :
       /\ run' = [run EXCEPT ![c].at = "submit", ![c].on = j,
                             ![c].todo = run[c].todo \ {j}]
       /\ ctl' = [ctl EXCEPT ![Name(j)] = ClaimOf(j)]
  /\ UNCHANGED <<job, faults, shaken>> /\ RunUnchanged

\* The conditional put of ocrctl#{name} for the next job.
Pick(c) ==
  /\ run[c].at = "route"
  /\ \E j \in run[c].todo :
       LET free == ctl[Name(j)] = NoRecord
       IN /\ run' = [run EXCEPT ![c].at = IF free THEN "submit" ELSE "get",
                                ![c].on = j, ![c].todo = run[c].todo \ {j}]
          /\ ctl' = [ctl EXCEPT ![Name(j)] = IF free THEN ClaimOf(j) ELSE ctl[Name(j)]]
  /\ UNCHANGED <<job, faults, shaken>> /\ RunUnchanged

\* To the next job.
Back(c) == [run[c] EXCEPT !.at = "route", !.on = NoJob, !.prior = NoJob, !.od = NoJob]

\* The record that exists: of the same job, so that it has been moved, or of
\* another, or gone meanwhile.
Get(c) ==
  /\ run[c].at = "get"
  /\ LET found == ctl[Name(run[c].on)]
         prior == IF found = NoRecord THEN NoJob ELSE found.spot
     IN run' = [run EXCEPT ![c] =
          IF prior = run[c].on THEN Back(c)
          ELSE [run[c] EXCEPT !.at = "check", !.prior = prior]]
  /\ UNCHANGED <<job, ctl, faults, shaken>> /\ RunUnchanged

\* Mutant: every claim that exists is one of a live job.
CheckLive(c) ==
  /\ run[c].at = "check"
  /\ run' = [run EXCEPT ![c] = Back(c)]
  /\ UNCHANGED <<job, ctl, faults, shaken>> /\ RunUnchanged

Check(c) ==
  /\ run[c].at = "check"
  /\ run' = [run EXCEPT ![c] = IF Terminal(run[c].prior)
                               THEN [run[c] EXCEPT !.at = "overwrite"] ELSE Back(c)]
  /\ UNCHANGED <<job, ctl, faults, shaken>> /\ RunUnchanged

\* The prior job cannot be described: it is treated as live.
CheckFails(c) ==
  /\ run[c].at = "check" /\ Fault
  /\ run' = [run EXCEPT ![c] = Back(c)]
  /\ UNCHANGED <<job, ctl, shaken>> /\ RunUnchanged

\* The job that a record is for.
Owner(r) == IF ctl[r] = NoRecord THEN {} ELSE {ctl[r].spot} \cap Jobs

\* An unconditional put over the stale record.
Overwrite(c) ==
  /\ run[c].at = "overwrite"
  /\ ctl' = [ctl EXCEPT ![Name(run[c].on)] = ClaimOf(run[c].on)]
  /\ shaken' = shaken \cup Owner(Name(run[c].on))
  /\ run' = [run EXCEPT ![c].at = "submit", ![c].prior = NoJob]
  /\ UNCHANGED <<job, faults>> /\ RunUnchanged

\* The copies of a spot job that may still be submitted, in their order.
Copy(j, n) == <<n, j[2], j[3]>>
NextCopy(j) ==
  {Copy(j, n) : n \in {i \in 1..MaxMoves : /\ job[Copy(j, i)] = "none"
                                          /\ \A k \in 1..(i - 1) : job[Copy(j, k)] # "none"}}

\* submit_job to the on-demand queue, with the command of the spot job.
Resubmit(c) ==
  /\ run[c].at = "submit"
  /\ \E d \in NextCopy(run[c].on) :
       /\ job' = [job EXCEPT ![d] = "runnable"]
       /\ run' = [run EXCEPT ![c].at = "terminate", ![c].od = d]
  /\ UNCHANGED <<ctl, faults, shaken>> /\ RunUnchanged

Terminate(c) ==
  /\ run[c].at = "terminate"
  /\ job' = Terminated(run[c].on, "moved")
  /\ run' = [run EXCEPT ![c].at = "record"]
  /\ UNCHANGED <<ctl, faults, shaken>> /\ RunUnchanged

\* update_item, which creates the item if it is gone.
Note(c) ==
  /\ run[c].at = "record"
  /\ LET r == Name(run[c].on)
     IN ctl' = [ctl EXCEPT ![r] =
          IF ctl[r] = NoRecord
          THEN [spot |-> NoJob, od |-> run[c].od, age |-> "never"]
          ELSE [ctl[r] EXCEPT !.od = run[c].od]]
  /\ run' = [run EXCEPT ![c] = Back(c)]
  /\ UNCHANGED <<job, faults, shaken>> /\ RunUnchanged

\* One of the three calls raises; a submission may have been accepted.
MoveRaises(c) ==
  /\ run[c].at \in {"submit", "terminate", "record"} /\ Fault
  /\ \/ UNCHANGED job
     \/ /\ run[c].at = "submit"
        /\ \E d \in NextCopy(run[c].on) : job' = [job EXCEPT ![d] = "runnable"]
  /\ run' = [run EXCEPT ![c].at = "release"]
  /\ UNCHANGED <<ctl, shaken>> /\ RunUnchanged

\* The record is deleted for a retry, whoever it belongs to by now.
Release(c) ==
  /\ run[c].at = "release"
  /\ ctl' = [ctl EXCEPT ![Name(run[c].on)] = NoRecord]
  /\ shaken' = shaken \cup Owner(Name(run[c].on))
  /\ run' = [run EXCEPT ![c] = Back(c)]
  /\ UNCHANGED <<job, faults>> /\ RunUnchanged

\* Mutant: jobs that wait for an instance are not capped.
OverCapRunning(read) ==
  {d \in Jobs : /\ job[d] # "runnable"
                /\ \E r \in read : /\ ctl[r] # NoRecord
                                   /\ ctl[r].od = d /\ ctl[r].age = "old"}

\* The moved jobs whose record has been read and is 48 hours old.
OverCap(read) ==
  {d \in Jobs : \E r \in read : /\ ctl[r] # NoRecord
                                /\ ctl[r].od = d /\ ctl[r].age = "old"}

\* One page of a filtered scan of the whole table; the rest is never asked for.
Scan(c) ==
  /\ run[c].at = "route" /\ run[c].todo = {}
  /\ \E read \in SUBSET Ranges :
       /\ scope.paged \subseteq read
       /\ run' = [run EXCEPT ![c].at = "cap", ![c].todo = OverCap(read)]
  /\ UNCHANGED <<job, ctl, faults, shaken>> /\ RunUnchanged

Cap(c) ==
  /\ run[c].at = "cap"
  /\ \E d \in run[c].todo :
       /\ job' = Terminated(d, "capped")
       /\ run' = [run EXCEPT ![c].todo = run[c].todo \ {d}]
  /\ UNCHANGED <<ctl, faults, shaken>> /\ RunUnchanged

\* A terminate_job that raises is left to the next hour.
CapFails(c) ==
  /\ run[c].at = "cap" /\ Fault
  /\ \E d \in run[c].todo : run' = [run EXCEPT ![c].todo = run[c].todo \ {d}]
  /\ UNCHANGED <<job, ctl, shaken>> /\ RunUnchanged

Finish(c) ==
  /\ run[c].at = "cap" /\ run[c].todo = {}
  /\ run' = [run EXCEPT ![c] = Idle]
  /\ UNCHANGED <<job, ctl, faults, shaken>> /\ RunUnchanged

\* The invocation raises (describe_jobs is outside the try) or times out.
RunDies(c) ==
  /\ run[c].at # "off" /\ Fault
  /\ run' = [run EXCEPT ![c] = Idle]
  /\ UNCHANGED <<job, ctl, shaken>> /\ RunUnchanged

\* 48 hours after the claim; no matter without a job to cap.
Age(r) ==
  /\ ctl[r] # NoRecord /\ ctl[r].age = "young" /\ ctl[r].od # NoJob
  /\ ctl' = [ctl EXCEPT ![r].age = "old"]
  /\ UNCHANGED <<job, run, faults, shaken>> /\ RunUnchanged

RunStep(c) ==
  \/ List(c) \/ Pick(c) \/ Get(c) \/ Check(c) \/ Overwrite(c) \/ Resubmit(c)
  \/ Terminate(c) \/ Note(c) \/ Release(c) \/ Scan(c) \/ Cap(c) \/ Finish(c)

RunFault(c) == CheckFails(c) \/ MoveRaises(c) \/ CapFails(c) \/ RunDies(c)

\* All steps but the two that the merge takes part in.
JobsStep ==
  \/ TriggerStep
  \/ \E j \in Jobs : Starve(j) \/ Begin(j) \/ AttemptFails(j)
  \/ \E c \in Runs : RunStep(c) \/ RunFault(c)
  \/ \E r \in Ranges : Age(r)

-----------------------------------------------------------------------------
\* "A job identity (jobName) is moved at most once", and never half: a job that
\* was terminated for being starved has a copy on the on-demand queue, whatever
\* raises, ends or overlaps; it has a second one only if its own record was
\* overwritten as stale or deleted by a run that gave up.
MovedOnce ==
  \A j \in SpotJobs :
    /\ job[j] = "moved" => \E n \in 1..MaxMoves : job[Copy(j, n)] # "none"
    /\ \/ j \in shaken
       \/ \A m, n \in 1..MaxMoves :
            job[Copy(j, m)] # "none" /\ job[Copy(j, n)] # "none" => m = n

\* A claim is taken over only if no job was in flight that the first pages of
\* the listings hold: one that was, from the first listing to the last, without
\* falling back to the queue, has been seen, in whatever order it moved on.
NoBlindReclaim ==
  [][\A t \in Triggers :
       up[t].at = "look" /\ up'[t].at = "reclaim" => up[t].seen \cap LiveJobs = {}]_jobVars

\* The record of a job's name is held by a spot job in flight, and no run of
\* the controller is moving that one.
Held(j) ==
  LET record == ctl[Name(j)]
  IN /\ record # NoRecord
     /\ record.spot \in LiveJobs
     /\ \A c \in Runs : run[c].on = record.spot =>
          run[c].at \notin {"submit", "terminate", "record", "release"}

\* A job does not starve on the spot queue for ever, unless its record is left
\* behind by a run that ended between its claim and its move, or another job of
\* the name holds it.
Starving(r) ==
  \E j \in SpotJobs : Name(j) = r /\ job[j] = "runnable" /\ ~Held(j)

Routed == \A r \in Ranges : []<>(scope.runs # {} => ~Starving(r))

\* A moved job that its record names ends, by itself or at the cap of 48 hours,
\* if the record is on the page that the cap reads.
Unended(r) == ctl[r] # NoRecord /\ ctl[r].od \in LiveJobs /\ ctl[r].age # "never"

Capped == \A r \in Ranges : []<>(scope.runs # {} /\ r \in scope.paged => ~Unended(r))
=============================================================================
