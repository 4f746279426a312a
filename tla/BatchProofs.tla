------------------------------ MODULE BatchProofs ------------------------------
(***************************************************************************)
(* Proofs about the Grok batches.                                          *)
(*                                                                         *)
(* BatchJobs, for any sets of batches, overlapping poller invocations and  *)
(* retrieve tasks, and any limits, if a claim outlives the invocation that *)
(* makes it:                                                               *)
(*   - type correctness;                                                   *)
(*   - no batch is worked on by two retrieve tasks;                        *)
(*   - a closed batch is never reopened and never retrieved again;         *)
(* both so long as the batch's claim has not gone while somebody counted   *)
(* on it: released after a lost reply, or expired under a task.            *)
(*                                                                         *)
(* CreditGate, for any batches, any costs and any budget: the counter      *)
(* covers the submissions that stand, and the budget covers the counter.   *)
(***************************************************************************)
EXTENDS BatchJobs, CreditGate, FiniteSetTheorems, TLAPS

(***************************************************************************)
(* Type correctness.                                                       *)
(***************************************************************************)

LEMMA InitTypeOK == Init => TypeOK
  BY BatchAssumption DEF Init, TypeOK

LEMMA SubmitterTypes ==
  ASSUME TypeOK, NEW b \in Batches,
         Submit(b) \/ GrokFinishes(b) \/ SubmitterStep(b) \/ SubmitterDies(b)
  PROVE  TypeOK'
<1> USE BatchAssumption
    DEF TypeOK, Submitter, PostProcess, claimVars, pollVars, fetchVars, submitVars
<1>1. CASE Submit(b)
  BY <1>1 DEF Submit
<1>2. CASE GrokFinishes(b)
  BY <1>2 DEF GrokFinishes
<1>3. CASE BatchReturns(b) \/ WaitRaises(b)
  BY <1>3 DEF BatchReturns, WaitRaises
<1>4. CASE Enqueue(b)
  BY <1>4 DEF Enqueue
<1>5. CASE EndEnqueued(b)
  BY <1>5 DEF EndEnqueued
<1>6. CASE EndAlone(b)
  BY <1>6 DEF EndAlone
<1>7. CASE SubmitterDies(b)
  BY <1>7 DEF SubmitterDies, Crashes
<1> QED
  BY <1>1, <1>2, <1>3, <1>4, <1>5, <1>6, <1>7 DEF SubmitterStep

LEMMA PollerTypes ==
  ASSUME TypeOK, NEW p \in Pollers, PollerStep(p) \/ PollerDies(p)
  PROVE  TypeOK'
<1> USE BatchAssumption
    DEF TypeOK, Goto, PollSteps, claimVars, pollVars, fetchVars, submitVars
<1>1. CASE Scan(p)
  BY <1>1 DEF Scan
<1>2. ASSUME NEW b \in Batches, TakeJob(p, b)
      PROVE  TypeOK'
  BY <1>2 DEF TakeJob
<1>3. CASE Return(p) \/ CheckStatus(p)
  BY <1>3 DEF Return, Stop, CheckStatus
<1>4. CASE MarkReady(p) \/ MarkFailed(p)
  BY <1>4 DEF MarkReady, MarkFailed
<1>5. CASE Claim(p)
  BY <1>5 DEF Claim
<1>6. ASSUME NEW r \in Retrievers, LaunchFetch(p, r)
      PROVE  TypeOK'
  BY <1>6 DEF LaunchFetch, Place
<1>7. CASE LaunchFetchFails(p)
  BY <1>7 DEF LaunchFetchFails, Crashes
<1>8. CASE PollerDies(p)
  BY <1>8 DEF PollerDies, Stop, Crashes
<1>9. ASSUME NEW r \in Retrievers, LaunchUnanswered(p, r)
      PROVE  TypeOK'
  BY <1>9 DEF LaunchUnanswered, Place, Crashes
<1> QED
  BY <1>1, <1>2, <1>3, <1>4, <1>5, <1>6, <1>7, <1>8, <1>9 DEF PollerStep

LEMMA FetchTypes ==
  ASSUME TypeOK, NEW r \in Retrievers, FetchStep(r) \/ FetchDies(r)
  PROVE  TypeOK'
<1> USE BatchAssumption
    DEF TypeOK, PostProcess, claimVars, pollVars, submitVars
<1>1. CASE FetchEnds(r)
  BY <1>1 DEF FetchEnds, Finish
<1>2. CASE FetchPostProcesses(r)
  BY <1>2 DEF FetchPostProcesses, Finish
<1>3. CASE FetchDies(r)
  BY <1>3 DEF FetchDies, Finish, Crashes
<1> QED
  BY <1>1, <1>2, <1>3 DEF FetchStep

LEMMA NextTypeOK == TypeOK /\ [Next]_vars => TypeOK'
<1> SUFFICES ASSUME TypeOK, [Next]_vars PROVE TypeOK'
  OBVIOUS
<1>1. ASSUME NEW b \in Batches, ClaimExpires(b)
      PROVE  TypeOK'
  BY <1>1 DEF ClaimExpires, TypeOK, pollVars, fetchVars, submitVars
<1>2. CASE Tick
  BY <1>2 DEF Tick, Older, TypeOK, submitVars, fetchVars
<1>3. CASE UNCHANGED vars
  BY <1>3 DEF vars, TypeOK, claimVars, pollVars, fetchVars, submitVars
<1> QED
  BY <1>1, <1>2, <1>3, SubmitterTypes, PollerTypes, FetchTypes DEF Next

\* Every behaviour keeps the types of TypeOK.
THEOREM TypeCorrect == Spec => []TypeOK
  BY InitTypeOK, NextTypeOK, PTL DEF Spec

(***************************************************************************)
(* One retrieve task.                                                      *)
(***************************************************************************)

InTime == \A p \in Pollers : poll[p] # "idle" => pollAge[p] <= PollTimeout

\* A claim that has not gone under its user is there, and not older than the
\* invocation that would still launch under it.
ClaimUsed ==
  /\ \A p \in Pollers :
       poll[p] = "launch" /\ at[p] \notin loose
         => at[p] \in claims /\ claimAge[at[p]] <= pollAge[p]
  /\ \A r \in Retrievers :
       fetch[r] # "free" /\ job[r] \notin loose => job[r] \in claims

\* It has one user.
ClaimExclusive ==
  /\ \A p, q \in Pollers :
       poll[p] = "launch" /\ poll[q] = "launch" /\ at[p] = at[q]
         => p = q \/ at[p] \in loose
  /\ \A p \in Pollers, r \in Retrievers :
       poll[p] = "launch" /\ fetch[r] # "free" /\ at[p] = job[r] => at[p] \in loose
  /\ OneRetrieve

ClaimInv == InTime /\ ClaimUsed /\ ClaimExclusive

LEMMA NextClaimInv ==
  ASSUME PollTimeout <= ClaimTTL, TypeOK, ClaimInv, [Next]_vars
  PROVE  ClaimInv'
<1> USE BatchAssumption
    DEF TypeOK, ClaimInv, InTime, ClaimUsed, ClaimExclusive, OneRetrieve
<1>1. CASE UNCHANGED <<claimVars, pollVars, fetchVars>>
  BY <1>1 DEF claimVars, pollVars, fetchVars
<1>2. ASSUME NEW p \in Pollers,
             Scan(p) \/ (\E b \in Batches : TakeJob(p, b)) \/ Return(p) \/ PollerDies(p)
      PROVE  ClaimInv'
  <2>1. CASE Scan(p)
    BY <2>1 DEF Scan, Goto, claimVars, fetchVars
  <2>2. ASSUME NEW b \in Batches, TakeJob(p, b)
        PROVE  ClaimInv'
    BY <2>2 DEF TakeJob, Goto, claimVars, fetchVars
  <2>3. CASE Return(p) \/ PollerDies(p)
    <3>1. /\ UNCHANGED <<claims, claimAge, fetch, job, loose>>
          /\ poll' = [poll EXCEPT ![p] = "idle"]
          /\ \A q \in Pollers : q # p => at'[q] = at[q] /\ pollAge'[q] = pollAge[q]
      BY <2>3 DEF Return, PollerDies, Stop, claimVars, fetchVars
    <3> QED
      BY <3>1
  <2> QED
    BY <1>2, <2>1, <2>2, <2>3
<1>3. ASSUME NEW p \in Pollers, CheckStatus(p) \/ MarkReady(p) \/ MarkFailed(p)
      PROVE  ClaimInv'
  <2>1. CASE CheckStatus(p)
    BY <2>1 DEF CheckStatus, Goto, claimVars, fetchVars
  <2>2. CASE MarkReady(p)
    BY <2>2 DEF MarkReady, Goto, claimVars, fetchVars
  <2>3. CASE MarkFailed(p)
    BY <2>3 DEF MarkFailed, Goto, claimVars, fetchVars
  <2> QED
    BY <1>3, <2>1, <2>2, <2>3
<1>4. ASSUME NEW p \in Pollers, Claim(p)
      PROVE  ClaimInv'
  BY <1>4 DEF Claim, Goto, claimVars, fetchVars
<1>5. ASSUME NEW p \in Pollers, NEW r \in Retrievers, LaunchFetch(p, r)
      PROVE  ClaimInv'
  BY <1>5 DEF LaunchFetch, Place, Goto, claimVars
<1>6. ASSUME NEW p \in Pollers, LaunchFetchFails(p)
      PROVE  ClaimInv'
  BY <1>6 DEF LaunchFetchFails, Goto, fetchVars
<1>7. ASSUME NEW p \in Pollers, NEW r \in Retrievers, LaunchUnanswered(p, r)
      PROVE  ClaimInv'
  BY <1>7 DEF LaunchUnanswered, Place, Goto
<1>8. ASSUME NEW r \in Retrievers, FetchStep(r) \/ FetchDies(r)
      PROVE  ClaimInv'
  BY <1>8
  DEF FetchStep, FetchEnds, FetchPostProcesses, FetchDies, Finish, claimVars, pollVars
<1>9. ASSUME NEW b \in Batches, ClaimExpires(b)
      PROVE  ClaimInv'
  BY <1>9 DEF ClaimExpires, CountedOn, pollVars
<1>10. CASE Tick
  BY <1>10 DEF Tick, Older, fetchVars
<1>11. ASSUME NEW b \in Batches,
              Submit(b) \/ GrokFinishes(b) \/ SubmitterStep(b) \/ SubmitterDies(b)
       PROVE  UNCHANGED <<claimVars, pollVars, fetchVars>>
  BY <1>11
  DEF Submit, GrokFinishes, SubmitterStep, BatchReturns, WaitRaises, Enqueue,
      EndEnqueued, EndAlone, SubmitterDies
<1> QED
  BY <1>1, <1>2, <1>3, <1>4, <1>5, <1>6, <1>7, <1>8, <1>9, <1>10, <1>11
  DEF Next, PollerStep, vars

\* One retrieve task per batch, if the claim outlives the invocation that makes
\* it: the comment "6h > max retrieve runtime" asks for more, which nothing
\* enforces.
THEOREM RetrieveIsExclusive ==
  ASSUME PollTimeout <= ClaimTTL
  PROVE  Spec => []OneRetrieve
<1>1. Init => ClaimInv
  BY DEF Init, ClaimInv, InTime, ClaimUsed, ClaimExclusive, OneRetrieve
<1>2. TypeOK /\ ClaimInv /\ [Next]_vars => ClaimInv'
  BY NextClaimInv
<1>3. ClaimInv => OneRetrieve
  BY DEF ClaimInv, ClaimExclusive
<1> QED
  BY <1>1, <1>2, <1>3, TypeCorrect, PTL DEF Spec

(***************************************************************************)
(* A closed batch stays closed.                                            *)
(***************************************************************************)

Closed == {"retrieved", "failed"}

\* Grok has the results, and the row says so or is closed.
Ripe(b) == grok[b] = "complete" /\ row[b] \in Closed \cup {"ready"}

\* A row is made once, what it says of Grok is true, and only a ripe batch is
\* claimed or retrieved.
RowInv ==
  /\ \A b \in Batches :
       /\ submit[b] = "idle" => grok[b] = "none"
       /\ submit[b] \in {"idle", "waiting", "saved"} => row[b] = "none"
       /\ row[b] \in {"ready", "retrieved"} => grok[b] = "complete"
  /\ \A p \in Pollers :
       /\ poll[p] = "mark" => grok[at[p]] = "complete"
       /\ poll[p] = "fail" => grok[at[p]] = "failed"
       /\ poll[p] \notin {"idle", "next"} => row[at[p]] # "none"
       /\ \A b \in jobs[p] : row[b] # "none"
       /\ poll[p] \in {"claim", "launch"} => Ripe(at[p])
       /\ \A b \in jobs[p] \cap ready[p] : Ripe(b)
  /\ \A r \in Retrievers : fetch[r] # "free" => Ripe(job[r])

\* The claim under which a batch was closed protects it from the invocations
\* that took it for ready before.
StaleInv ==
  \A p \in Pollers, b \in Batches :
    TakesForReady(p, b) /\ row[b] \in Closed => b \in claims \cup loose

\* What is launched or at work under its claim is not closed.
OpenInv ==
  /\ \A p \in Pollers :
       poll[p] = "launch" => row[at[p]] = "ready" \/ at[p] \in loose
  /\ \A r \in Retrievers :
       fetch[r] = "working" => row[job[r]] = "ready" \/ job[r] \in loose

LEMMA NextRowInv ==
  ASSUME TypeOK, RowInv, [Next]_vars
  PROVE  RowInv'
<1> USE DEF TypeOK, PollSteps, RowInv, Ripe, Closed
<1>1. CASE UNCHANGED <<submitVars, row, poll, jobs, ready, at, fetch, job>>
  BY <1>1 DEF submitVars
<1>2. ASSUME NEW b \in Batches, Submit(b) \/ GrokFinishes(b)
      PROVE  RowInv'
  BY <1>2 DEF Submit, GrokFinishes, Submitter, pollVars, fetchVars
<1>3. ASSUME NEW b \in Batches, SubmitterStep(b) \/ SubmitterDies(b)
      PROVE  RowInv'
  BY <1>3
  DEF SubmitterStep, BatchReturns, WaitRaises, Enqueue, EndEnqueued, EndAlone,
      SubmitterDies, Submitter, pollVars, fetchVars
<1>4. ASSUME NEW p \in Pollers,
             Scan(p) \/ (\E b \in Batches : TakeJob(p, b)) \/ Return(p) \/ CheckStatus(p)
               \/ PollerDies(p)
      PROVE  RowInv'
  <2>1. CASE Scan(p)
    BY <2>1 DEF Scan, Goto, submitVars, fetchVars
  <2>2. ASSUME NEW b \in Batches, TakeJob(p, b)
        PROVE  RowInv'
    BY <2>2 DEF TakeJob, Goto, submitVars, fetchVars
  <2>3. CASE Return(p) \/ PollerDies(p)
    BY <2>3 DEF Return, PollerDies, Stop, submitVars, fetchVars
  <2>4. CASE CheckStatus(p)
    BY <2>4 DEF CheckStatus, Goto, submitVars, fetchVars
  <2> QED
    BY <1>4, <2>1, <2>2, <2>3, <2>4
<1>5. ASSUME NEW p \in Pollers, MarkReady(p) \/ MarkFailed(p)
      PROVE  RowInv'
  <2>1. CASE MarkReady(p)
    BY <2>1 DEF MarkReady, Goto, submitVars, fetchVars
  <2>2. CASE MarkFailed(p)
    BY <2>2 DEF MarkFailed, Goto, submitVars, fetchVars
  <2> QED
    BY <1>5, <2>1, <2>2
<1>6. ASSUME NEW p \in Pollers, Claim(p) \/ LaunchFetchFails(p)
      PROVE  RowInv'
  BY <1>6 DEF Claim, LaunchFetchFails, Goto, submitVars, fetchVars
<1>7. ASSUME NEW p \in Pollers, NEW r \in Retrievers,
             LaunchFetch(p, r) \/ LaunchUnanswered(p, r)
      PROVE  RowInv'
  BY <1>7 DEF LaunchFetch, LaunchUnanswered, Place, Goto, submitVars
<1>8. ASSUME NEW r \in Retrievers, FetchEnds(r)
      PROVE  RowInv'
  BY <1>8 DEF FetchEnds, Finish, submitVars, pollVars
<1>9. ASSUME NEW r \in Retrievers, FetchPostProcesses(r) \/ FetchDies(r)
      PROVE  RowInv'
  BY <1>9 DEF FetchPostProcesses, FetchDies, Finish, submitVars, pollVars
<1>10. ASSUME NEW b \in Batches, ClaimExpires(b)
      PROVE  UNCHANGED <<submitVars, row, poll, jobs, ready, at, fetch, job>>
  BY <1>10 DEF ClaimExpires, pollVars
<1>11. CASE Tick
  BY <1>1, <1>11 DEF Tick, fetchVars
<1> QED
  BY <1>1, <1>2, <1>3, <1>4, <1>5, <1>6, <1>7, <1>8, <1>9, <1>10, <1>11
  DEF Next, PollerStep, FetchStep, vars, pollVars, fetchVars

LEMMA NextOpenInv ==
  ASSUME TypeOK, ClaimInv, RowInv, StaleInv, OpenInv, [Next]_vars
  PROVE  OpenInv'
<1> USE DEF TypeOK, PollSteps, OpenInv
<1>1. CASE UNCHANGED <<row, poll, at, fetchVars>>
  BY <1>1 DEF fetchVars
<1>2. ASSUME NEW b \in Batches, Submit(b) \/ GrokFinishes(b)
      PROVE  UNCHANGED <<row, poll, at, fetchVars>>
  BY <1>2 DEF Submit, GrokFinishes, pollVars
<1>3. ASSUME NEW b \in Batches, SubmitterStep(b) \/ SubmitterDies(b)
      PROVE  OpenInv'
  BY <1>3
  DEF SubmitterStep, BatchReturns, WaitRaises, Enqueue, EndEnqueued, EndAlone,
      SubmitterDies, Submitter, RowInv, pollVars, fetchVars
<1>4. ASSUME NEW p \in Pollers,
             Scan(p) \/ (\E b \in Batches : TakeJob(p, b)) \/ CheckStatus(p)
      PROVE  OpenInv'
  BY <1>4 DEF Scan, TakeJob, CheckStatus, Goto, fetchVars
<1>5. ASSUME NEW p \in Pollers, Return(p) \/ PollerDies(p)
      PROVE  OpenInv'
  BY <1>5 DEF Return, PollerDies, Stop, fetchVars
<1>6. ASSUME NEW p \in Pollers, MarkReady(p)
      PROVE  OpenInv'
  BY <1>6 DEF MarkReady, Goto, fetchVars
<1>7. ASSUME NEW p \in Pollers, MarkFailed(p)
      PROVE  OpenInv'
  BY <1>7 DEF MarkFailed, Goto, RowInv, Ripe, fetchVars
<1>8. ASSUME NEW p \in Pollers, Claim(p)
      PROVE  OpenInv'
  BY <1>8 DEF Claim, Goto, StaleInv, TakesForReady, RowInv, Ripe, fetchVars
<1>9. ASSUME NEW p \in Pollers, NEW r \in Retrievers,
             LaunchFetch(p, r) \/ LaunchUnanswered(p, r)
      PROVE  OpenInv'
  BY <1>9 DEF LaunchFetch, LaunchUnanswered, Place, Goto
<1>10. ASSUME NEW p \in Pollers, LaunchFetchFails(p)
      PROVE  OpenInv'
  BY <1>10 DEF LaunchFetchFails, Goto, fetchVars
<1>11. ASSUME NEW r \in Retrievers, FetchEnds(r)
       PROVE  OpenInv'
  BY <1>11 DEF FetchEnds, Finish, ClaimInv, ClaimExclusive, OneRetrieve, pollVars
<1>12. ASSUME NEW r \in Retrievers, FetchPostProcesses(r) \/ FetchDies(r)
       PROVE  OpenInv'
  BY <1>12 DEF FetchPostProcesses, FetchDies, Finish, pollVars
<1>13. ASSUME NEW b \in Batches, ClaimExpires(b)
       PROVE  OpenInv'
  BY <1>13 DEF ClaimExpires, pollVars
<1>14. CASE Tick
  BY <1>1, <1>14 DEF Tick
<1> QED
  BY <1>1, <1>2, <1>3, <1>4, <1>5, <1>6, <1>7, <1>8, <1>9, <1>10, <1>11, <1>12, <1>13, <1>14
  DEF Next, PollerStep, FetchStep, vars, pollVars

LEMMA NextStaleInv ==
  ASSUME TypeOK, ClaimInv, RowInv, StaleInv, OpenInv, [Next]_vars
  PROVE  StaleInv'
<1> USE DEF TypeOK, PollSteps, StaleInv, TakesForReady, Closed
<1>1. CASE UNCHANGED <<row, claimVars, pollVars, loose>>
  BY <1>1 DEF claimVars, pollVars
<1>2. ASSUME NEW b \in Batches, Submit(b) \/ GrokFinishes(b)
      PROVE  UNCHANGED <<row, claimVars, pollVars, loose>>
  BY <1>2 DEF Submit, GrokFinishes, fetchVars
<1>3. ASSUME NEW b \in Batches, SubmitterStep(b) \/ SubmitterDies(b)
      PROVE  StaleInv'
  BY <1>3
  DEF SubmitterStep, BatchReturns, WaitRaises, Enqueue, EndEnqueued, EndAlone,
      SubmitterDies, Submitter, RowInv, claimVars, pollVars, fetchVars
<1>4. ASSUME NEW p \in Pollers, Scan(p)
      PROVE  StaleInv'
  BY <1>4 DEF Scan, Goto, claimVars, fetchVars
<1>5. ASSUME NEW p \in Pollers, NEW b \in Batches, TakeJob(p, b)
      PROVE  StaleInv'
  BY <1>5 DEF TakeJob, Goto, claimVars, fetchVars
<1>6. ASSUME NEW p \in Pollers, Return(p) \/ PollerDies(p)
      PROVE  StaleInv'
  BY <1>6 DEF Return, PollerDies, Stop, claimVars, fetchVars
<1>7. ASSUME NEW p \in Pollers, CheckStatus(p)
      PROVE  StaleInv'
  BY <1>7 DEF CheckStatus, Goto, claimVars, fetchVars
<1>8. ASSUME NEW p \in Pollers, MarkReady(p)
      PROVE  StaleInv'
  BY <1>8 DEF MarkReady, Goto, claimVars, fetchVars
<1>9. ASSUME NEW p \in Pollers, MarkFailed(p)
      PROVE  StaleInv'
  BY <1>9 DEF MarkFailed, Goto, RowInv, Ripe, claimVars, fetchVars
<1>10. ASSUME NEW p \in Pollers, Claim(p)
      PROVE  StaleInv'
  BY <1>10 DEF Claim, Goto, claimVars, fetchVars
<1>11. ASSUME NEW p \in Pollers, NEW r \in Retrievers,
              LaunchFetch(p, r) \/ LaunchUnanswered(p, r)
       PROVE  StaleInv'
  BY <1>11 DEF LaunchFetch, LaunchUnanswered, Goto, claimVars
<1>12. ASSUME NEW p \in Pollers, LaunchFetchFails(p)
       PROVE  StaleInv'
  BY <1>12 DEF LaunchFetchFails, Goto, OpenInv, fetchVars
<1>13. ASSUME NEW r \in Retrievers, FetchEnds(r)
       PROVE  StaleInv'
  BY <1>13 DEF FetchEnds, ClaimInv, ClaimUsed, claimVars, pollVars
<1>14. ASSUME NEW r \in Retrievers, FetchPostProcesses(r) \/ FetchDies(r)
       PROVE  UNCHANGED <<row, claimVars, pollVars, loose>>
  BY <1>14 DEF FetchPostProcesses, FetchDies
<1>15. ASSUME NEW b \in Batches, ClaimExpires(b)
       PROVE  StaleInv'
  BY <1>15 DEF ClaimExpires, CountedOn, pollVars
<1>16. CASE Tick
  BY <1>16 DEF Tick, fetchVars
<1> QED
  BY <1>1, <1>2, <1>3, <1>4, <1>5, <1>6, <1>7, <1>8, <1>9, <1>10, <1>11, <1>12,
     <1>13, <1>14, <1>15, <1>16
  DEF Next, PollerStep, FetchStep, vars, fetchVars

\* A closed row stays closed, and stays as it is while the claim holds.
LEMMA ClosedStep ==
  ASSUME TypeOK, RowInv, OpenInv, [Next]_vars, NEW b \in Batches, row[b] \in Closed
  PROVE  /\ row'[b] \in Closed
         /\ b \notin loose =>
              /\ row'[b] = row[b]
              /\ \A r \in Retrievers :
                   fetch[r] = "free" /\ fetch'[r] = "working" => job'[r] # b
<1> USE DEF TypeOK, PollSteps, Closed
<1>1. CASE UNCHANGED <<row, fetch>>
  BY <1>1
<1>2. ASSUME NEW c \in Batches, SubmitterStep(c)
      PROVE  UNCHANGED fetch /\ row'[b] = row[b]
  BY <1>2
  DEF SubmitterStep, BatchReturns, WaitRaises, Enqueue, EndEnqueued, EndAlone,
      Submitter, RowInv, fetchVars
<1>3. ASSUME NEW p \in Pollers, MarkReady(p)
      PROVE  UNCHANGED fetch /\ row'[b] = row[b]
  BY <1>3 DEF MarkReady, Goto, fetchVars
<1>4. ASSUME NEW p \in Pollers, MarkFailed(p)
      PROVE  UNCHANGED fetch /\ row'[b] = row[b]
  BY <1>4 DEF MarkFailed, Goto, RowInv, fetchVars
<1>5. ASSUME NEW p \in Pollers, NEW r \in Retrievers,
             LaunchFetch(p, r) \/ LaunchUnanswered(p, r)
      PROVE  /\ UNCHANGED row
             /\ b \notin loose => \A s \in Retrievers :
                  fetch[s] = "free" /\ fetch'[s] = "working" => job'[s] # b
  BY <1>5 DEF LaunchFetch, LaunchUnanswered, Place, Goto, OpenInv
<1>6. ASSUME NEW r \in Retrievers, FetchEnds(r)
      PROVE  /\ row'[b] \in Closed
             /\ b \notin loose => row'[b] = row[b]
             /\ \A s \in Retrievers : fetch'[s] = "working" => fetch[s] # "free"
  BY <1>6 DEF FetchEnds, Finish, OpenInv
<1>7. ASSUME NEW r \in Retrievers, FetchPostProcesses(r) \/ FetchDies(r)
      PROVE  /\ UNCHANGED row
             /\ \A s \in Retrievers : fetch'[s] = "working" => fetch[s] # "free"
  BY <1>7 DEF FetchPostProcesses, FetchDies, Finish
<1>8. ASSUME NEW c \in Batches,
             Submit(c) \/ GrokFinishes(c) \/ SubmitterDies(c) \/ ClaimExpires(c)
      PROVE  UNCHANGED <<row, fetch>>
  BY <1>8 DEF Submit, GrokFinishes, SubmitterDies, ClaimExpires, fetchVars
<1>9. ASSUME NEW p \in Pollers,
             \/ Scan(p) \/ (\E c \in Batches : TakeJob(p, c)) \/ Return(p)
             \/ CheckStatus(p) \/ Claim(p) \/ LaunchFetchFails(p) \/ PollerDies(p)
      PROVE  UNCHANGED <<row, fetch>>
  BY <1>9
  DEF Scan, TakeJob, Return, CheckStatus, Claim, LaunchFetchFails, PollerDies, fetchVars
<1>10. CASE Tick
  BY <1>10 DEF Tick, fetchVars
<1> QED
  BY <1>1, <1>2, <1>3, <1>4, <1>5, <1>6, <1>7, <1>8, <1>9, <1>10
  DEF Next, PollerStep, FetchStep, vars, fetchVars

RetrieveInv == ClaimInv /\ RowInv /\ StaleInv /\ OpenInv

LEMMA RetrieveInvariant ==
  ASSUME PollTimeout <= ClaimTTL
  PROVE  Spec => []RetrieveInv
<1>1. Init => RetrieveInv
  BY DEF Init, RetrieveInv, ClaimInv, InTime, ClaimUsed, ClaimExclusive, OneRetrieve,
         RowInv, StaleInv, TakesForReady, OpenInv
<1>2. TypeOK /\ RetrieveInv /\ [Next]_vars => RetrieveInv'
  BY NextClaimInv, NextRowInv, NextStaleInv, NextOpenInv DEF RetrieveInv
<1> QED
  BY <1>1, <1>2, TypeCorrect, PTL DEF Spec

\* A closed batch is never reopened nor retrieved again, unless its claim has
\* gone while a task or a stale reading of its row counted on it.
THEOREM ClosedStaysClosed ==
  ASSUME PollTimeout <= ClaimTTL
  PROVE  Spec => ClosedIsFinal
<1>1. TypeOK /\ RetrieveInv /\ [Next]_vars =>
        [\A b \in Batches \ loose :
           row[b] \in {"retrieved", "failed"} =>
             /\ row'[b] = row[b]
             /\ \A r \in Retrievers :
                  fetch[r] = "free" /\ fetch'[r] = "working" => job'[r] # b]_vars
  BY ClosedStep DEF Closed, RetrieveInv
<1> QED
  BY <1>1, RetrieveInvariant, TypeCorrect, PTL DEF Spec, ClosedIsFinal

(***************************************************************************)
(* The rows and the claims implement ExclusiveWork.                        *)
(***************************************************************************)

LEMMA ClosedGrow ==
  ASSUME TypeOK, RetrieveInv, [Next]_vars
  PROVE  ClosedBatches' \in SUBSET Batches /\ ClosedBatches \subseteq ClosedBatches'
<1>1. ASSUME NEW b \in ClosedBatches PROVE b \in ClosedBatches'
  <2>1. b \in Batches /\ row[b] \in Closed
    BY DEF ClosedBatches, Closed
  <2>2. row'[b] \in Closed
    BY <2>1, ClosedStep DEF RetrieveInv
  <2> QED
    BY <2>1, <2>2 DEF ClosedBatches, Closed
<1> QED
  BY <1>1 DEF ClosedBatches

\* The task r that p launches under a claim that holds works on a batch that
\* nobody works on.
LEMMA LaunchTakes ==
  ASSUME TypeOK, RetrieveInv, NEW p \in Pollers, NEW r \in Retrievers, LaunchFetch(p, r),
         at[p] \notin loose
  PROVE  Retrieval!Take(r, at[p]) /\ at[p] \in Batches
<1>1. /\ poll[p] = "launch" /\ at[p] \in Batches /\ row' = row /\ loose' = loose
      /\ fetch[r] = "free"
      /\ fetch' = [fetch EXCEPT ![r] = "working"]
      /\ job' = [job EXCEPT ![r] = at[p]]
  BY DEF LaunchFetch, Place, Goto, TypeOK
<1>2. at[p] \notin ClosedBatches
  BY <1>1 DEF RetrieveInv, OpenInv, ClosedBatches
<1>3. \A s \in Retrievers : <<s, at[p]>> \notin Retrieving
  BY <1>1 DEF RetrieveInv, ClaimInv, ClaimExclusive, Retrieving
<1>4. Retrieving' = Retrieving \cup {<<r, at[p]>>}
  <2>1. ASSUME NEW s \in Retrievers, s # r
        PROVE  fetch'[s] = fetch[s] /\ job'[s] = job[s]
    BY <1>1, <2>1 DEF TypeOK
  <2>2. fetch'[r] # "free" /\ job'[r] = at[p] /\ job'[r] \notin loose'
    BY <1>1 DEF TypeOK
  <2> QED
    BY <1>1, <2>1, <2>2 DEF Retrieving
<1>5. ClosedBatches' = ClosedBatches
  BY <1>1 DEF ClosedBatches
<1> QED
  BY <1>1, <1>2, <1>3, <1>4, <1>5 DEF Retrieval!Take

\* A task that starts otherwise starts beside a claim that has gone.
LEMMA LooseLaunchLeaves ==
  ASSUME TypeOK, NEW p \in Pollers, NEW r \in Retrievers,
         (LaunchFetch(p, r) /\ at[p] \in loose) \/ LaunchUnanswered(p, r)
  PROVE  Retrieving' \subseteq Retrieving
<1>1. /\ loose \subseteq loose' /\ at[p] \in loose'
      /\ fetch[r] = "free"
      /\ fetch' = [fetch EXCEPT ![r] = "working"]
      /\ job' = [job EXCEPT ![r] = at[p]]
  BY DEF LaunchFetch, LaunchUnanswered, Place
<1>2. ASSUME NEW s \in Retrievers, fetch'[s] # "free", job'[s] \notin loose'
      PROVE  fetch[s] # "free" /\ job[s] \notin loose /\ job'[s] = job[s]
  BY <1>1, <1>2 DEF TypeOK
<1> QED
  BY <1>2 DEF Retrieving

\* No other step puts a task to work, or makes a claim hold again.
LEMMA OtherStepsLeave ==
  ASSUME TypeOK, [Next]_vars,
         ~\E p \in Pollers, r \in Retrievers : LaunchFetch(p, r) \/ LaunchUnanswered(p, r)
  PROVE  Retrieving' \subseteq Retrieving
<1>1. /\ loose \subseteq loose'
      /\ \A r \in Retrievers : fetch'[r] # "free" => fetch[r] # "free" /\ job'[r] = job[r]
  <2>1. CASE UNCHANGED fetchVars
    BY <2>1 DEF fetchVars
  <2>2. ASSUME NEW r \in Retrievers, FetchStep(r) \/ FetchDies(r)
        PROVE  /\ loose' = loose
               /\ \A s \in Retrievers :
                    fetch'[s] # "free" => fetch[s] # "free" /\ job'[s] = job[s]
    BY <2>2 DEF FetchStep, FetchEnds, FetchPostProcesses, FetchDies, Finish, TypeOK
  <2>3. ASSUME NEW b \in Batches,
               Submit(b) \/ GrokFinishes(b) \/ SubmitterStep(b) \/ SubmitterDies(b)
        PROVE  UNCHANGED fetchVars
    BY <2>3
    DEF Submit, GrokFinishes, SubmitterStep, BatchReturns, WaitRaises, Enqueue,
        EndEnqueued, EndAlone, SubmitterDies
  <2>4. ASSUME NEW b \in Batches, ClaimExpires(b)
        PROVE  loose \subseteq loose' /\ UNCHANGED <<fetch, job>>
    BY <2>4 DEF ClaimExpires
  <2>5. ASSUME NEW p \in Pollers, PollerStep(p) \/ PollerDies(p)
        PROVE  UNCHANGED fetchVars
    BY <2>5
    DEF PollerStep, Scan, TakeJob, Return, CheckStatus, MarkReady, MarkFailed, Claim,
        LaunchFetchFails, PollerDies
  <2>6. CASE Tick
    BY <2>6 DEF Tick, fetchVars
  <2> QED
    BY <2>1, <2>2, <2>3, <2>4, <2>5, <2>6 DEF Next, vars, fetchVars
<1> QED
  BY <1>1 DEF Retrieving

LEMMA RetrieveStep ==
  ASSUME TypeOK, RetrieveInv, [Next]_vars
  PROVE  Retrieval!Next
<1>1. ASSUME NEW p \in Pollers, NEW r \in Retrievers, LaunchFetch(p, r), at[p] \notin loose
      PROVE  Retrieval!Next
  BY <1>1, LaunchTakes DEF Retrieval!Next
<1>2. CASE Retrieving' \subseteq Retrieving
  BY <1>2, ClosedGrow DEF Retrieval!Next, Retrieval!Leave
<1> QED
  BY <1>1, <1>2, LooseLaunchLeaves, OtherStepsLeave

\* The rows and the claims give each batch to one retrieve task at a time,
\* until it is closed and never after, unless its claim has gone while it was
\* counted on.
THEOREM RetrievesAreExclusive ==
  ASSUME PollTimeout <= ClaimTTL
  PROVE  Spec => RetrievesExclude
<1>1. Init => Retrieval!Init
  BY DEF Init, Retrieval!Init, Retrieving, ClosedBatches
<1>2. TypeOK /\ RetrieveInv /\ [Next]_vars
        => [Retrieval!Next]_<<Retrieving, ClosedBatches>>
  BY RetrieveStep
<1> QED
  BY <1>1, <1>2, RetrieveInvariant, TypeCorrect, PTL
  DEF Spec, RetrievesExclude, Retrieval!Spec

(***************************************************************************)
(* What a set of batches costs.                                            *)
(***************************************************************************)

\* The units of one batch are as many as it costs.
LEMMA UnitsOfOne ==
  ASSUME NEW b \in Submissions
  PROVE  /\ IsFiniteSet({b} \X (1..Cost[b]))
         /\ Cardinality({b} \X (1..Cost[b])) = Cost[b]
<1> Cost[b] \in Nat
  BY CreditAssumption
<1>1. IsFiniteSet(1..Cost[b]) /\ Cardinality(1..Cost[b]) = Cost[b]
  BY FS_Interval
<1>2. IsFiniteSet({b}) /\ Cardinality({b}) = 1
  BY FS_Singleton
<1>3. /\ IsFiniteSet({b} \X (1..Cost[b]))
      /\ Cardinality({b} \X (1..Cost[b])) = Cardinality({b}) * Cardinality(1..Cost[b])
  BY <1>1, <1>2, FS_Product
<1> QED
  BY <1>1, <1>2, <1>3

LEMMA UnitsFinite ==
  ASSUME NEW S \in SUBSET Submissions
  PROVE  IsFiniteSet(Units(S)) /\ Total(S) \in Nat
<1>1. IsFiniteSet(S)
  BY CreditAssumption, FS_Subset
<1>2. IsFiniteSet(1..MaxCost)
  BY CreditAssumption, FS_Interval
<1>3. IsFiniteSet(S \X (1..MaxCost))
  BY <1>1, <1>2, FS_Product
<1>4. Units(S) \subseteq S \X (1..MaxCost)
  BY DEF Units
<1>5. IsFiniteSet(Units(S))
  BY <1>3, <1>4, FS_Subset
<1> QED
  BY <1>5, FS_CardinalityType DEF Total

\* A batch adds its cost to the total.
LEMMA TotalWithOne ==
  ASSUME NEW S \in SUBSET Submissions, NEW b \in Submissions, b \notin S
  PROVE  Total(S \cup {b}) = Total(S) + Cost[b]
<1> DEFINE One == {b} \X (1..Cost[b])
<1>1. Cost[b] \in Nat /\ Cost[b] <= MaxCost /\ MaxCost \in Nat
  BY CreditAssumption
<1>2. Units(S \cup {b}) = Units(S) \cup One
  <2>1. ASSUME NEW u \in Units(S \cup {b})
        PROVE  u \in Units(S) \cup One
    BY <2>1, <1>1 DEF Units
  <2>2. ASSUME NEW u \in Units(S)
        PROVE  u \in Units(S \cup {b})
    BY <2>2 DEF Units
  <2>3. ASSUME NEW u \in One
        PROVE  u \in Units(S \cup {b})
    BY <2>3, <1>1 DEF Units
  <2> QED
    BY <2>1, <2>2, <2>3
<1>3. Units(S) \cap One = {}
  BY DEF Units
<1>4. IsFiniteSet(One) /\ Cardinality(One) = Cost[b]
  BY UnitsOfOne
<1>5. IsFiniteSet(Units(S)) /\ Total(S) \in Nat
  BY UnitsFinite
<1>6. Cardinality(Units(S) \cup One)
        = Cardinality(Units(S)) + Cardinality(One) - Cardinality(Units(S) \cap One)
  BY <1>4, <1>5, FS_Union
<1>7. Cardinality(Units(S) \cap One) = 0
  BY <1>3, FS_EmptySet
<1>8. Total(S \cup {b}) = Cardinality(Units(S) \cup One)
  BY <1>2 DEF Total
<1>9. Total(S) = Cardinality(Units(S))
  BY DEF Total
<1> HIDE DEF One
<1> QED
  BY <1>1, <1>4, <1>5, <1>6, <1>7, <1>8, <1>9

LEMMA TotalOfNone == Total({}) = 0
<1>1. Units({}) = {}
  BY DEF Units
<1> QED
  BY <1>1, FS_EmptySet DEF Total

(***************************************************************************)
(* The invariant of the gate.                                              *)
(***************************************************************************)

Covered == Total(Counted) <= spend /\ spend <= Budget

GateInv == GateTypeOK /\ Covered

LEMMA InitGateInv == GateInit => GateInv
<1> SUFFICES ASSUME GateInit PROVE GateInv
  OBVIOUS
<1>1. Counted = {}
  BY CreditAssumption DEF GateInit, Counted
<1> QED
  BY <1>1, TotalOfNone, CreditAssumption DEF GateInit, GateInv, GateTypeOK, Stages, Covered

LEMMA NextGateInv == GateInv /\ [GateNext]_gateVars => GateInv'
<1> SUFFICES ASSUME GateInv, [GateNext]_gateVars PROVE GateInv'
  OBVIOUS
<1> USE CreditAssumption
<1>1. CASE UNCHANGED gateVars
  BY <1>1 DEF GateInv, GateTypeOK, Covered, Counted, Total, Units, gateVars
<1>2. ASSUME NEW b \in Submissions,
             Reserve(b) \/ Refuse(b) \/ ReserveUnanswered(b) \/ Send(b) \/ SendRaises(b)
               \/ PollRaises(b) \/ ReturnResults(b) \/ Release(b) \/ RunLive(b) \/ Die(b)
      PROVE  GateInv'
  <2>1. /\ spend \in Nat /\ stage \in [Submissions -> Stages] /\ Counted \in SUBSET Submissions
        /\ Total(Counted) \in Nat /\ Total(Counted) <= spend /\ spend <= Budget
        /\ Cost[b] \in Nat /\ Budget \in Nat
    BY UnitsFinite DEF GateInv, GateTypeOK, Covered, Counted
  <2>2. CASE Reserve(b)
    <3>1. CASE b \in Gated
      <4>1. b \notin Counted /\ Counted' = Counted \cup {b}
        BY <2>1, <2>2, <3>1 DEF Reserve, Proceed, Counted
      <4>2. Total(Counted)' = Total(Counted) + Cost[b]
        BY <2>1, <4>1, TotalWithOne DEF Total, Units
      <4>3. spend' = spend + Cost[b] /\ spend + Cost[b] <= Budget
        BY <2>2, <3>1 DEF Reserve, Fits, Charge
      <4>4. stage' \in [Submissions -> Stages]
        BY <2>1, <2>2 DEF Reserve, Proceed, Stages
      <4> QED
        BY <2>1, <4>2, <4>3, <4>4 DEF GateInv, GateTypeOK, Covered
    <3>2. CASE b \notin Gated
      <4>1. Counted' = Counted /\ spend' = spend /\ stage' \in [Submissions -> Stages]
        BY <2>1, <2>2, <3>2 DEF Reserve, Proceed, Counted, Charge, Stages
      <4> QED
        BY <2>1, <4>1 DEF GateInv, GateTypeOK, Covered, Total, Units
    <3> QED
      BY <3>1, <3>2
  <2>3. CASE ReserveUnanswered(b)
    <3>1. Counted' = Counted /\ stage' \in [Submissions -> Stages]
      BY <2>1, <2>3 DEF ReserveUnanswered, Proceed, Counted, Stages
    <3>2. spend' = spend + Cost[b] /\ spend + Cost[b] <= Budget
      BY <2>3 DEF ReserveUnanswered, Fits, Charge
    <3> QED
      BY <2>1, <3>1, <3>2 DEF GateInv, GateTypeOK, Covered, Total, Units
  <2>4. CASE Release(b)
    <3>1. stage' \in [Submissions -> Stages]
      BY <2>1, <2>4 DEF Release, Proceed, Stages
    <3>2. CASE b \in Gated
      <4>1. b \in Counted /\ Counted' = Counted \ {b}
        BY <2>1, <2>4, <3>2 DEF Release, Proceed, Counted
      <4>2. (Counted \ {b}) \cup {b} = Counted
        BY <4>1
      <4>3. Total(Counted) = Total(Counted \ {b}) + Cost[b]
        BY <2>1, <4>2, TotalWithOne
      <4>4. Total(Counted \ {b}) \in Nat
        BY <2>1, UnitsFinite
      <4>5. Total(Counted)' = Total(Counted \ {b})
        BY <4>1 DEF Total, Units
      <4>6. spend' \in {spend, spend - Cost[b]}
        BY <2>4, <3>2 DEF Release
      <4> QED
        BY <2>1, <3>1, <4>3, <4>4, <4>5, <4>6 DEF GateInv, GateTypeOK, Covered
    <3>3. CASE b \notin Gated
      <4>1. Counted' = Counted /\ spend' = spend
        BY <2>1, <2>4, <3>3 DEF Release, Proceed, Counted
      <4> QED
        BY <2>1, <3>1, <4>1 DEF GateInv, GateTypeOK, Covered, Total, Units
    <3> QED
      BY <3>2, <3>3
  <2>5. CASE Refuse(b) \/ RunLive(b) \/ Send(b) \/ SendRaises(b) \/ PollRaises(b)
               \/ ReturnResults(b) \/ Die(b)
    <3>1. Counted' = Counted /\ spend' = spend
      BY <2>1, <2>5
      DEF Refuse, RunLive, Send, SendRaises, PollRaises, ReturnResults, Die, Proceed, Counted
    <3>2. stage' \in [Submissions -> Stages]
      BY <2>1, <2>5
      DEF Refuse, RunLive, Send, SendRaises, PollRaises, ReturnResults, Die, Proceed, Stages
    <3> QED
      BY <2>1, <3>1, <3>2 DEF GateInv, GateTypeOK, Covered, Total, Units
  <2> QED
    BY <1>2, <2>2, <2>3, <2>4, <2>5
<1> QED
  BY <1>1, <1>2 DEF GateNext

\* Every behaviour keeps the types; in particular credit#spend never falls
\* below zero, although release subtracts without a condition.
THEOREM GateTypeCorrect == GateSpec => []GateTypeOK
<1>1. GateInv => GateTypeOK
  BY DEF GateInv
<1> QED
  BY <1>1, InitGateInv, NextGateInv, PTL DEF GateSpec

\* The submissions that stand never cost more than the budget together.
THEOREM BudgetIsKept == GateSpec => []JointlyWithinBudget
<1>1. GateInv => JointlyWithinBudget
  <2> SUFFICES ASSUME GateInv PROVE JointlyWithinBudget
    OBVIOUS
  <2>1. Counted \in SUBSET Submissions
    BY CreditAssumption DEF Counted
  <2>2. Total(Counted) \in Nat
    BY <2>1, UnitsFinite
  <2> QED
    BY <2>2, CreditAssumption DEF GateInv, GateTypeOK, Covered, JointlyWithinBudget
<1> QED
  BY <1>1, InitGateInv, NextGateInv, PTL DEF GateSpec
===============================================================================
