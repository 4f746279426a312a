------------------------------ MODULE OcrProofs ------------------------------
(***************************************************************************)
(* Proofs about OcrJobs and OcrMerge, for any uploads, ranges, runs of the  *)
(* controller, scopes and faults:                                          *)
(*   - type correctness;                                                   *)
(*   - a starved job is terminated only with a copy, and has a second one   *)
(*     only if its own record was overwritten or deleted;                   *)
(*   - a claim is taken over only past jobs that were not in flight;        *)
(*   - what has succeeded reaches the chapter.                             *)
(***************************************************************************)
EXTENDS OcrMerge, TLAPS

(***************************************************************************)
(* Jobs and their copies.                                                  *)
(***************************************************************************)

\* A job is a triple, and its name a range.
LEMMA JobFacts ==
  /\ \A j \in Jobs : Name(j) \in Ranges
  /\ \A j \in Jobs, n \in 0..MaxMoves :
       Copy(j, n) \in Jobs /\ Name(Copy(j, n)) = Name(j) /\ (OnSpot(Copy(j, n)) <=> n = 0)
  /\ \A t \in Triggers, r \in Ranges : <<0, t, r>> \in SpotJobs
  /\ SpotJobs \subseteq Jobs
  /\ \A j \in Jobs : j \in SpotJobs <=> OnSpot(j)
  /\ 1 \in Ranges
  BY OcrAssumption DEF Jobs, Name, Copy, OnSpot, SpotJobs, Ranges

\* Copies of different jobs are different.
LEMMA CopyInjective ==
  \A j, k \in SpotJobs, m, n \in 0..MaxMoves : Copy(j, m) = Copy(k, n) => j = k /\ m = n
  BY OcrAssumption DEF Jobs, Copy, OnSpot, SpotJobs

LEMMA NextCopyFacts ==
  ASSUME NEW j \in SpotJobs, NEW d \in NextCopy(j)
  PROVE  d \in Jobs /\ job[d] = "none" /\ \E n \in 1..MaxMoves : d = Copy(j, n)
  <1>1. PICK n \in 1..MaxMoves : d = Copy(j, n) /\ job[Copy(j, n)] = "none"
    BY DEF NextCopy
  <1>2. n \in 0..MaxMoves
    BY <1>1
  <1> QED BY <1>1, <1>2, JobFacts

(***************************************************************************)
(* Types.                                                                  *)
(***************************************************************************)

Moving == {"get", "check", "overwrite", "submit", "terminate", "record", "release"}

\* A run at work on a job has a spot job in hand.
RunOK(r) ==
  /\ r \in Controller
  /\ r.at \in Moving => r.on \in SpotJobs
  /\ r.at # "cap" => r.todo \subseteq SpotJobs

UpOK(u) == u \in Upload /\ (u.at = "submit" => u.next <= scope.last)

\* A merge knows only what has been stored.
MergeOK(m) == m \in Merge /\ m.keys \subseteq output

TypeInv ==
  /\ scope \in Scope
  /\ scope \in Scopes
  /\ claim \in BOOLEAN
  /\ up \in [Triggers -> Upload]
  /\ \A t \in Triggers : UpOK(up[t])
  /\ job \in [Jobs -> Status]
  /\ retried \subseteq Jobs
  /\ waited \subseteq SpotJobs
  /\ output \subseteq Ranges
  /\ ctl \in [Ranges -> Record \cup {NoRecord}]
  /\ run \in [Runs -> Controller]
  /\ \A c \in Runs : RunOK(run[c])
  /\ faults \in 0..scope.faults
  /\ shaken \subseteq Jobs
  /\ merge \in [Jobs -> Merge]
  /\ \A j \in Jobs : MergeOK(merge[j])
  /\ content \subseteq output
  /\ lost \subseteq Ranges

LEMMA TypeInvTypes == TypeInv => TypeOK
  BY JobFacts DEF TypeInv, TypeOK, JobsTypeOK, UpOK

LEMMA ScopeFacts == TypeInv => scope.last \in Ranges /\ scope.faults \in Nat /\ scope.merging \in BOOLEAN
  BY DEF TypeInv, Scope

LEMMA RecordTypes ==
  /\ RunOK(Idle)
  /\ \A j \in Jobs \cup {Gone} : ClaimOf(j) \in Record
  /\ NoMerge \in Merge
  /\ \A n \in 0..MergeTries : Sent(n) \in Merge
  BY MergeAssumption DEF RunOK, Idle, Controller, Moving, ClaimOf, Record, NoMerge, Merge, Sent

LEMMA InitTypeInv == Init => TypeInv
  <1> SUFFICES ASSUME Init PROVE TypeInv
    OBVIOUS
  <1> USE DEF Init, JobsInit
  <1>1. scope \in Scopes /\ scope \in Scope /\ claim \in BOOLEAN
    BY OcrAssumption
  <1>2. [at |-> "off", next |-> 1, seen |-> {}] \in Upload
    BY DEF Upload
  <1>3. up \in [Triggers -> Upload] /\ \A t \in Triggers : UpOK(up[t])
    BY <1>2 DEF UpOK
  <1>4. job \in [Jobs -> Status]
    BY DEF Status
  <1>5. retried \subseteq Jobs /\ waited \subseteq SpotJobs /\ output \subseteq Ranges /\ shaken \subseteq Jobs
    OBVIOUS
  <1>6. ctl \in [Ranges -> Record \cup {NoRecord}]
    BY RecordTypes
  <1>7. run \in [Runs -> Controller] /\ \A c \in Runs : RunOK(run[c])
    BY RecordTypes DEF RunOK
  <1>8. faults \in 0..scope.faults
    BY <1>1 DEF Scope
  <1>9. merge \in [Jobs -> Merge] /\ \A j \in Jobs : MergeOK(merge[j])
    BY RecordTypes DEF MergeOK, NoMerge
  <1>10. content \subseteq output /\ lost \subseteq Ranges
    OBVIOUS
  <1> QED BY <1>1, <1>3, <1>4, <1>5, <1>6, <1>7, <1>8, <1>9, <1>10 DEF TypeInv

LEMMA FaultType == TypeInv /\ Fault /\ scope' = scope => faults' \in 0..scope'.faults
  BY ScopeFacts DEF TypeInv, Fault

LEMMA JobSet ==
  ASSUME TypeInv, NEW j, NEW s \in Status
  PROVE  [job EXCEPT ![j] = s] \in [Jobs -> Status]
  BY DEF TypeInv

LEMMA TriggerTypes == TypeInv /\ TriggerStep /\ UNCHANGED mergeVars => TypeInv'
  <1> SUFFICES ASSUME TypeInv, TriggerStep, UNCHANGED mergeVars PROVE TypeInv'
    OBVIOUS
  <1> USE DEF mergeVars
  <1>a. ASSUME NEW t \in Triggers, NEW u \in Upload, u.at = "submit" => u.next <= scope.last,
               up' = [up EXCEPT ![t] = u], claim' \in BOOLEAN, job' \in [Jobs -> Status],
               UNCHANGED faults \/ Fault, UpUnchanged
        PROVE  TypeInv'
    <2>1. up' \in [Triggers -> Upload] /\ \A v \in Triggers : UpOK(up[v])'
      BY <1>a DEF TypeInv, UpOK, UpUnchanged
    <2>2. faults' \in 0..scope'.faults
      BY <1>a, FaultType DEF TypeInv, UpUnchanged
    <2>3. /\ ctl' = ctl /\ run' = run /\ merge' = merge /\ output' = output
          /\ scope' = scope /\ retried' = retried /\ waited' = waited /\ shaken' = shaken
      BY <1>a DEF UpUnchanged
    <2> QED BY <1>a, <2>1, <2>2, <2>3 DEF TypeInv, RunOK, MergeOK
  <1> HIDE DEF mergeVars
  <1>b. \A t \in Triggers : up[t] \in Upload /\ UpOK(up[t])
    BY DEF TypeInv
  <1>c. job \in [Jobs -> Status] /\ claim \in BOOLEAN
    BY DEF TypeInv
  <1>d. LiveJobs \cap scope.shown \subseteq Jobs
    BY DEF LiveJobs
  <1>e. 1 <= scope.last /\ scope.last \in Nat
    BY ScopeFacts DEF Ranges
  <1>f. "runnable" \in Status
    BY DEF Status
  <1>1. CASE \E t \in Triggers : Intake(t)
    <2>1. PICK t \in Triggers : Intake(t)
      BY <1>1
    <2> DEFINE u == [at |-> IF claim THEN "look" ELSE "submit", next |-> 1,
                     seen |-> IF claim THEN LiveJobs \cap scope.shown ELSE {}]
    <2>2. u \in Upload /\ (u.at = "submit" => u.next <= scope.last)
      BY <1>d, <1>e DEF Upload
    <2>3. up' = [up EXCEPT ![t] = u] /\ claim' \in BOOLEAN /\ UpUnchanged /\ UNCHANGED <<job, faults>>
      BY <2>1 DEF Intake
    <2> HIDE DEF u
    <2> QED BY <1>a, <1>c, <2>2, <2>3
  <1>2. CASE \E t \in Triggers : Look(t)
    <2>1. PICK t \in Triggers : Look(t)
      BY <1>2
    <2>2. PICK u : /\ up' = [up EXCEPT ![t] = u]
                   /\ \/ u = [up[t] EXCEPT !.at = "end", !.seen = {}]
                      \/ u = [up[t] EXCEPT !.next = up[t].next + 1]
                      \/ u = [up[t] EXCEPT !.at = "reclaim", !.seen = {}]
      BY <2>1, <1>b DEF Look, TypeInv
    <2>3. up[t].at = "look" /\ UNCHANGED <<claim, job, faults>> /\ UpUnchanged
      BY <2>1 DEF Look
    <2>4. u \in Upload /\ u.at # "submit"
      <3>1. CASE u = [up[t] EXCEPT !.at = "end", !.seen = {}]
        BY <1>b, <3>1 DEF Upload
      <3>2. CASE u = [up[t] EXCEPT !.next = up[t].next + 1]
        <4>1. up[t] \in Upload /\ up[t].next + 1 \in Nat
          BY <1>b DEF Upload
        <4>2. u \in Upload
          BY <3>2, <4>1 DEF Upload
        <4>3. u.at = up[t].at
          BY <3>2, <4>1 DEF Upload
        <4> QED BY <2>3, <4>2, <4>3
      <3>3. CASE u = [up[t] EXCEPT !.at = "reclaim", !.seen = {}]
        BY <1>b, <3>3 DEF Upload
      <3> QED BY <2>2, <3>1, <3>2, <3>3
    <2> QED BY <1>a, <1>c, <2>2, <2>3, <2>4
  <1>3. CASE \E t \in Triggers : Reclaim(t)
    <2>1. PICK t \in Triggers : Reclaim(t)
      BY <1>3
    <2> DEFINE u == [up[t] EXCEPT !.at = "submit", !.next = 1]
    <2>2. u \in Upload /\ u.next <= scope.last
      BY <1>b, <1>e DEF Upload
    <2>3. up' = [up EXCEPT ![t] = u] /\ claim' \in BOOLEAN /\ UpUnchanged /\ UNCHANGED <<job, faults>>
      BY <2>1, <1>b DEF Reclaim, TypeInv
    <2> HIDE DEF u
    <2> QED BY <1>a, <1>c, <2>2, <2>3
  <1>4. CASE \E t \in Triggers : Submit(t)
    <2>1. PICK t \in Triggers : Submit(t)
      BY <1>4
    <2> DEFINE u == [up[t] EXCEPT !.at = IF up[t].next = scope.last THEN "end" ELSE "submit",
                                  !.next = up[t].next + 1]
    <2>2. up[t].at = "submit" /\ up[t].next \in Nat /\ up[t].next <= scope.last
      BY <1>b, <2>1 DEF Submit, UpOK, Upload
    <2>3. u \in Upload /\ (u.at = "submit" => u.next <= scope.last)
      <3>1. up[t].next + 1 \in Nat /\ up[t] \in Upload
        BY <1>b, <2>2
      <3>2. /\ u \in Upload
            /\ u.at = IF up[t].next = scope.last THEN "end" ELSE "submit"
            /\ u.next = up[t].next + 1
        <4>1. PICK a \in {"end", "submit"} : a = IF up[t].next = scope.last THEN "end" ELSE "submit"
          OBVIOUS
        <4>2. PICK n \in Nat : n = up[t].next + 1
          BY <3>1
        <4>3. PICK r \in Upload : r = up[t]
          BY <3>1
        <4>4. u = [r EXCEPT !.at = a, !.next = n]
          BY <4>1, <4>2, <4>3
        <4> HIDE DEF u
        <4>5. u \in Upload /\ u.at = a /\ u.next = n
          BY <4>4 DEF Upload
        <4> QED BY <4>1, <4>2, <4>5
      <3> QED BY <1>e, <2>2, <3>2
    <2>4. up' = [up EXCEPT ![t] = u] /\ UNCHANGED <<claim, faults>> /\ UpUnchanged
      BY <2>1, <1>b DEF Submit, TypeInv
    <2>5. job' \in [Jobs -> Status]
      BY <2>1, <1>f, JobSet DEF Submit
    <2> HIDE DEF u
    <2> QED BY <1>a, <1>c, <2>3, <2>4, <2>5
  <1>5. CASE \E t \in Triggers : SubmitRaises(t)
    <2>1. PICK t \in Triggers : SubmitRaises(t)
      BY <1>5
    <2> DEFINE u == [up[t] EXCEPT !.at = "end"]
    <2>2. u \in Upload /\ u.at # "submit"
      BY <1>b DEF Upload
    <2>3. up' = [up EXCEPT ![t] = u] /\ claim' \in BOOLEAN /\ Fault /\ UpUnchanged
      BY <2>1, <1>b DEF SubmitRaises, TypeInv
    <2>4. job' \in [Jobs -> Status]
      BY <2>1, <1>c, <1>f, JobSet DEF SubmitRaises
    <2> HIDE DEF u
    <2> QED BY <1>a, <2>2, <2>3, <2>4
  <1>6. CASE \E t \in Triggers : TriggerStops(t)
    <2>1. PICK t \in Triggers : TriggerStops(t)
      BY <1>6
    <2> DEFINE u == [up[t] EXCEPT !.at = "end", !.seen = {}]
    <2>2. u \in Upload /\ u.at # "submit"
      BY <1>b DEF Upload
    <2>3. up' = [up EXCEPT ![t] = u] /\ UNCHANGED <<claim, job>> /\ Fault /\ UpUnchanged
      BY <2>1, <1>b DEF TriggerStops, TypeInv
    <2> HIDE DEF u
    <2> QED BY <1>a, <1>c, <2>2, <2>3
  <1>7. CASE Expire
    <2>1. /\ claim' \in BOOLEAN /\ up' = up /\ job' = job /\ faults' = faults /\ ctl' = ctl
          /\ run' = run /\ output' = output /\ scope' = scope /\ retried' = retried
          /\ waited' = waited /\ shaken' = shaken
      BY <1>7 DEF Expire, UpUnchanged
    <2> QED BY <2>1 DEF TypeInv, UpOK, RunOK, MergeOK, mergeVars
  <1> QED BY <1>1, <1>2, <1>3, <1>4, <1>5, <1>6, <1>7 DEF TriggerStep

-----------------------------------------------------------------------------
\* What the jobs do by themselves; the last two announce their output.
JobStep(j) == Starve(j) \/ Begin(j) \/ AttemptFails(j) \/ PutOutput(j) \/ Succeed(j)

LEMMA JobTypes ==
  ASSUME TypeInv, NEW j \in Jobs, JobStep(j)
  PROVE  /\ scope' = scope /\ claim' = claim /\ ctl' = ctl /\ run' = run /\ shaken' = shaken
         /\ up' \in [Triggers -> Upload] /\ \A t \in Triggers : UpOK(up[t])'
         /\ job' \in [Jobs -> Status]
         /\ retried' \subseteq Jobs /\ waited' \subseteq SpotJobs /\ output' \subseteq Ranges
         /\ output \subseteq output'
         /\ faults' \in 0..scope'.faults
  <1>1. /\ scope' = scope /\ claim' = claim /\ ctl' = ctl /\ run' = run /\ shaken' = shaken
    BY DEF JobStep, Starve, Begin, AttemptFails, PutOutput, Succeed, BatchUnchanged
  <1>2. job' \in [Jobs -> Status]
    <2>1. job \in [Jobs -> Status] /\ {"running", "uploaded", "succeeded", "failed", "runnable"} \subseteq Status
      BY DEF TypeInv, Status
    <2> QED BY <2>1, JobSet DEF JobStep, Starve, Begin, AttemptFails, PutOutput, Succeed
  <1>3. /\ retried' \subseteq Jobs /\ waited' \subseteq SpotJobs /\ output' \subseteq Ranges
        /\ output \subseteq output'
    BY JobFacts DEF TypeInv, JobStep, Starve, Begin, AttemptFails, PutOutput, Succeed
  <1>4. faults' \in 0..scope'.faults
    BY <1>1, FaultType DEF TypeInv, JobStep, Starve, Begin, AttemptFails, PutOutput, Succeed
  <1>5. up' \in [Triggers -> Upload] /\ \A t \in Triggers : UpOK(up[t])'
    <2>1. CASE up' = up
      BY <1>1, <2>1 DEF TypeInv, UpOK
    <2>2. CASE up' = [t \in Triggers |-> [up[t] EXCEPT !.seen = up[t].seen \ {j}]]
      <3>1. \A t \in Triggers : LET u == [up[t] EXCEPT !.seen = up[t].seen \ {j}]
                                IN u \in Upload /\ u.at = up[t].at /\ u.next = up[t].next
        BY DEF TypeInv, Upload
      <3> QED BY <1>1, <2>2, <3>1 DEF TypeInv, UpOK
    <2> QED BY <2>1, <2>2 DEF JobStep, Starve, Begin, AttemptFails, PutOutput, Succeed
  <1> QED BY <1>1, <1>2, <1>3, <1>4, <1>5

-----------------------------------------------------------------------------
LEMMA BackOK ==
  ASSUME TypeInv, NEW c \in Runs, run[c].at # "cap"
  PROVE  RunOK(Back(c))
  BY DEF TypeInv, Back, RunOK, Controller, Moving

LEMMA TerminatedType ==
  ASSUME TypeInv, NEW j, NEW s \in {"moved", "capped"}
  PROVE  Terminated(j, s) \in [Jobs -> Status]
  <1>1. (IF job[j] \in Live THEN s ELSE job[j]) \in Status \/ j \notin Jobs
    BY DEF TypeInv, Status
  <1> QED BY <1>1 DEF Terminated, TypeInv

\* A run goes on: its own state is replaced by r.
Goes(c, r) == run' = [run EXCEPT ![c] = r] /\ RunOK(r)

LEMMA RunGoes ==
  ASSUME TypeInv, NEW c \in Runs, RunStep(c) \/ RunFault(c)
  PROVE  \E r : Goes(c, r)
  <1>1. run[c] \in Controller /\ RunOK(run[c])
    BY DEF TypeInv
  <1>2. RunOK(Idle)
    BY RecordTypes
  <1>3. run[c].at # "cap" => RunOK(Back(c))
    BY BackOK
  <1>4. CASE List(c)
    <2>1. run' = [run EXCEPT ![c] = [run[c] EXCEPT !.at = "route", !.todo = {j \in waited : job[j] = "runnable"}]]
      BY <1>4 DEF List, TypeInv
    <2>2. RunOK([run[c] EXCEPT !.at = "route", !.todo = {j \in waited : job[j] = "runnable"}])
      BY <1>4, <1>1, JobFacts DEF List, RunOK, Controller, Moving, TypeInv
    <2> QED BY <2>1, <2>2 DEF Goes
  <1>5. CASE Pick(c)
    <2>1. PICK j \in run[c].todo, a \in {"submit", "get"} :
            run' = [run EXCEPT ![c] = [run[c] EXCEPT !.at = a, !.on = j, !.todo = run[c].todo \ {j}]]
      BY <1>5 DEF Pick, TypeInv
    <2>2. RunOK([run[c] EXCEPT !.at = a, !.on = j, !.todo = run[c].todo \ {j}])
      <3>1. j \in SpotJobs /\ run[c].todo \ {j} \subseteq SpotJobs
        BY <1>5, <1>1 DEF Pick, RunOK
      <3> QED BY <1>1, <3>1, JobFacts DEF RunOK, Controller, Moving
    <2> QED BY <2>1, <2>2 DEF Goes
  <1>6. CASE Get(c)
    <2>1. PICK p : /\ p = NoJob \/ (ctl[Name(run[c].on)] # NoRecord /\ p = ctl[Name(run[c].on)].spot)
                   /\ run' = [run EXCEPT ![c] = IF p = run[c].on THEN Back(c)
                                                ELSE [run[c] EXCEPT !.at = "check", !.prior = p]]
      BY <1>6 DEF Get
    <2>2. run[c].at = "get" /\ run[c].on \in SpotJobs
      BY <1>6, <1>1 DEF Get, RunOK, Moving
    <2>3. p \in Jobs \cup {NoJob, Gone}
      <3>1. ctl[Name(run[c].on)] \in Record \cup {NoRecord}
        BY <2>2, JobFacts DEF TypeInv
      <3> QED BY <2>1, <3>1 DEF Record
    <2>4. RunOK([run[c] EXCEPT !.at = "check", !.prior = p])
      BY <1>1, <2>2, <2>3 DEF RunOK, Controller, Moving
    <2>5. CASE p = run[c].on
      BY <1>3, <2>1, <2>2, <2>5 DEF Goes
    <2>6. CASE p # run[c].on
      BY <2>1, <2>4, <2>6 DEF Goes
    <2> QED BY <2>5, <2>6
  <1>7. CASE Check(c)
    <2>1. \/ run' = [run EXCEPT ![c] = [run[c] EXCEPT !.at = "overwrite"]]
          \/ run' = [run EXCEPT ![c] = Back(c)]
      BY <1>7 DEF Check
    <2>2. RunOK([run[c] EXCEPT !.at = "overwrite"]) /\ run[c].at # "cap"
      BY <1>7, <1>1 DEF Check, RunOK, Controller, Moving
    <2> QED BY <1>3, <2>1, <2>2 DEF Goes
  <1>8. CASE Overwrite(c)
    <2>1. run' = [run EXCEPT ![c] = [run[c] EXCEPT !.at = "submit", !.prior = NoJob]]
      BY <1>8 DEF Overwrite, TypeInv
    <2>2. RunOK([run[c] EXCEPT !.at = "submit", !.prior = NoJob])
      BY <1>8, <1>1 DEF Overwrite, RunOK, Controller, Moving
    <2> QED BY <2>1, <2>2 DEF Goes
  <1>9. CASE Resubmit(c)
    <2>1. PICK d \in NextCopy(run[c].on) :
            run' = [run EXCEPT ![c] = [run[c] EXCEPT !.at = "terminate", !.od = d]]
      BY <1>9 DEF Resubmit, TypeInv
    <2>2. run[c].on \in SpotJobs
      BY <1>9, <1>1 DEF Resubmit, RunOK, Moving
    <2>3. d \in Jobs
      BY <2>2, NextCopyFacts
    <2>4. RunOK([run[c] EXCEPT !.at = "terminate", !.od = d])
      BY <1>9, <1>1, <2>2, <2>3 DEF Resubmit, RunOK, Controller, Moving
    <2> QED BY <2>1, <2>4 DEF Goes
  <1>10. CASE Terminate(c)
    <2>1. run' = [run EXCEPT ![c] = [run[c] EXCEPT !.at = "record"]]
      BY <1>10 DEF Terminate, TypeInv
    <2>2. RunOK([run[c] EXCEPT !.at = "record"])
      BY <1>10, <1>1 DEF Terminate, RunOK, Controller, Moving
    <2> QED BY <2>1, <2>2 DEF Goes
  <1>11. CASE Note(c)
    <2>1. run' = [run EXCEPT ![c] = Back(c)] /\ run[c].at # "cap"
      BY <1>11 DEF Note
    <2> QED BY <1>3, <2>1 DEF Goes
  <1>12. CASE Release(c)
    <2>1. run' = [run EXCEPT ![c] = Back(c)] /\ run[c].at # "cap"
      BY <1>12 DEF Release
    <2> QED BY <1>3, <2>1 DEF Goes
  <1>13. CASE Scan(c)
    <2>1. PICK read \in SUBSET Ranges :
            run' = [run EXCEPT ![c] = [run[c] EXCEPT !.at = "cap", !.todo = OverCap(read)]]
      BY <1>13 DEF Scan, TypeInv
    <2>2. RunOK([run[c] EXCEPT !.at = "cap", !.todo = OverCap(read)])
      BY <1>13, <1>1 DEF Scan, RunOK, Controller, Moving, OverCap
    <2> QED BY <2>1, <2>2 DEF Goes
  <1>14. CASE Cap(c)
    <2>1. PICK d : run' = [run EXCEPT ![c] = [run[c] EXCEPT !.todo = run[c].todo \ {d}]]
      BY <1>14 DEF Cap, TypeInv
    <2>2. RunOK([run[c] EXCEPT !.todo = run[c].todo \ {d}])
      BY <1>14, <1>1 DEF Cap, RunOK, Controller, Moving
    <2> QED BY <2>1, <2>2 DEF Goes
  <1>15. CASE CapFails(c)
    <2>1. PICK d : run' = [run EXCEPT ![c] = [run[c] EXCEPT !.todo = run[c].todo \ {d}]]
      BY <1>15 DEF CapFails, TypeInv
    <2>2. RunOK([run[c] EXCEPT !.todo = run[c].todo \ {d}])
      BY <1>15, <1>1 DEF CapFails, RunOK, Controller, Moving
    <2> QED BY <2>1, <2>2 DEF Goes
  <1>16. CASE Finish(c)
    BY <1>16, <1>2 DEF Finish, Goes
  <1>17. CASE RunDies(c)
    BY <1>17, <1>2 DEF RunDies, Goes
  <1>18. CASE CheckFails(c)
    <2>1. run' = [run EXCEPT ![c] = Back(c)] /\ run[c].at # "cap"
      BY <1>18 DEF CheckFails
    <2> QED BY <1>3, <2>1 DEF Goes
  <1>19. CASE MoveRaises(c)
    <2>1. run' = [run EXCEPT ![c] = [run[c] EXCEPT !.at = "release"]]
      BY <1>19 DEF MoveRaises, TypeInv
    <2>2. RunOK([run[c] EXCEPT !.at = "release"])
      BY <1>19, <1>1 DEF MoveRaises, RunOK, Controller, Moving
    <2> QED BY <2>1, <2>2 DEF Goes
  <1> QED BY <1>4, <1>5, <1>6, <1>7, <1>8, <1>9, <1>10, <1>11, <1>12, <1>13, <1>14, <1>15, <1>16, <1>17, <1>18, <1>19 DEF RunStep, RunFault

LEMMA RunKeepsRest ==
  ASSUME TypeInv, NEW c \in Runs, RunStep(c) \/ RunFault(c)
  PROVE  /\ RunUnchanged
         /\ job' \in [Jobs -> Status]
         /\ ctl' \in [Ranges -> Record \cup {NoRecord}]
         /\ shaken' \subseteq Jobs
         /\ UNCHANGED faults \/ Fault
  <1>1. RunUnchanged /\ (UNCHANGED faults \/ Fault)
    BY DEF RunStep, RunFault, List, Pick, Get, Check, Overwrite, Resubmit, Terminate, Note,
       Release, Scan, Cap, Finish, CheckFails, MoveRaises, CapFails, RunDies
  <1>2. job' \in [Jobs -> Status]
    <2>1. job \in [Jobs -> Status] /\ "runnable" \in Status
      BY DEF TypeInv, Status
    <2> QED BY <2>1, JobSet, TerminatedType
         DEF RunStep, RunFault, List, Pick, Get, Check, Overwrite, Resubmit, Terminate, Note,
         Release, Scan, Cap, Finish, CheckFails, MoveRaises, CapFails, RunDies
  <1>3. shaken' \subseteq Jobs
    <2>1. \A r : Owner(r) \subseteq Jobs
      BY DEF Owner
    <2> QED BY <2>1 DEF TypeInv, RunStep, RunFault, List, Pick, Get, Check, Overwrite, Resubmit,
         Terminate, Note, Release, Scan, Cap, Finish, CheckFails, MoveRaises, CapFails, RunDies
  <1>4. ctl' \in [Ranges -> Record \cup {NoRecord}]
    <2>1. run[c] \in Controller /\ ctl \in [Ranges -> Record \cup {NoRecord}]
      BY DEF TypeInv
    <2>2. RunOK(run[c])
      BY DEF TypeInv
    <2>3. CASE Pick(c)
      <3>1. PICK j \in run[c].todo :
              ctl' = [ctl EXCEPT ![Name(j)] = IF ctl[Name(j)] = NoRecord THEN ClaimOf(j) ELSE ctl[Name(j)]]
        BY <2>3 DEF Pick
      <3>2. ClaimOf(j) \in Record
        BY <2>1, RecordTypes DEF Controller
      <3> QED BY <2>1, <3>1, <3>2
    <2>4. CASE Overwrite(c)
      <3>1. ClaimOf(run[c].on) \in Record
        BY <2>2, <2>4, RecordTypes, JobFacts DEF Overwrite, RunOK, Moving
      <3> QED BY <2>1, <2>4, <3>1 DEF Overwrite
    <2>5. CASE Note(c)
      <3>1. run[c].od \in Jobs \cup {NoJob} /\ Name(run[c].on) \in Ranges
        BY <2>1, <2>2, <2>5, JobFacts DEF Note, RunOK, Moving, Controller
      <3>2. [spot |-> NoJob, od |-> run[c].od, age |-> "never"] \in Record
        BY <3>1 DEF Record
      <3>3. ctl[Name(run[c].on)] # NoRecord =>
              [ctl[Name(run[c].on)] EXCEPT !.od = run[c].od] \in Record
        BY <2>1, <3>1 DEF Record
      <3> QED BY <2>1, <2>5, <3>2, <3>3 DEF Note
    <2>6. CASE Release(c)
      BY <2>1, <2>6 DEF Release
    <2> QED BY <2>1, <2>3, <2>4, <2>5, <2>6 DEF RunStep, RunFault, List, Get, Check, Resubmit,
         Terminate, Scan, Cap, Finish, CheckFails, MoveRaises, CapFails, RunDies
  <1> QED BY <1>1, <1>2, <1>3, <1>4

LEMMA RunTypes ==
  ASSUME TypeInv, NEW c \in Runs, RunStep(c) \/ RunFault(c), UNCHANGED mergeVars
  PROVE  TypeInv'
  <1>1. PICK r : Goes(c, r)
    BY RunGoes
  <1>2. run' \in [Runs -> Controller] /\ \A d \in Runs : RunOK(run[d])'
    <2>1. run' = [run EXCEPT ![c] = r] /\ RunOK(r)
      BY <1>1 DEF Goes
    <2>2. r \in Controller
      BY <2>1 DEF RunOK
    <2>3. \A d \in Runs : run'[d] = run[d] \/ run'[d] = r
      BY <2>1 DEF TypeInv
    <2> QED BY <2>1, <2>2, <2>3 DEF TypeInv, RunOK
  <1>3. /\ RunUnchanged /\ job' \in [Jobs -> Status] /\ ctl' \in [Ranges -> Record \cup {NoRecord}]
        /\ shaken' \subseteq Jobs /\ (UNCHANGED faults \/ Fault)
    BY RunKeepsRest
  <1>4. faults' \in 0..scope'.faults
    BY <1>3, FaultType DEF TypeInv, RunUnchanged
  <1> QED BY <1>2, <1>3, <1>4 DEF TypeInv, UpOK, MergeOK, RunUnchanged, mergeVars

LEMMA AgeTypes ==
  ASSUME TypeInv, NEW r \in Ranges, Age(r), UNCHANGED mergeVars
  PROVE  TypeInv'
  <1>1. [ctl[r] EXCEPT !.age = "old"] \in Record
    BY DEF TypeInv, Age, Record
  <1>2. ctl' \in [Ranges -> Record \cup {NoRecord}]
    BY <1>1 DEF TypeInv, Age
  <1>3. /\ scope' = scope /\ claim' = claim /\ up' = up /\ job' = job /\ retried' = retried
        /\ waited' = waited /\ output' = output /\ run' = run /\ faults' = faults /\ shaken' = shaken
    BY DEF Age, RunUnchanged
  <1> QED BY <1>2, <1>3 DEF TypeInv, UpOK, RunOK, MergeOK, mergeVars

-----------------------------------------------------------------------------
MergeStep(j) ==
  \/ Store(j) \/ Announce(j) \/ Repeat(j) \/ ListKeys(j)
  \/ Promote(j) \/ TurnAway(j) \/ MergeFails(j)

LEMMA MergeTypes ==
  ASSUME TypeInv, NEW j \in Jobs, MergeStep(j)
  PROVE  TypeInv'
  <1>1. merge \in [Jobs -> Merge] /\ \A k \in Jobs : MergeOK(merge[k])
    BY DEF TypeInv
  <1>2. MergeOK(NoMerge) /\ \A n \in 0..MergeTries : MergeOK(Sent(n))
    BY RecordTypes DEF MergeOK, NoMerge, Sent
  <1>3. CASE Store(j)
    <2>1. \A k \in Jobs : LET m == [merge[k] EXCEPT !.late = merge[k].late \cup {Name(j)}]
                          IN m \in Merge /\ m.keys = merge[k].keys
      BY <1>1, JobFacts DEF Merge
    <2>2. PutOutput(j) /\ content' = content /\ lost' = lost
      BY <1>3 DEF Store
    <2>3. merge' \in [Jobs -> Merge]
      BY <1>1, <1>3, <2>1 DEF Store
    <2>4. \A k \in Jobs : merge'[k].keys = merge[k].keys
      BY <1>1, <1>3, <2>1 DEF Store
    <2>5. JobStep(j)
      BY <2>2 DEF JobStep
    <2>6. output \subseteq output'
      BY <2>5, JobTypes
    <2>7. \A k \in Jobs : MergeOK(merge[k])'
      BY <1>1, <2>3, <2>4, <2>6 DEF MergeOK
    <2> QED BY <2>2, <2>3, <2>5, <2>6, <2>7, JobTypes DEF TypeInv, RunOK
  <1>4. CASE Announce(j)
    <2>1. Succeed(j) /\ content' = content /\ lost' = lost
      BY <1>4 DEF Announce
    <2>2. JobStep(j)
      BY <2>1 DEF JobStep
    <2>3. PICK m : merge' = [merge EXCEPT ![j] = m] /\ (m = NoMerge \/ m = Sent(MergeTries))
      BY <1>4 DEF Announce
    <2>4. MergeOK(m)
      BY <1>2, <2>3, MergeAssumption
    <2>5. output' = output
      BY <2>1 DEF Succeed
    <2>6. merge' \in [Jobs -> Merge] /\ \A k \in Jobs : MergeOK(merge[k])'
      BY <1>1, <2>3, <2>4, <2>5 DEF MergeOK
    <2> QED BY <2>1, <2>2, <2>6, JobTypes DEF TypeInv, RunOK
  <1>5. ASSUME NEW m, MergeOK(m), merge' = [merge EXCEPT ![j] = m],
               content' \subseteq output, lost' \subseteq Ranges, UNCHANGED faults \/ Fault,
               UNCHANGED <<scope, claim, up, job, retried, waited, output, ctl, run, shaken>>
        PROVE  TypeInv'
    <2>1. merge' \in [Jobs -> Merge] /\ \A k \in Jobs : MergeOK(merge[k])'
      BY <1>1, <1>5 DEF MergeOK
    <2>2. faults' \in 0..scope'.faults
      BY <1>5, FaultType DEF TypeInv
    <2> QED BY <1>5, <2>1, <2>2 DEF TypeInv, UpOK, RunOK
  <1>6. content \subseteq output /\ lost \subseteq Ranges /\ output \subseteq Ranges
    BY DEF TypeInv
  <1>7. CASE Repeat(j)
    <2>1. merge' = [merge EXCEPT ![j] = Sent(MergeTries)] /\ MergeOK(Sent(MergeTries))
      BY <1>2, <1>7, MergeAssumption DEF Repeat
    <2> QED BY <1>5, <1>6, <1>7, <2>1 DEF Repeat
  <1>8. CASE ListKeys(j)
    <2> DEFINE m == [merge[j] EXCEPT !.at = "listed", !.keys = output]
    <2>1. MergeOK(m)
      BY <1>1, <1>6 DEF MergeOK, Merge
    <2>2. merge' = [merge EXCEPT ![j] = m]
      BY <1>1, <1>8 DEF ListKeys
    <2>3. /\ content' = content /\ lost' = lost /\ faults' = faults
          /\ UNCHANGED <<scope, claim, up, job, retried, waited, output, ctl, run, shaken>>
      BY <1>8 DEF ListKeys, jobVars
    <2> HIDE DEF m
    <2> QED BY <1>5, <1>6, <2>1, <2>2, <2>3
  <1>9. CASE Promote(j)
    <2>1. /\ merge' = [merge EXCEPT ![j] = NoMerge] /\ content' \subseteq output
          /\ lost' \subseteq Ranges
      BY <1>1, <1>6, <1>9 DEF Promote, MergeOK
    <2>2. faults' = faults /\ UNCHANGED <<scope, claim, up, job, retried, waited, output, ctl, run, shaken>>
      BY <1>9 DEF Promote, jobVars
    <2> QED BY <1>2, <1>5, <2>1, <2>2
  <1>10. CASE MergeFails(j)
    <2>1. PICK m : /\ merge' = [merge EXCEPT ![j] = m]
                   /\ m = IF merge[j].tries <= 1 THEN NoMerge ELSE Sent(merge[j].tries - 1)
      BY <1>10 DEF MergeFails
    <2>2. merge[j].tries \in 0..MergeTries
      BY <1>1 DEF Merge
    <2>3. MergeOK(m)
      BY <1>2, <2>1, <2>2, MergeAssumption
    <2>4. /\ content' = content /\ lost' \subseteq Ranges /\ Fault
          /\ UNCHANGED <<scope, claim, up, job, retried, waited, output, ctl, run, shaken>>
      BY <1>6, <1>10, JobFacts DEF MergeFails
    <2> QED BY <1>5, <1>6, <2>1, <2>3, <2>4
  <1>11. CASE TurnAway(j)
    <2>1. merge' = [merge EXCEPT ![j] = NoMerge] /\ content' = content /\ lost' \subseteq Ranges
      BY <1>1, <1>6, <1>11 DEF TurnAway, MergeOK
    <2>2. faults' = faults /\ UNCHANGED <<scope, claim, up, job, retried, waited, output, ctl, run, shaken>>
      BY <1>11 DEF TurnAway, jobVars
    <2> QED BY <1>2, <1>5, <1>6, <2>1, <2>2
  <1> QED BY <1>3, <1>4, <1>7, <1>8, <1>9, <1>10, <1>11 DEF MergeStep

LEMMA NextCases ==
  ASSUME TypeInv, [Next]_vars
  PROVE  \/ TriggerStep /\ UNCHANGED mergeVars
         \/ \E j \in Jobs : (Starve(j) \/ Begin(j) \/ AttemptFails(j)) /\ UNCHANGED mergeVars
         \/ \E c \in Runs : (RunStep(c) \/ RunFault(c)) /\ UNCHANGED mergeVars
         \/ \E r \in Ranges : Age(r) /\ UNCHANGED mergeVars
         \/ \E j \in Jobs : MergeStep(j)
         \/ UNCHANGED vars
  BY DEF Next, JobsStep, MergeStep

LEMMA NextTypeInv == TypeInv /\ [Next]_vars => TypeInv'
  <1> SUFFICES ASSUME TypeInv, [Next]_vars PROVE TypeInv'
    OBVIOUS
  <1>1. ASSUME NEW j \in Jobs, Starve(j) \/ Begin(j) \/ AttemptFails(j), UNCHANGED mergeVars
        PROVE  TypeInv'
    <2>1. JobStep(j)
      BY <1>1 DEF JobStep
    <2>2. output' = output
      BY <1>1 DEF Starve, Begin, AttemptFails
    <2> QED BY <1>1, <2>1, <2>2, JobTypes DEF TypeInv, RunOK, MergeOK, mergeVars
  <1>2. CASE UNCHANGED vars
    BY <1>2 DEF vars, jobVars, mergeVars, TypeInv, UpOK, RunOK, MergeOK
  <1> QED BY <1>1, <1>2, TriggerTypes, RunTypes, AgeTypes, MergeTypes, NextCases

LEMMA Typed == Spec => []TypeInv
  BY InitTypeInv, NextTypeInv, PTL DEF Spec

\* Every behaviour keeps the types.
THEOREM TypeCorrect == Spec => []TypeOK
  BY Typed, TypeInvTypes, PTL

(***************************************************************************)
(* Moves.                                                                  *)
(***************************************************************************)

HasCopy(j, n) == job[Copy(j, n)] # "none"
Copied(j) == \E n \in 1..MaxMoves : HasCopy(j, n)
OneCopy(j) == \A m, n \in 1..MaxMoves : HasCopy(j, m) /\ HasCopy(j, n) => m = n
Claimed(j) == ctl[Name(j)] # NoRecord /\ ctl[Name(j)].spot = j
Submitting(c, j) == run[c].at = "submit" /\ run[c].on = j

\* A run terminates a job after it has submitted its copy.
CopyFirst ==
  /\ \A c \in Runs : run[c].at = "terminate" => Copied(run[c].on)
  /\ \A j \in SpotJobs : job[j] = "moved" => Copied(j)

\* While nobody disturbs the record of a job, it stands for its only copy, or
\* for the one run that is about to submit it.
RecordStands ==
  \A j \in SpotJobs \ shaken :
    /\ OneCopy(j)
    /\ Copied(j) => Claimed(j)
    /\ \A c \in Runs : Submitting(c, j) => Claimed(j) /\ ~Copied(j)
    /\ \A c, d \in Runs : Submitting(c, j) /\ Submitting(d, j) => c = d

MoveInv == CopyFirst /\ RecordStands

LEMMA InitMoveInv == Init => MoveInv
  BY JobFacts DEF Init, JobsInit, MoveInv, CopyFirst, RecordStands, HasCopy, Copied, OneCopy, Submitting, Idle

LEMMA MoveInvMoved == MoveInv => MovedOnce
  <1> SUFFICES ASSUME MoveInv, NEW j \in SpotJobs
               PROVE  /\ job[j] = "moved" => \E n \in 1..MaxMoves : job[Copy(j, n)] # "none"
                      /\ \/ j \in shaken
                         \/ \A m, n \in 1..MaxMoves :
                              job[Copy(j, m)] # "none" /\ job[Copy(j, n)] # "none" => m = n
    BY DEF MovedOnce
  <1> QED BY DEF MoveInv, CopyFirst, RecordStands, Copied, OneCopy, HasCopy

\* Copies appear only when a run submits one, and no job is forgotten.
SameCopies == \A j \in SpotJobs, n \in 1..MaxMoves : HasCopy(j, n)' <=> HasCopy(j, n)
NoneMoved == \A j \in SpotJobs : job'[j] = "moved" => job[j] = "moved"

LEMMA SameCopiesFacts ==
  ASSUME SameCopies, NEW j \in SpotJobs
  PROVE  (Copied(j)' <=> Copied(j)) /\ (OneCopy(j)' <=> OneCopy(j))
  BY DEF SameCopies, Copied, OneCopy

\* What changes neither copies nor records nor runs.
SameClaims == \A j \in SpotJobs : Claimed(j)' <=> Claimed(j)

LEMMA QuietMove ==
  ASSUME TypeInv, MoveInv, SameCopies, NoneMoved, SameClaims, UNCHANGED <<run, shaken>>
  PROVE  MoveInv'
  <1>1. \A j \in SpotJobs : (Copied(j)' <=> Copied(j)) /\ (OneCopy(j)' <=> OneCopy(j))
    BY SameCopiesFacts
  <1>2. /\ \A j \in SpotJobs : Claimed(j)' <=> Claimed(j)
        /\ \A j : \A c : Submitting(c, j)' <=> Submitting(c, j)
    BY DEF SameClaims, Submitting
  <1>3. \A c \in Runs : run[c].at = "terminate" => run[c].on \in SpotJobs
    BY DEF TypeInv, RunOK, Moving
  <1>4. CopyFirst'
    BY <1>1, <1>3 DEF MoveInv, CopyFirst, NoneMoved
  <1>5. RecordStands'
    BY <1>1, <1>2 DEF MoveInv, RecordStands
  <1> QED BY <1>4, <1>5 DEF MoveInv

LEMMA CopiesAreJobs ==
  \A j \in SpotJobs, n \in 1..MaxMoves :
    Copy(j, n) \in Jobs /\ ~OnSpot(Copy(j, n)) /\ Copy(j, n) \notin SpotJobs
  BY JobFacts, OcrAssumption

\* A job that is there changes its status, or a trigger submits one.
LEMMA StatusChange ==
  ASSUME TypeInv, NEW k, NEW s \in Status \ {"none"},
         job' = [job EXCEPT ![k] = s], OnSpot(k) \/ (k \in Jobs /\ job[k] # "none")
  PROVE  SameCopies /\ (s # "moved" => NoneMoved)
  <1>1. job \in [Jobs -> Status]
    BY DEF TypeInv
  <1>2. \A i \in Jobs : job'[i] = job[i] \/ (i = k /\ job'[i] = s)
    BY <1>1
  <1>3. s # "moved" => NoneMoved
    BY <1>2, JobFacts DEF NoneMoved
  <1>4. ASSUME NEW j \in SpotJobs, NEW n \in 1..MaxMoves
        PROVE  HasCopy(j, n)' <=> HasCopy(j, n)
    <2>1. Copy(j, n) \in Jobs /\ ~OnSpot(Copy(j, n))
      BY CopiesAreJobs
    <2>2. CASE Copy(j, n) = k
      <3>1. job[Copy(j, n)] # "none" /\ job'[Copy(j, n)] = s
        BY <1>1, <2>1, <2>2
      <3> QED BY <3>1 DEF HasCopy
    <2>3. CASE Copy(j, n) # k
      BY <1>2, <2>1, <2>3 DEF HasCopy
    <2> QED BY <2>2, <2>3
  <1> QED BY <1>3, <1>4 DEF SameCopies

LEMMA NoStatusChange == job' = job => SameCopies /\ NoneMoved
  BY DEF SameCopies, NoneMoved, HasCopy

LEMMA SameCtl == ctl' = ctl => SameClaims
  BY DEF SameClaims, Claimed

LEMMA TriggerMove == TypeInv /\ MoveInv /\ TriggerStep => MoveInv'
  <1> SUFFICES ASSUME TypeInv, MoveInv, TriggerStep PROVE MoveInv'
    OBVIOUS
  <1>1. UNCHANGED <<ctl, run, shaken>>
    BY DEF TriggerStep, Intake, Look, Reclaim, Submit, SubmitRaises, TriggerStops, Expire, UpUnchanged
  <1>2. job' = job \/ \E t \in Triggers, n \in Nat : job' = [job EXCEPT ![<<0, t, n>>] = "runnable"]
    <2>1. \A t \in Triggers : up[t].next \in Nat
      BY DEF TypeInv, Upload
    <2> QED BY <2>1 DEF TriggerStep, Intake, Look, Reclaim, Submit, SubmitRaises, TriggerStops, Expire
  <1>3. SameCopies /\ NoneMoved
    <2>1. ASSUME NEW t \in Triggers, NEW n \in Nat, job' = [job EXCEPT ![<<0, t, n>>] = "runnable"]
          PROVE  SameCopies /\ NoneMoved
      <3>1. OnSpot(<<0, t, n>>) /\ "runnable" \in Status \ {"none", "moved"}
        BY DEF OnSpot, Status
      <3>2. PICK k : k = <<0, t, n>>
        OBVIOUS
      <3> QED BY <2>1, <3>1, <3>2, StatusChange
    <2> QED BY <1>2, <2>1, NoStatusChange
  <1> QED BY <1>1, <1>3, SameCtl, QuietMove

LEMMA JobMove ==
  ASSUME TypeInv, MoveInv, NEW j \in Jobs, JobStep(j)
  PROVE  MoveInv'
  <1>1. UNCHANGED <<ctl, run, shaken>>
    BY DEF JobStep, Starve, Begin, AttemptFails, PutOutput, Succeed, BatchUnchanged
  <1>2. job' = job \/ (job[j] # "none" /\ \E s \in Status \ {"none", "moved"} : job' = [job EXCEPT ![j] = s])
    BY DEF JobStep, Starve, Begin, AttemptFails, PutOutput, Succeed, Status
  <1>3. SameCopies /\ NoneMoved
    BY <1>2, StatusChange, NoStatusChange
  <1> QED BY <1>1, <1>3, SameCtl, QuietMove

-----------------------------------------------------------------------------
\* A run takes another step: what the others do stays.
LEMMA OthersRun ==
  ASSUME TypeInv, NEW c \in Runs, NEW r, run' = [run EXCEPT ![c] = r]
  PROVE  /\ run'[c] = r
         /\ \A d \in Runs \ {c} : run'[d] = run[d]
  BY DEF TypeInv

\* A run that neither submits nor terminates nor writes a record.
LEMMA QuietRun ==
  ASSUME TypeInv, MoveInv, SameCopies, NoneMoved, SameClaims, UNCHANGED shaken,
         NEW c \in Runs, NEW r, run' = [run EXCEPT ![c] = r], r.at \notin {"submit", "terminate"}
  PROVE  MoveInv'
  <1>1. \A j \in SpotJobs : (Copied(j)' <=> Copied(j)) /\ (OneCopy(j)' <=> OneCopy(j))
    BY SameCopiesFacts
  <1>2. \A j \in SpotJobs : Claimed(j)' <=> Claimed(j)
    BY DEF SameClaims
  <1>3. run'[c] = r /\ \A d \in Runs \ {c} : run'[d] = run[d]
    BY OthersRun
  <1>4. \A j : \A d \in Runs : Submitting(d, j)' => Submitting(d, j)
    BY <1>3 DEF Submitting
  <1>5. \A d \in Runs : run'[d].at = "terminate" =>
          run[d].at = "terminate" /\ run'[d].on = run[d].on /\ run[d].on \in SpotJobs
    BY <1>3 DEF TypeInv, RunOK, Moving
  <1>6. CopyFirst'
    BY <1>1, <1>5 DEF MoveInv, CopyFirst, NoneMoved
  <1>7. RecordStands'
    BY <1>1, <1>2, <1>4 DEF MoveInv, RecordStands
  <1> QED BY <1>6, <1>7 DEF MoveInv

\* A run writes the record of n, which then stands for the job it will move;
\* the record was nobody's who is not shaken by that.
LEMMA RecordChange ==
  ASSUME TypeInv, MoveInv, SameCopies, NoneMoved, shaken \subseteq shaken',
         NEW c \in Runs, NEW r, run' = [run EXCEPT ![c] = r], r.at # "terminate",
         NEW n \in Ranges, NEW x, ctl' = [ctl EXCEPT ![n] = x],
         \A i \in SpotJobs \ shaken' : Claimed(i) => Name(i) # n,
         r.at = "submit" => r.on \in SpotJobs /\ Name(r.on) = n /\ x # NoRecord /\ x.spot = r.on
  PROVE  MoveInv'
  <1>1. \A j \in SpotJobs : (Copied(j)' <=> Copied(j)) /\ (OneCopy(j)' <=> OneCopy(j))
    BY SameCopiesFacts
  <1>2. ctl'[n] = x /\ \A m \in Ranges \ {n} : ctl'[m] = ctl[m]
    BY DEF TypeInv
  <1>3. \A i \in SpotJobs \ shaken' : Claimed(i) => Claimed(i)'
    BY <1>2, JobFacts DEF Claimed
  <1>4. run'[c] = r /\ \A d \in Runs \ {c} : run'[d] = run[d]
    BY OthersRun
  <1>5. \A d \in Runs : run'[d].at = "terminate" =>
          run[d].at = "terminate" /\ run'[d].on = run[d].on /\ run[d].on \in SpotJobs
    BY <1>4 DEF TypeInv, RunOK, Moving
  <1>6. CopyFirst'
    BY <1>1, <1>5 DEF MoveInv, CopyFirst, NoneMoved
  <1>7. \A j : \A d \in Runs \ {c} : Submitting(d, j)' <=> Submitting(d, j)
    BY <1>4 DEF Submitting
  <1>8. \A j : Submitting(c, j)' => j \in SpotJobs /\ Name(j) = n /\ Claimed(j)'
    BY <1>2, <1>4 DEF Submitting, Claimed
  <1>9. ASSUME NEW j \in SpotJobs, j \notin shaken'
        PROVE  /\ OneCopy(j)'
               /\ Copied(j)' => Claimed(j)'
               /\ \A d \in Runs : Submitting(d, j)' => Claimed(j)' /\ ~Copied(j)'
               /\ \A d, e \in Runs : Submitting(d, j)' /\ Submitting(e, j)' => d = e
    <2>1. j \in SpotJobs \ shaken
      BY <1>9
    <2>2. /\ OneCopy(j)
          /\ Copied(j) => Claimed(j)
          /\ \A d \in Runs : Submitting(d, j) => Claimed(j) /\ ~Copied(j)
          /\ \A d, e \in Runs : Submitting(d, j) /\ Submitting(e, j) => d = e
      BY <2>1 DEF MoveInv, RecordStands
    <2>3. Claimed(j) => Claimed(j)' /\ Name(j) # n
      BY <1>3, <1>9
    <2>4. Submitting(c, j)' => ~Claimed(j) /\ Claimed(j)'
      BY <1>8, <2>3
    <2> QED BY <1>1, <1>7, <2>2, <2>3, <2>4
  <1>10. RecordStands'
    BY <1>9 DEF RecordStands
  <1> QED BY <1>6, <1>10 DEF MoveInv

\* A run submits a copy of its job.
LEMMA SubmitCopy ==
  ASSUME TypeInv, MoveInv, NEW c \in Runs, run[c].at = "submit", UNCHANGED <<ctl, shaken>>,
         NEW r, run' = [run EXCEPT ![c] = r], r.at # "submit", r.on = run[c].on,
         NEW d \in NextCopy(run[c].on), job' = [job EXCEPT ![d] = "runnable"]
  PROVE  MoveInv'
  <1>1. PICK k \in SpotJobs : k = run[c].on
    BY DEF TypeInv, RunOK, Moving
  <1>2. PICK n \in 1..MaxMoves : d = Copy(k, n) /\ d \in Jobs /\ job[d] = "none"
    BY <1>1, NextCopyFacts
  <1>3. \A i \in Jobs : job'[i] = IF i = d THEN "runnable" ELSE job[i]
    BY DEF TypeInv
  <1>4. \A j \in SpotJobs, m \in 1..MaxMoves : HasCopy(j, m)' <=> (HasCopy(j, m) \/ (j = k /\ m = n))
    <2>1. ASSUME NEW j \in SpotJobs, NEW m \in 1..MaxMoves
          PROVE  HasCopy(j, m)' <=> (HasCopy(j, m) \/ (j = k /\ m = n))
      <3>1. Copy(j, m) \in Jobs /\ m \in 0..MaxMoves /\ n \in 0..MaxMoves
        BY CopiesAreJobs
      <3>2. Copy(j, m) = d <=> (j = k /\ m = n)
        BY <1>1, <1>2, <3>1, CopyInjective
      <3> QED BY <1>3, <3>1, <3>2 DEF HasCopy
    <2> QED BY <2>1
  <1>5. \A j \in SpotJobs : /\ Copied(j) => Copied(j)'
                            /\ j # k => (Copied(j)' <=> Copied(j)) /\ (OneCopy(j)' <=> OneCopy(j))
    BY <1>4 DEF Copied, OneCopy
  <1>6. Copied(k)' /\ (~Copied(k) => OneCopy(k)')
    BY <1>1, <1>4 DEF Copied, OneCopy
  <1>7. run'[c] = r /\ \A e \in Runs \ {c} : run'[e] = run[e]
    BY OthersRun
  <1>8. \A j \in SpotJobs : job'[j] = "moved" => job[j] = "moved"
    BY <1>3, JobFacts
  <1>9. CopyFirst'
    <2>1. ASSUME NEW e \in Runs, run'[e].at = "terminate"
          PROVE  Copied(run[e].on)'
      <3>1. CASE e = c
        BY <1>1, <1>6, <1>7, <3>1
      <3>2. CASE e # c
        <4>1. run[e].on \in SpotJobs /\ Copied(run[e].on) /\ run'[e].on = run[e].on
          BY <1>7, <2>1, <3>2 DEF TypeInv, RunOK, Moving, MoveInv, CopyFirst
        <4> QED BY <1>5, <1>6, <4>1
      <3> QED BY <3>1, <3>2
    <2> QED BY <1>5, <1>7, <1>8, <2>1 DEF MoveInv, CopyFirst
  <1>10. \A j : Claimed(j)' <=> Claimed(j)
    BY DEF Claimed
  <1>11. \A j : \A e \in Runs : Submitting(e, j)' <=> (Submitting(e, j) /\ e # c)
    BY <1>7 DEF Submitting
  <1>12. Submitting(c, k)
    BY <1>1 DEF Submitting
  <1>13. ASSUME NEW j \in SpotJobs \ shaken
         PROVE  /\ OneCopy(j)'
                /\ Copied(j)' => Claimed(j)'
                /\ \A e \in Runs : Submitting(e, j)' => Claimed(j)' /\ ~Copied(j)'
                /\ \A e, f \in Runs : Submitting(e, j)' /\ Submitting(f, j)' => e = f
    <2>1. /\ OneCopy(j)
          /\ Copied(j) => Claimed(j)
          /\ \A e \in Runs : Submitting(e, j) => Claimed(j) /\ ~Copied(j)
          /\ \A e, f \in Runs : Submitting(e, j) /\ Submitting(f, j) => e = f
      BY DEF MoveInv, RecordStands
    <2>2. CASE j = k
      BY <1>6, <1>10, <1>11, <1>12, <2>1, <2>2
    <2>3. CASE j # k
      BY <1>5, <1>10, <1>11, <2>1, <2>3
    <2> QED BY <2>2, <2>3
  <1>14. RecordStands'
    BY <1>13 DEF RecordStands
  <1> QED BY <1>9, <1>14 DEF MoveInv

\* A run terminates the job whose copy it has submitted.
LEMMA TerminateMove ==
  ASSUME TypeInv, MoveInv, NEW c \in Runs, Terminate(c)
  PROVE  MoveInv'
  <1> DEFINE k == run[c].on
  <1>1. k \in SpotJobs /\ run[c].at = "terminate" /\ Copied(k)
    BY DEF Terminate, TypeInv, RunOK, Moving, MoveInv, CopyFirst
  <1>2. PICK r : run' = [run EXCEPT ![c] = r] /\ r.at = "record"
    <2>1. run[c] \in Controller /\ run \in [Runs -> Controller]
      BY DEF TypeInv
    <2> DEFINE r == [run[c] EXCEPT !.at = "record"]
    <2>2. r.at = "record"
      BY <2>1 DEF Controller
    <2>3. run' = [run EXCEPT ![c] = r]
      BY <2>1 DEF Terminate
    <2> QED BY <2>2, <2>3
  <1>3. /\ \A j \in SpotJobs : job'[j] = "moved" => job[j] = "moved" \/ j = k
        /\ SameCopies
    <2>1. job \in [Jobs -> Status] /\ k \in Jobs
      BY <1>1, JobFacts DEF TypeInv
    <2>2. job' = [job EXCEPT ![k] = IF job[k] \in Live THEN "moved" ELSE job[k]]
      BY DEF Terminate, Terminated
    <2>3. CASE job[k] \in Live
      <3>1. job' = [job EXCEPT ![k] = "moved"] /\ job[k] # "none" /\ "moved" \in Status \ {"none"}
        BY <2>2, <2>3 DEF Live, Status
      <3>2. SameCopies
        BY <2>1, <3>1, StatusChange
      <3> QED BY <2>1, <3>1, <3>2, JobFacts
    <2>4. CASE job[k] \notin Live
      <3>1. job' = job
        BY <2>1, <2>2, <2>4
      <3> QED BY <3>1, NoStatusChange
    <2> QED BY <2>3, <2>4
  <1>4. \A j \in SpotJobs : (Copied(j)' <=> Copied(j)) /\ (OneCopy(j)' <=> OneCopy(j))
    BY <1>3, SameCopiesFacts
  <1>5. \A j : Claimed(j)' <=> Claimed(j)
    BY DEF Claimed, Terminate
  <1>6. run'[c] = r /\ \A d \in Runs \ {c} : run'[d] = run[d]
    BY <1>2, OthersRun
  <1>7. \A j : \A d \in Runs : Submitting(d, j)' => Submitting(d, j)
    BY <1>2, <1>6 DEF Submitting
  <1>8. \A d \in Runs : run'[d].at = "terminate" =>
          run[d].at = "terminate" /\ run'[d].on = run[d].on /\ run[d].on \in SpotJobs
    BY <1>2, <1>6 DEF TypeInv, RunOK, Moving
  <1>9. CopyFirst'
    BY <1>1, <1>3, <1>4, <1>8 DEF MoveInv, CopyFirst
  <1>10. shaken' = shaken
    BY DEF Terminate
  <1>11. RecordStands'
    BY <1>4, <1>5, <1>7, <1>10 DEF MoveInv, RecordStands
  <1> QED BY <1>9, <1>11 DEF MoveInv
\* One step of a run, or a fault of one.
LEMMA RunMove ==
  ASSUME TypeInv, MoveInv, NEW c \in Runs, RunStep(c) \/ RunFault(c)
  PROVE  MoveInv'
  <1>1. run[c] \in Controller /\ RunOK(run[c]) /\ run \in [Runs -> Controller]
    BY DEF TypeInv
  <1>2. Back(c).at = "route" /\ Idle.at = "off"
    BY <1>1 DEF Back, Idle, Controller
  <1>3. ASSUME NEW r, run' = [run EXCEPT ![c] = r], r.at \notin {"submit", "terminate"},
               job' = job, ctl' = ctl, shaken' = shaken
        PROVE  MoveInv'
    BY <1>3, QuietRun, NoStatusChange, SameCtl
  <1>4. CASE List(c) \/ Get(c) \/ Check(c) \/ CheckFails(c) \/ Scan(c) \/ CapFails(c) \/ Finish(c) \/ RunDies(c)
    <2>1. job' = job /\ ctl' = ctl /\ shaken' = shaken
      BY <1>4 DEF List, Get, Check, CheckFails, Scan, CapFails, Finish, RunDies
    <2>2. \E r : run' = [run EXCEPT ![c] = r] /\ r.at \notin {"submit", "terminate"}
      <3>1. CASE List(c)
        <4>1. run' = [run EXCEPT ![c] = [run[c] EXCEPT !.at = "route", !.todo = {j \in waited : job[j] = "runnable"}]]
          BY <1>1, <3>1 DEF List
        <4>2. [run[c] EXCEPT !.at = "route", !.todo = {j \in waited : job[j] = "runnable"}].at = "route"
          BY <1>1 DEF Controller
        <4> QED BY <4>1, <4>2
      <3>2. CASE Get(c)
        <4>1. \E p : run' = [run EXCEPT ![c] = IF p = run[c].on THEN Back(c)
                                              ELSE [run[c] EXCEPT !.at = "check", !.prior = p]]
          BY <3>2 DEF Get
        <4>2. \A p : [run[c] EXCEPT !.at = "check", !.prior = p].at = "check"
          BY <1>1 DEF Controller
        <4> QED BY <1>2, <4>1, <4>2
      <3>3. CASE Check(c) \/ CheckFails(c)
        BY <1>1, <1>2, <3>3 DEF Check, CheckFails, Controller
      <3>4. CASE Scan(c) \/ CapFails(c)
        <4>2. /\ \A s : [run[c] EXCEPT !.at = "cap", !.todo = s].at = "cap"
              /\ CapFails(c) => \A s : [run[c] EXCEPT !.todo = s].at = "cap"
          BY <1>1 DEF Controller, CapFails
        <4>3. CASE Scan(c)
          <5>1. \E s : run' = [run EXCEPT ![c] = [run[c] EXCEPT !.at = "cap", !.todo = s]]
            BY <1>1, <4>3 DEF Scan
          <5> QED BY <1>1, <4>2, <5>1
        <4>4. CASE CapFails(c)
          <5>1. \E s : run' = [run EXCEPT ![c] = [run[c] EXCEPT !.todo = s]]
            BY <1>1, <4>4 DEF CapFails
          <5> QED BY <4>2, <4>4, <5>1
        <4> QED BY <3>4, <4>3, <4>4
      <3>5. CASE Finish(c) \/ RunDies(c)
        BY <1>2, <3>5 DEF Finish, RunDies
      <3> QED BY <1>4, <3>1, <3>2, <3>3, <3>4, <3>5
    <2> QED BY <1>3, <2>1, <2>2
  <1>5. CASE Cap(c)
    <2>1. PICK d \in Jobs : /\ job' = Terminated(d, "capped")
                            /\ run' = [run EXCEPT ![c].todo = run[c].todo \ {d}]
      BY <1>1, <1>5 DEF Cap, Controller
    <2>2. \E r : run' = [run EXCEPT ![c] = r] /\ r.at \notin {"submit", "terminate"}
      <3>1. run' = [run EXCEPT ![c] = [run[c] EXCEPT !.todo = run[c].todo \ {d}]]
        BY <1>1, <2>1
      <3>2. [run[c] EXCEPT !.todo = run[c].todo \ {d}].at = "cap"
        BY <1>1, <1>5 DEF Cap, Controller
      <3> QED BY <3>1, <3>2
    <2>3. SameCopies /\ NoneMoved
      <3>1. CASE job[d] \in Live
        <4>1. job' = [job EXCEPT ![d] = "capped"] /\ job[d] # "none"
          BY <2>1, <3>1 DEF Terminated, Live
        <4>2. "capped" \in Status \ {"none"} /\ "capped" # "moved"
          BY DEF Status
        <4> QED BY <4>1, <4>2, StatusChange
      <3>2. CASE job[d] \notin Live
        <4>1. job' = job
          BY <2>1, <3>2 DEF Terminated, TypeInv
        <4> QED BY <4>1, NoStatusChange
      <3> QED BY <3>1, <3>2
    <2> QED BY <1>5, <2>2, <2>3, QuietRun, SameCtl DEF Cap
  <1>6. CASE Pick(c)
    <2>1. PICK j \in SpotJobs :
            /\ run' = [run EXCEPT ![c].at = IF ctl[Name(j)] = NoRecord THEN "submit" ELSE "get",
                                  ![c].on = j, ![c].todo = run[c].todo \ {j}]
            /\ ctl' = [ctl EXCEPT ![Name(j)] = IF ctl[Name(j)] = NoRecord THEN ClaimOf(j) ELSE ctl[Name(j)]]
      BY <1>1, <1>6 DEF Pick, RunOK
    <2>2. Name(j) \in Ranges /\ job' = job /\ shaken' = shaken
      BY <1>6, JobFacts DEF Pick
    <2>3. CASE ctl[Name(j)] = NoRecord
      <3>1. PICK r : run' = [run EXCEPT ![c] = r] /\ r.at = "submit" /\ r.on = j
        <4>1. run' = [run EXCEPT ![c] = [run[c] EXCEPT !.at = "submit", !.on = j, !.todo = run[c].todo \ {j}]]
          BY <1>1, <2>1, <2>3
        <4>2. PICK r : r = [run[c] EXCEPT !.at = "submit", !.on = j, !.todo = run[c].todo \ {j}]
          OBVIOUS
        <4>3. r.at = "submit" /\ r.on = j
          BY <1>1, <4>2 DEF Controller
        <4> QED BY <4>1, <4>2, <4>3
      <3>2. ctl' = [ctl EXCEPT ![Name(j)] = ClaimOf(j)] /\ ClaimOf(j).spot = j /\ ClaimOf(j) # NoRecord
        BY <2>1, <2>3, RecordTypes, JobFacts, OcrAssumption DEF ClaimOf
      <3>3. \A i : Claimed(i) => Name(i) # Name(j)
        BY <2>3 DEF Claimed
      <3> QED BY <2>2, <3>1, <3>2, <3>3, RecordChange, NoStatusChange
    <2>4. CASE ctl[Name(j)] # NoRecord
      <3>1. \E r : run' = [run EXCEPT ![c] = r] /\ r.at = "get"
        <4>1. run' = [run EXCEPT ![c] = [run[c] EXCEPT !.at = "get", !.on = j, !.todo = run[c].todo \ {j}]]
          BY <1>1, <2>1, <2>4
        <4>2. PICK r : r = [run[c] EXCEPT !.at = "get", !.on = j, !.todo = run[c].todo \ {j}]
          OBVIOUS
        <4>3. r.at = "get"
          BY <1>1, <4>2 DEF Controller
        <4> QED BY <4>1, <4>2, <4>3
      <3>2. ctl' = ctl
        BY <2>1, <2>2, <2>4 DEF TypeInv
      <3> QED BY <1>3, <2>2, <3>1, <3>2
    <2> QED BY <2>3, <2>4
  <1>7. CASE Overwrite(c) \/ Release(c)
    <2>1. PICK k \in SpotJobs : k = run[c].on
      BY <1>1, <1>7 DEF RunOK, Moving, Overwrite, Release
    <2>2. Name(k) \in Ranges /\ job' = job /\ shaken' = shaken \cup Owner(Name(k))
      BY <1>7, <2>1, JobFacts DEF Overwrite, Release
    <2>3. \A i \in SpotJobs \ shaken' : Claimed(i) => Name(i) # Name(k)
      BY <2>2, JobFacts DEF Claimed, Owner
    <2>4. CASE Overwrite(c)
      <3>1. PICK r : run' = [run EXCEPT ![c] = r] /\ r.at = "submit" /\ r.on = k
        <4>1. run' = [run EXCEPT ![c] = [run[c] EXCEPT !.at = "submit", !.prior = NoJob]]
          BY <1>1, <2>4 DEF Overwrite
        <4>2. PICK r : r = [run[c] EXCEPT !.at = "submit", !.prior = NoJob]
          OBVIOUS
        <4>3. r.at = "submit" /\ r.on = run[c].on
          BY <1>1, <4>2 DEF Controller
        <4> QED BY <2>1, <4>1, <4>2, <4>3
      <3>2. ctl' = [ctl EXCEPT ![Name(k)] = ClaimOf(k)] /\ ClaimOf(k).spot = k /\ ClaimOf(k) # NoRecord
        BY <2>1, <2>4, RecordTypes, JobFacts, OcrAssumption DEF Overwrite, ClaimOf
      <3> QED BY <2>2, <2>3, <3>1, <3>2, RecordChange, NoStatusChange
    <2>5. CASE Release(c)
      <3>1. PICK r : run' = [run EXCEPT ![c] = r] /\ r.at = "route"
        BY <1>2, <2>5 DEF Release
      <3>2. ctl' = [ctl EXCEPT ![Name(k)] = NoRecord]
        BY <2>1, <2>5 DEF Release
      <3> QED BY <2>2, <2>3, <3>1, <3>2, RecordChange, NoStatusChange
    <2> QED BY <1>7, <2>4, <2>5
  <1>8. CASE Resubmit(c) \/ MoveRaises(c)
    <2>1. run[c].on \in SpotJobs /\ ctl' = ctl /\ shaken' = shaken
      BY <1>1, <1>8 DEF RunOK, Moving, Resubmit, MoveRaises
    <2>2. PICK r : /\ run' = [run EXCEPT ![c] = r]
                   /\ r.on = run[c].on
                   /\ r.at = IF Resubmit(c) THEN "terminate" ELSE "release"
      BY <1>1, <1>8 DEF Resubmit, MoveRaises, Controller
    <2>3. CASE job' = job
      <3>1. ~Resubmit(c)
        <4>1. ASSUME Resubmit(c) PROVE FALSE
          <5>1. PICK d \in NextCopy(run[c].on) : job' = [job EXCEPT ![d] = "runnable"]
            BY <4>1 DEF Resubmit
          <5>2. d \in Jobs /\ job[d] = "none"
            BY <2>1, NextCopyFacts
          <5> QED BY <2>3, <5>1, <5>2 DEF TypeInv
        <4> QED BY <4>1
      <3> QED BY <1>3, <2>1, <2>2, <2>3, <3>1
    <2>4. CASE job' # job
      <3>1. run[c].at = "submit" /\ r.at # "submit"
        BY <1>8, <2>2, <2>4 DEF Resubmit, MoveRaises
      <3>2. \E d \in NextCopy(run[c].on) : job' = [job EXCEPT ![d] = "runnable"]
        BY <1>8, <2>4 DEF Resubmit, MoveRaises
      <3> QED BY <2>1, <2>2, <3>1, <3>2, SubmitCopy
    <2> QED BY <2>3, <2>4
  <1>9. CASE Note(c)
    <2>1. PICK k \in SpotJobs : k = run[c].on
      BY <1>1, <1>9 DEF RunOK, Moving, Note
    <2>2. Name(k) \in Ranges /\ job' = job /\ shaken' = shaken /\ run' = [run EXCEPT ![c] = Back(c)]
      BY <1>9, <2>1, JobFacts DEF Note
    <2>3. PICK x : ctl' = [ctl EXCEPT ![Name(k)] = x] /\
                   x = IF ctl[Name(k)] = NoRecord
                       THEN [spot |-> NoJob, od |-> run[c].od, age |-> "never"]
                       ELSE [ctl[Name(k)] EXCEPT !.od = run[c].od]
      BY <1>9, <2>1 DEF Note
    <2>4. ctl \in [Ranges -> Record \cup {NoRecord}] /\ ctl'[Name(k)] = x /\ ctl'[Name(k)] \in Record \cup {NoRecord}
      <3>1. ctl' \in [Ranges -> Record \cup {NoRecord}]
        BY RunKeepsRest
      <3> QED BY <2>2, <2>3, <3>1 DEF TypeInv
    <2>5. x # NoRecord
      <3>1. x \in Record
        <4>1. run[c].od \in Jobs \cup {NoJob}
          BY <1>1 DEF Controller
        <4> QED BY <2>2, <2>3, <2>4, <4>1 DEF Record
      <3> QED BY <3>1, OcrAssumption
    <2>6. \A i \in SpotJobs : Name(i) = Name(k) => (Claimed(i)' <=> Claimed(i))
      <3>1. CASE ctl[Name(k)] = NoRecord
        <4>1. x.spot = NoJob
          BY <2>3, <3>1
        <4> QED BY <2>4, <3>1, <4>1, JobFacts, OcrAssumption DEF Claimed
      <3>2. CASE ctl[Name(k)] # NoRecord
        <4>1. x.spot = ctl[Name(k)].spot
          BY <2>2, <2>3, <2>4, <3>2 DEF Record
        <4> QED BY <2>4, <2>5, <3>2, <4>1 DEF Claimed
      <3> QED BY <3>1, <3>2
    <2>7. \A i \in SpotJobs : Name(i) # Name(k) => (Claimed(i)' <=> Claimed(i))
      BY <2>3, <2>4, JobFacts DEF Claimed
    <2>8. SameClaims
      BY <2>6, <2>7 DEF SameClaims
    <2> QED BY <1>2, <2>2, <2>8, QuietRun, NoStatusChange
  <1>10. CASE Terminate(c)
    BY <1>10, TerminateMove
  <1> QED BY <1>4, <1>5, <1>6, <1>7, <1>8, <1>9, <1>10 DEF RunStep, RunFault

LEMMA NextMoveInv == TypeInv /\ MoveInv /\ [Next]_vars => MoveInv'
  <1> SUFFICES ASSUME TypeInv, MoveInv, [Next]_vars PROVE MoveInv'
    OBVIOUS
  <1>1. ASSUME NEW j \in Jobs, Starve(j) \/ Begin(j) \/ AttemptFails(j) PROVE MoveInv'
    BY <1>1, JobMove DEF JobStep
  <1>2. ASSUME NEW r \in Ranges, Age(r) PROVE MoveInv'
    <2>1. UNCHANGED <<job, run, shaken>>
      BY <1>2 DEF Age
    <2>2. ctl[r] \in Record /\ ctl' = [ctl EXCEPT ![r] = [ctl[r] EXCEPT !.age = "old"]]
      BY <1>2 DEF Age, TypeInv
    <2>3. [ctl[r] EXCEPT !.age = "old"] \in Record /\ [ctl[r] EXCEPT !.age = "old"].spot = ctl[r].spot
      BY <2>2 DEF Record
    <2>4. \A s \in Ranges : ctl'[s] = ctl[s] \/ (s = r /\ ctl'[s] # NoRecord /\ ctl[s] # NoRecord /\ ctl'[s].spot = ctl[s].spot)
      BY <1>2, <2>2, <2>3, OcrAssumption DEF TypeInv, Age
    <2>5. SameClaims
      BY <2>4, JobFacts DEF SameClaims, Claimed
    <2> QED BY <2>1, <2>5, NoStatusChange, QuietMove
  <1>3. ASSUME NEW j \in Jobs, MergeStep(j) PROVE MoveInv'
    <2>1. CASE Store(j) \/ Announce(j)
      BY <2>1, JobMove DEF JobStep, Store, Announce
    <2>2. CASE Repeat(j) \/ ListKeys(j) \/ Promote(j) \/ TurnAway(j) \/ MergeFails(j)
      <3>1. UNCHANGED <<job, ctl, run, shaken>>
        BY <2>2 DEF Repeat, ListKeys, Promote, TurnAway, MergeFails, jobVars
      <3> QED BY <3>1, NoStatusChange, SameCtl, QuietMove
    <2> QED BY <1>3, <2>1, <2>2 DEF MergeStep
  <1>4. CASE UNCHANGED vars
    <2>1. UNCHANGED <<job, ctl, run, shaken>>
      BY <1>4 DEF vars, jobVars
    <2> QED BY <2>1, NoStatusChange, SameCtl, QuietMove
  <1> QED BY <1>1, <1>2, <1>3, <1>4, TriggerMove, RunMove, NextCases

LEMMA Moves == Spec => []MoveInv
  BY Typed, InitMoveInv, NextMoveInv, PTL DEF Spec

\* A job is moved at most once and never half: if it was terminated for being
\* starved it has a copy on the on-demand queue, and it has a second one only
\* if its own record was overwritten as stale or deleted by a run that gave up.
THEOREM MovedOnlyOnce == Spec => []MovedOnce
  BY Moves, MoveInvMoved, PTL
(***************************************************************************)
(* How the jobs change.                                                    *)
(***************************************************************************)

Busy == {"running", "uploaded"}

\* A job in flight was in flight before, and does not fall back to the queue.
Steady(i) ==
  job[i] # "none" =>
    /\ job'[i] # "none"
    /\ job'[i] \in Live => job[i] \in Live /\ (job[i] \in Busy => job'[i] \in Busy)

NoneNew == \A i \in SpotJobs : job[i] = "none" => job'[i] = "none"
NoneDone == \A i \in Jobs : job'[i] \in {"uploaded", "succeeded"} => job[i] = job'[i]

LEMMA SameJobs ==
  ASSUME job' = job
  PROVE  NoneNew /\ NoneDone /\ \A i \in Jobs : Steady(i)
  BY DEF NoneNew, NoneDone, Steady

\* A submission; it is a new job that is submitted, except when k is a spot job.
LEMMA NewJob ==
  ASSUME TypeInv, NEW k, job' = [job EXCEPT ![k] = "runnable"]
  PROVE  /\ NoneDone
         /\ \A i \in Jobs : i # k => job'[i] = job[i]
         /\ k \in Jobs => job'[k] = "runnable"
         /\ (k \in Jobs => job[k] = "none") => \A i \in Jobs : Steady(i)
         /\ k \notin SpotJobs => NoneNew
  <1>1. \A i \in Jobs : job'[i] = IF i = k THEN "runnable" ELSE job[i]
    BY DEF TypeInv
  <1> QED BY <1>1, JobFacts DEF NoneDone, NoneNew, Steady

LEMMA RunJobs ==
  ASSUME TypeInv, NEW c \in Runs, RunStep(c) \/ RunFault(c)
  PROVE  NoneNew /\ NoneDone /\ \A i \in Jobs : Steady(i)
  <1>1. \/ job' = job
        \/ \E d, s : job' = Terminated(d, s) /\ s \in {"moved", "capped"}
        \/ run[c].at = "submit" /\ \E d \in NextCopy(run[c].on) : job' = [job EXCEPT ![d] = "runnable"]
    BY DEF RunStep, RunFault, List, Pick, Get, Check, Overwrite, Resubmit, Terminate, Note,
       Release, Scan, Cap, Finish, CheckFails, MoveRaises, CapFails, RunDies
  <1>2. ASSUME NEW d, NEW s \in {"moved", "capped"}, job' = Terminated(d, s)
        PROVE  NoneNew /\ NoneDone /\ \A i \in Jobs : Steady(i)
    <2>1. \A i \in Jobs : job'[i] = job[i] \/ (job[i] \in Live /\ job'[i] = s)
      BY <1>2 DEF Terminated, TypeInv
    <2> QED BY <2>1, JobFacts DEF NoneNew, NoneDone, Steady, Live
  <1>3. ASSUME run[c].at = "submit", NEW d \in NextCopy(run[c].on), job' = [job EXCEPT ![d] = "runnable"]
        PROVE  NoneNew /\ NoneDone /\ \A i \in Jobs : Steady(i)
    <2>1. PICK k \in SpotJobs : k = run[c].on
      BY <1>3 DEF TypeInv, RunOK, Moving
    <2>2. d \in Jobs /\ job[d] = "none" /\ d \notin SpotJobs
      BY <1>3, <2>1, NextCopyFacts, CopiesAreJobs
    <2> QED BY <1>3, <2>2, NewJob
  <1> QED BY <1>1, <1>2, <1>3, SameJobs

\* The jobs by themselves: what ends an attempt takes it out of sight.
LEMMA JobsChange ==
  ASSUME TypeInv, NEW j \in Jobs, JobStep(j)
  PROVE  /\ NoneNew
         /\ \A i \in Jobs : Steady(i) \/ (AttemptFails(j) /\ i = j /\ job'[i] # "none")
         /\ \A i \in Jobs : job'[i] \in {"uploaded", "succeeded"} =>
              job[i] = job'[i] \/ (i = j /\ (PutOutput(j) \/ Succeed(j)))
  <1>1. CASE Starve(j)
    BY <1>1, SameJobs DEF Starve, NoneDone
  <1>2. CASE ~Starve(j)
    <2>1. /\ job[j] # "none"
          /\ \/ Begin(j) /\ job[j] = "runnable" /\ job'[j] = "running"
             \/ PutOutput(j) /\ job[j] = "running" /\ job'[j] = "uploaded"
             \/ Succeed(j) /\ job[j] = "uploaded" /\ job'[j] = "succeeded"
             \/ AttemptFails(j) /\ job[j] \in Busy /\ job'[j] \in {"failed", "runnable"}
      BY <1>2 DEF JobStep, Begin, PutOutput, Succeed, AttemptFails, TypeInv, Busy
    <2>2. \A i \in Jobs \ {j} : job'[i] = job[i]
      BY <1>2 DEF JobStep, Begin, PutOutput, Succeed, AttemptFails, TypeInv
    <2>3. NoneNew
      BY <2>1, <2>2, JobFacts DEF NoneNew
    <2>4. \A i \in Jobs : Steady(i) \/ (AttemptFails(j) /\ i = j /\ job'[i] # "none")
      BY <2>1, <2>2 DEF Steady, Live, Busy
    <2> QED BY <2>1, <2>2, <2>3, <2>4
  <1> QED BY <1>1, <1>2
(***************************************************************************)
(* The merge.                                                              *)
(***************************************************************************)

\* A job that has uploaded has left its output; a handler that has listed
\* knows the output that there is, or has it counted as late.
Stored == \A j \in Jobs : job[j] \in {"uploaded", "succeeded"} => Name(j) \in output
Listing == \A j \in Jobs : merge[j].at = "listed" => output \subseteq merge[j].keys \cup merge[j].late

\* What WholeBook says of one job.
OnItsWay(j) ==
  \/ Name(j) \in content \cup lost
  \/ merge[j].at = "sent"
  \/ merge[j].at = "listed" /\ Name(j) \in merge[j].keys

Delivered == scope.merging => \A j \in Jobs : job[j] = "succeeded" => OnItsWay(j)

MergeInv == Stored /\ Listing /\ Delivered

LEMMA InitMergeInv == Init => MergeInv
  BY DEF Init, JobsInit, MergeInv, Stored, Listing, Delivered, NoMerge

LEMMA MergeInvWhole == MergeInv => WholeBook
  BY DEF MergeInv, Delivered, OnItsWay, WholeBook

\* No job gets its output or its success, no handler works.
LEMMA QuietMerge ==
  ASSUME MergeInv, NoneDone, UNCHANGED <<scope, output, merge, content, lost>>
  PROVE  MergeInv'
  BY DEF MergeInv, Stored, Listing, Delivered, OnItsWay, NoneDone

LEMMA MergeStepInv ==
  ASSUME TypeInv, MergeInv, NEW j \in Jobs, MergeStep(j)
  PROVE  MergeInv'
  <1>1. merge \in [Jobs -> Merge] /\ job \in [Jobs -> Status] /\ content \subseteq output
    BY DEF TypeInv
  <1>2. Stored /\ Listing /\ Delivered
    BY DEF MergeInv
  <1>3. NoMerge.at = "none" /\ \A n : Sent(n).at = "sent"
    BY DEF NoMerge, Sent
  <1>4. CASE Store(j)
    <2>1. /\ scope' = scope /\ content' = content /\ lost' = lost
          /\ output' = output \cup {Name(j)}
          /\ job' = [job EXCEPT ![j] = "uploaded"]
      BY <1>4 DEF Store, PutOutput, BatchUnchanged
    <2>2. \A i \in Jobs : /\ merge'[i].at = merge[i].at /\ merge'[i].keys = merge[i].keys
                          /\ merge[i].at = "listed" => merge'[i].late = merge[i].late \cup {Name(j)}
      <3>1. \A i \in Jobs : LET m == [merge[i] EXCEPT !.late = merge[i].late \cup {Name(j)}]
                            IN m.at = merge[i].at /\ m.keys = merge[i].keys /\ m.late = merge[i].late \cup {Name(j)}
        BY <1>1 DEF Merge
      <3> QED BY <1>4, <3>1 DEF Store
    <2>3. \A i \in Jobs : job'[i] = IF i = j THEN "uploaded" ELSE job[i]
      BY <1>1, <2>1
    <2>4. Stored' /\ Delivered'
      BY <1>2, <2>1, <2>2, <2>3 DEF Stored, Delivered, OnItsWay
    <2>5. Listing'
      BY <1>2, <2>1, <2>2 DEF Listing
    <2> QED BY <2>4, <2>5 DEF MergeInv
  <1>5. CASE Announce(j)
    <2>1. /\ scope' = scope /\ content' = content /\ lost' = lost /\ output' = output
          /\ job[j] = "uploaded" /\ job' = [job EXCEPT ![j] = "succeeded"]
          /\ merge' = [merge EXCEPT ![j] = IF scope.merging THEN Sent(MergeTries) ELSE NoMerge]
      BY <1>5 DEF Announce, Succeed, BatchUnchanged
    <2>2. /\ \A i \in Jobs \ {j} : job'[i] = job[i] /\ merge'[i] = merge[i]
          /\ job'[j] = "succeeded"
          /\ merge'[j] = IF scope.merging THEN Sent(MergeTries) ELSE NoMerge
      BY <1>1, <2>1
    <2>3. Stored' /\ Listing'
      BY <1>2, <1>3, <2>1, <2>2 DEF Stored, Listing
    <2>4. Delivered'
      BY <1>2, <1>3, <2>1, <2>2 DEF Delivered, OnItsWay
    <2> QED BY <2>3, <2>4 DEF MergeInv
  <1>6. CASE Repeat(j) \/ ListKeys(j) \/ Promote(j) \/ TurnAway(j) \/ MergeFails(j)
    <2>1. scope' = scope /\ job' = job /\ output' = output
      BY <1>6 DEF Repeat, ListKeys, Promote, TurnAway, MergeFails, jobVars
    <2>2. Stored'
      BY <1>2, <2>1 DEF Stored
    <2>3. \A i \in Jobs \ {j} : merge'[i] = merge[i]
      BY <1>1, <1>6 DEF Repeat, ListKeys, Promote, TurnAway, MergeFails
    <2>4. merge'[j] = NoMerge \/ (\E n : merge'[j] = Sent(n)) \/ (merge'[j].at = "listed" /\ merge'[j].keys = output)
      <3>1. CASE ListKeys(j)
        <4>1. merge'[j] = [merge[j] EXCEPT !.at = "listed", !.keys = output]
          BY <1>1, <3>1 DEF ListKeys
        <4> QED BY <1>1, <4>1 DEF Merge
      <3>2. CASE Repeat(j)
        BY <1>1, <3>2 DEF Repeat
      <3>3. CASE Promote(j)
        BY <1>1, <3>3 DEF Promote
      <3>4. CASE MergeFails(j)
        BY <1>1, <3>4 DEF MergeFails
      <3>5. CASE TurnAway(j)
        BY <1>1, <3>5 DEF TurnAway
      <3> QED BY <1>6, <3>1, <3>2, <3>3, <3>4, <3>5
    <2>5. Listing'
      BY <1>2, <1>3, <2>1, <2>3, <2>4 DEF Listing
    <2>6. ASSUME scope.merging, NEW i \in Jobs, job[i] = "succeeded"
          PROVE  OnItsWay(i)'
      <3>1. OnItsWay(i) /\ Name(i) \in output
        BY <1>2, <2>6 DEF Delivered, Stored
      <3>2. CASE Repeat(j)
        BY <1>1, <1>3, <2>3, <3>1, <3>2 DEF OnItsWay, Repeat
      <3>3. CASE ListKeys(j)
        <4>1. content' = content /\ lost' = lost /\ merge'[j] = [merge[j] EXCEPT !.at = "listed", !.keys = output]
          BY <1>1, <3>3 DEF ListKeys
        <4>2. merge'[j].at = "listed" /\ merge'[j].keys = output
          BY <1>1, <4>1 DEF Merge
        <4> QED BY <2>3, <3>1, <4>1, <4>2 DEF OnItsWay
      <3>4. CASE Promote(j)
        <4>1. /\ content' = merge[j].keys
              /\ lost' = (lost \cup (content \cap merge[j].late)) \ merge[j].keys
              /\ output \subseteq merge[j].keys \cup merge[j].late
          BY <1>2, <3>4 DEF Promote, Listing
        <4>2. CASE Name(i) \in content \cup lost
          BY <1>1, <4>1, <4>2 DEF OnItsWay
        <4>3. CASE Name(i) \notin content \cup lost /\ i # j
          BY <2>3, <3>1, <4>3 DEF OnItsWay
        <4>4. CASE Name(i) \notin content \cup lost /\ i = j
          BY <3>1, <3>4, <4>1, <4>4 DEF OnItsWay, Promote
        <4> QED BY <4>2, <4>3, <4>4
      <3>5. CASE MergeFails(j)
        <4>1. /\ content' = content /\ lost \subseteq lost'
              /\ merge'[j] = IF merge[j].tries <= 1 THEN NoMerge ELSE Sent(merge[j].tries - 1)
              /\ merge[j].tries <= 1 => Name(j) \in content \cup lost'
          BY <1>1, <3>5 DEF MergeFails
        <4>2. CASE i # j
          BY <2>3, <3>1, <4>1, <4>2 DEF OnItsWay
        <4>3. CASE i = j
          BY <1>3, <4>1, <4>3 DEF OnItsWay
        <4> QED BY <4>2, <4>3
      <3>6. CASE TurnAway(j)
        <4>1. /\ content' = content /\ lost \subseteq lost' /\ merge[j].at = "listed"
              /\ merge[j].keys \subseteq content \cup lost'
          BY <3>6 DEF TurnAway
        <4> QED BY <2>3, <3>1, <4>1 DEF OnItsWay
      <3> QED BY <1>6, <3>2, <3>3, <3>4, <3>5, <3>6
    <2>7. Delivered'
      BY <2>1, <2>6 DEF Delivered
    <2> QED BY <2>2, <2>5, <2>7 DEF MergeInv
  <1> QED BY <1>4, <1>5, <1>6 DEF MergeStep

LEMMA NextMergeInv == TypeInv /\ MergeInv /\ [Next]_vars => MergeInv'
  <1> SUFFICES ASSUME TypeInv, MergeInv, [Next]_vars PROVE MergeInv'
    OBVIOUS
  <1>1. CASE TriggerStep /\ UNCHANGED mergeVars
    <2>1. UNCHANGED <<scope, output>>
      BY <1>1 DEF TriggerStep, Intake, Look, Reclaim, Submit, SubmitRaises, TriggerStops, Expire, UpUnchanged
    <2>2. job' = job \/ \E k : job' = [job EXCEPT ![k] = "runnable"]
      BY <1>1 DEF TriggerStep, Intake, Look, Reclaim, Submit, SubmitRaises, TriggerStops, Expire
    <2>3. NoneDone
      BY <2>2, SameJobs, NewJob
    <2> QED BY <1>1, <2>1, <2>3, QuietMerge DEF mergeVars
  <1>2. ASSUME NEW j \in Jobs, Starve(j) \/ Begin(j) \/ AttemptFails(j), UNCHANGED mergeVars
        PROVE  MergeInv'
    <2>1. UNCHANGED <<scope, output>>
      BY <1>2 DEF Starve, Begin, AttemptFails, BatchUnchanged
    <2>2. \A i \in Jobs : job'[i] = job[i] \/ job'[i] \in {"running", "failed", "runnable"}
      BY <1>2 DEF Starve, Begin, AttemptFails, TypeInv
    <2>3. NoneDone
      BY <2>2 DEF NoneDone
    <2> QED BY <1>2, <2>1, <2>3, QuietMerge DEF mergeVars
  <1>3. ASSUME NEW c \in Runs, RunStep(c) \/ RunFault(c), UNCHANGED mergeVars
        PROVE  MergeInv'
    <2>1. NoneDone /\ RunUnchanged
      BY <1>3, RunJobs, RunKeepsRest
    <2> QED BY <1>3, <2>1, QuietMerge DEF RunUnchanged, mergeVars
  <1>4. ASSUME NEW r \in Ranges, Age(r), UNCHANGED mergeVars
        PROVE  MergeInv'
    BY <1>4, SameJobs, QuietMerge DEF Age, RunUnchanged, mergeVars
  <1>5. CASE UNCHANGED vars
    BY <1>5, SameJobs, QuietMerge DEF vars, jobVars, mergeVars
  <1> QED BY <1>1, <1>2, <1>3, <1>4, <1>5, MergeStepInv, NextCases

LEMMA Merges == Spec => []MergeInv
  BY Typed, InitMergeInv, NextMergeInv, PTL DEF Spec

\* What a job that succeeded has read is in the chapter that is handed to the
\* parser, or its event is on its way there with a handler that has seen it,
\* unless a handler that had listed before wrote over it, its event was given
\* up, or a handler found nothing but blank output.
THEOREM WholeBookPromoted == Spec => []WholeBook
  BY Merges, MergeInvWhole, PTL
(***************************************************************************)
(* The look for jobs in flight.                                            *)
(***************************************************************************)

\* The listings so far have left, of the jobs seen in flight, none that they
\* would have found.
LookOK(t) ==
  up[t].at = "look" =>
    /\ up[t].next \in 1..4
    /\ \A j \in up[t].seen \cap LiveJobs :
         /\ up[t].next >= 2 /\ OnSpot(j) => job[j] \in Busy
         /\ up[t].next >= 3 => ~OnSpot(j)
         /\ up[t].next = 4 => job[j] \in Busy

SeenKnown(t) == \A j \in up[t].seen : j \in Jobs /\ job[j] # "none"

\* The jobs that a trigger has still to submit do not exist.
Fresh(t) ==
  \A r \in Ranges :
    /\ up[t].at \in {"off", "look", "reclaim"} => job[<<0, t, r>>] = "none"
    /\ up[t].at = "submit" /\ up[t].next <= r => job[<<0, t, r>>] = "none"

LookInv == \A t \in Triggers : LookOK(t) /\ SeenKnown(t) /\ Fresh(t)

LEMMA InitLookInv == Init => LookInv
  BY JobFacts DEF Init, JobsInit, LookInv, LookOK, SeenKnown, Fresh

\* A trigger whose jobs in flight go on, while others submit.
LEMMA QuietLook ==
  ASSUME TypeInv, LookInv, NEW t \in Triggers,
         up'[t].at = up[t].at, up'[t].next = up[t].next, up'[t].seen \subseteq up[t].seen,
         \A j \in up'[t].seen : Steady(j),
         \A r \in Ranges : job[<<0, t, r>>] = "none" => job'[<<0, t, r>>] = "none"
  PROVE  LookOK(t)' /\ SeenKnown(t)' /\ Fresh(t)'
  <1>1. LookOK(t) /\ SeenKnown(t) /\ Fresh(t)
    BY DEF LookInv
  <1>2. SeenKnown(t)'
    BY <1>1 DEF SeenKnown, Steady
  <1>3. Fresh(t)'
    BY <1>1 DEF Fresh
  <1>4. ASSUME up'[t].at = "look", NEW j \in up'[t].seen, j \in LiveJobs'
        PROVE  /\ j \in up[t].seen \cap LiveJobs
               /\ job[j] \in Busy => job'[j] \in Busy
    <2>1. j \in Jobs /\ job[j] # "none" /\ Steady(j)
      BY <1>1, <1>4 DEF SeenKnown
    <2> QED BY <1>4, <2>1 DEF LiveJobs, Steady
  <1>5. LookOK(t)'
    <2>1. SUFFICES ASSUME up'[t].at = "look"
                   PROVE  LookOK(t)'
      BY DEF LookOK
    <2>2. up'[t].next \in 1..4
      BY <1>1, <2>1 DEF LookOK
    <2>3. ASSUME NEW j \in up'[t].seen, j \in LiveJobs'
          PROVE  /\ up'[t].next >= 2 /\ OnSpot(j) => job'[j] \in Busy
                 /\ up'[t].next >= 3 => ~OnSpot(j)
                 /\ up'[t].next = 4 => job'[j] \in Busy
      BY <1>1, <1>4, <2>1, <2>3 DEF LookOK
    <2> QED BY <2>2, <2>3 DEF LookOK
  <1> QED BY <1>2, <1>3, <1>5

\* A step that leaves the triggers alone.
LEMMA QuietLooks ==
  ASSUME TypeInv, LookInv, up' = up, NoneNew, \A i \in Jobs : Steady(i)
  PROVE  LookInv'
  <1>1. ASSUME NEW t \in Triggers PROVE LookOK(t)' /\ SeenKnown(t)' /\ Fresh(t)'
    <2>1. \A j \in up'[t].seen : Steady(j)
      BY DEF TypeInv, Upload
    <2>2. \A r \in Ranges : job[<<0, t, r>>] = "none" => job'[<<0, t, r>>] = "none"
      BY JobFacts DEF NoneNew
    <2> QED BY <2>1, <2>2, QuietLook
  <1> QED BY <1>1 DEF LookInv

\* The jobs seen are on the first pages.
SeenShown == \A t \in Triggers : up[t].seen \subseteq scope.shown

LEMMA InitShown == Init => SeenShown
  BY DEF Init, JobsInit, SeenShown

LEMMA NextShown == TypeInv /\ SeenShown /\ [Next]_vars => SeenShown'
  <1> SUFFICES ASSUME TypeInv, SeenShown, [Next]_vars PROVE SeenShown'
    OBVIOUS
  <1>1. up \in [Triggers -> Upload] /\ \A t \in Triggers : up[t] \in Upload
    BY DEF TypeInv
  <1>2. CASE TriggerStep
    <2>1. scope' = scope
      BY <1>2 DEF TriggerStep, Intake, Look, Reclaim, Submit, SubmitRaises, TriggerStops, Expire, UpUnchanged
    <2>2. CASE up' = up
      BY <2>1, <2>2 DEF SeenShown
    <2>3. ASSUME NEW t \in Triggers, Intake(t) PROVE SeenShown'
      <3>1. \A v \in Triggers : up'[v].seen \subseteq up[v].seen \cup scope.shown
        BY <1>1, <2>3 DEF Intake
      <3> QED BY <2>1, <3>1 DEF SeenShown
    <2>4. ASSUME NEW t \in Triggers,
                 Look(t) \/ Reclaim(t) \/ Submit(t) \/ SubmitRaises(t) \/ TriggerStops(t)
          PROVE  SeenShown'
      <3>1. \A v \in Triggers : up'[v].seen \subseteq up[v].seen
        <4>1. PICK n, a : n = up[t].next + 1 /\ a = IF up[t].next = scope.last THEN "end" ELSE "submit"
          OBVIOUS
        <4>2. PICK u : /\ up' = [up EXCEPT ![t] = u]
                       /\ \/ u = [up[t] EXCEPT !.at = "end", !.seen = {}]
                          \/ u = [up[t] EXCEPT !.at = "reclaim", !.seen = {}]
                          \/ u = [up[t] EXCEPT !.next = n]
                          \/ u = [up[t] EXCEPT !.at = "submit", !.next = 1]
                          \/ u = [up[t] EXCEPT !.at = a, !.next = n]
                          \/ u = [up[t] EXCEPT !.at = "end"]
          <5>1. CASE Look(t)
            BY <1>1, <4>1, <5>1 DEF Look
          <5>2. CASE Reclaim(t)
            BY <1>1, <5>2 DEF Reclaim
          <5>3. CASE Submit(t)
            <6>1. up' = [up EXCEPT ![t] = [up[t] EXCEPT
                    !.at = IF up[t].next = scope.last THEN "end" ELSE "submit", !.next = up[t].next + 1]]
              BY <1>1, <5>3 DEF Submit
            <6> QED BY <4>1, <6>1
          <5>4. CASE SubmitRaises(t) \/ TriggerStops(t)
            BY <1>1, <5>4 DEF SubmitRaises, TriggerStops
          <5> QED BY <2>4, <5>1, <5>2, <5>3, <5>4
        <4>3. u.seen \subseteq up[t].seen
          BY <1>1, <4>2 DEF Upload
        <4> QED BY <1>1, <4>2, <4>3
      <3> QED BY <2>1, <3>1 DEF SeenShown
    <2> QED BY <1>2, <2>2, <2>3, <2>4 DEF TriggerStep, Expire
  <1>3. ASSUME NEW j \in Jobs, JobStep(j) PROVE SeenShown'
    <2>1. scope' = scope
      BY <1>3 DEF JobStep, Starve, Begin, AttemptFails, PutOutput, Succeed, BatchUnchanged
    <2>2. up' = up \/ up' = [v \in Triggers |-> [up[v] EXCEPT !.seen = up[v].seen \ {j}]]
      BY <1>3 DEF JobStep, Starve, Begin, AttemptFails, PutOutput, Succeed
    <2>3. \A v \in Triggers : [up[v] EXCEPT !.seen = up[v].seen \ {j}].seen \subseteq up[v].seen
      BY <1>1 DEF Upload
    <2> QED BY <2>1, <2>2, <2>3 DEF SeenShown
  <1>4. CASE UNCHANGED <<scope, up>>
    BY <1>4 DEF SeenShown
  <1>5. ASSUME NEW j \in Jobs, MergeStep(j) PROVE SeenShown'
    BY <1>3, <1>4, <1>5
    DEF MergeStep, JobStep, Store, Announce, Repeat, ListKeys, Promote, TurnAway, MergeFails, jobVars
  <1>6. ASSUME NEW c \in Runs, RunStep(c) \/ RunFault(c) PROVE SeenShown'
    BY <1>4, <1>6, RunKeepsRest DEF RunUnchanged
  <1>7. ASSUME NEW r \in Ranges, Age(r) PROVE SeenShown'
    BY <1>4, <1>7 DEF Age, RunUnchanged
  <1> QED BY <1>2, <1>3, <1>4, <1>5, <1>6, <1>7, NextCases DEF JobStep, vars, jobVars

\* A listing finds every shown job in flight of its queue and status.
LEMMA ListedFacts ==
  ASSUME TypeInv, NEW i \in 1..4, Found(i) = {}, NEW j \in LiveJobs \cap scope.shown
  PROVE  /\ i = 1 => ~(OnSpot(j) /\ job[j] = "runnable")
         /\ i = 2 => ~(OnSpot(j) /\ job[j] \in Busy)
         /\ i = 3 => ~(~OnSpot(j) /\ job[j] = "runnable")
         /\ i = 4 => ~(~OnSpot(j) /\ job[j] \in Busy)
  BY DEF Found, Listed, LiveJobs, Busy

LEMMA LiveCases == \A j \in LiveJobs : job[j] = "runnable" \/ job[j] \in Busy
  BY DEF LiveJobs, Live, Busy

\* A trigger that looks on has the next part of LookOK.
LEMMA LookStep ==
  ASSUME TypeInv, LookInv, SeenShown,
         NEW t \in Triggers, up[t].at = "look", Found(up[t].next) = {},
         NEW j \in up[t].seen \cap LiveJobs
  PROVE  /\ up[t].next \in 1..3
         /\ OnSpot(j) => up[t].next = 1 /\ job[j] \in Busy
         /\ up[t].next = 3 => job[j] \in Busy
  <1>1. /\ up[t].next \in 1..4
        /\ up[t].next >= 2 /\ OnSpot(j) => job[j] \in Busy
        /\ up[t].next >= 3 => ~OnSpot(j)
        /\ up[t].next = 4 => job[j] \in Busy
    BY DEF LookInv, LookOK
  <1>2. job[j] = "runnable" \/ job[j] \in Busy
    BY LiveCases
  <1>3. /\ up[t].next = 1 => ~(OnSpot(j) /\ job[j] = "runnable")
        /\ up[t].next = 2 => ~(OnSpot(j) /\ job[j] \in Busy)
        /\ up[t].next = 3 => ~(~OnSpot(j) /\ job[j] = "runnable")
        /\ up[t].next = 4 => ~(~OnSpot(j) /\ job[j] \in Busy)
    BY <1>1, ListedFacts DEF SeenShown
  <1> QED BY <1>1, <1>2, <1>3

\* A trigger's own step: it submits a job of its own, or none.
LEMMA TriggerJobs ==
  ASSUME TypeInv, LookInv, NEW t \in Triggers,
         \/ job' = job
         \/ up[t].at = "submit" /\ job' = [job EXCEPT ![<<0, t, up[t].next>>] = "runnable"]
  PROVE  /\ \A i \in Jobs : Steady(i)
         /\ \A v \in Triggers \ {t}, r \in Ranges : job'[<<0, v, r>>] = job[<<0, v, r>>]
         /\ \A r \in Ranges : r # up[t].next => job'[<<0, t, r>>] = job[<<0, t, r>>]
  <1>1. CASE job' = job
    BY <1>1, SameJobs
  <1>2. CASE up[t].at = "submit" /\ job' = [job EXCEPT ![<<0, t, up[t].next>>] = "runnable"]
    <2>1. PICK k : k = <<0, t, up[t].next>>
      OBVIOUS
    <2>2. k \in Jobs => job[k] = "none"
      <3>1. k \in Jobs => up[t].next \in Ranges
        BY <2>1 DEF Jobs
      <3>2. up[t].next \in Ranges => up[t].next <= up[t].next
        BY DEF Ranges
      <3> QED BY <1>2, <2>1, <3>1, <3>2 DEF LookInv, Fresh
    <2>3. (\A i \in Jobs : Steady(i)) /\ \A i \in Jobs : i # k => job'[i] = job[i]
      BY <1>2, <2>1, <2>2, NewJob
    <2> QED BY <2>1, <2>3, JobFacts
  <1> QED BY <1>1, <1>2

LEMMA OneTrigger ==
  ASSUME TypeInv, LookInv, NEW t \in Triggers, NEW u, up' = [up EXCEPT ![t] = u],
         \/ job' = job
         \/ up[t].at = "submit" /\ job' = [job EXCEPT ![<<0, t, up[t].next>>] = "runnable"],
         (LookOK(t) /\ SeenKnown(t) /\ Fresh(t))'
  PROVE  LookInv'
  <1>1. up'[t] = u /\ \A v \in Triggers \ {t} : up'[v] = up[v]
    BY DEF TypeInv
  <1>2. ASSUME NEW v \in Triggers \ {t} PROVE LookOK(v)' /\ SeenKnown(v)' /\ Fresh(v)'
    <2>1. \A j \in up'[v].seen : Steady(j)
      BY <1>1, TriggerJobs DEF TypeInv, Upload
    <2>2. \A r \in Ranges : job[<<0, v, r>>] = "none" => job'[<<0, v, r>>] = "none"
      BY TriggerJobs
    <2> QED BY <1>1, <2>1, <2>2, QuietLook
  <1> QED BY <1>2 DEF LookInv

\* What a trigger that has ended still has to keep.
LEMMA EndedOK ==
  ASSUME TypeInv, LookInv, NEW t \in Triggers, up'[t].at = "end", up'[t].seen \subseteq up[t].seen,
         \A i \in Jobs : Steady(i)
  PROVE  (LookOK(t) /\ SeenKnown(t) /\ Fresh(t))'
  BY DEF LookInv, LookOK, SeenKnown, Fresh, Steady

LEMMA TriggerLooks == TypeInv /\ LookInv /\ SeenShown /\ TriggerStep => LookInv'
  <1> SUFFICES ASSUME TypeInv, LookInv, SeenShown, TriggerStep PROVE LookInv'
    OBVIOUS
  <1>1. up \in [Triggers -> Upload] /\ \A t \in Triggers : up[t] \in Upload
    BY DEF TypeInv
  <1>2. ASSUME NEW t \in Triggers, Intake(t) PROVE LookInv'
    <2> DEFINE u == [at |-> IF claim THEN "look" ELSE "submit", next |-> 1,
                     seen |-> IF claim THEN LiveJobs \cap scope.shown ELSE {}]
    <2>1. up[t].at = "off" /\ up' = [up EXCEPT ![t] = u] /\ job' = job
      BY <1>2 DEF Intake
    <2>2. up'[t].at \in {"look", "submit"} /\ up'[t].next = 1 /\ up'[t].seen \subseteq LiveJobs
      BY <1>1, <2>1
    <2>3. LookOK(t)'
      BY <2>2 DEF LookOK
    <2>4. SeenKnown(t)'
      BY <2>1, <2>2 DEF SeenKnown, LiveJobs, Live
    <2>5. Fresh(t)'
      BY <2>1, <2>2 DEF LookInv, Fresh
    <2> HIDE DEF u
    <2> QED BY <2>1, <2>3, <2>4, <2>5, OneTrigger
  <1>3. ASSUME NEW t \in Triggers, Look(t) PROVE LookInv'
    <2>1. PICK u : /\ up' = [up EXCEPT ![t] = u]
                   /\ \/ u = [up[t] EXCEPT !.at = "end", !.seen = {}]
                      \/ /\ u = [up[t] EXCEPT !.next = up[t].next + 1]
                         /\ Found(up[t].next) = {} /\ up[t].next < 4
                      \/ u = [up[t] EXCEPT !.at = "reclaim", !.seen = {}]
      BY <1>1, <1>3 DEF Look
    <2>2. up[t].at = "look" /\ job' = job /\ up'[t] = u
      BY <1>1, <1>3, <2>1 DEF Look
    <2>3. LookOK(t) /\ SeenKnown(t) /\ Fresh(t)
      BY DEF LookInv
    <2>4. CASE u = [up[t] EXCEPT !.at = "end", !.seen = {}]
      <3>1. up'[t].at = "end" /\ up'[t].seen = {}
        BY <1>1, <2>2, <2>4 DEF Upload
      <3> QED BY <2>1, <2>2, <3>1, EndedOK, SameJobs, OneTrigger
    <2>5. CASE u = [up[t] EXCEPT !.at = "reclaim", !.seen = {}]
      <3>1. up'[t].at = "reclaim" /\ up'[t].seen = {}
        BY <1>1, <2>2, <2>5 DEF Upload
      <3>2. (LookOK(t) /\ SeenKnown(t) /\ Fresh(t))'
        BY <2>2, <2>3, <3>1 DEF LookOK, SeenKnown, Fresh
      <3> QED BY <2>1, <2>2, <3>2, OneTrigger
    <2>6. CASE u = [up[t] EXCEPT !.next = up[t].next + 1] /\ Found(up[t].next) = {} /\ up[t].next < 4
      <3>1. up'[t].at = "look" /\ up'[t].next = up[t].next + 1 /\ up'[t].seen = up[t].seen
        <4>1. PICK n \in Nat : n = up[t].next + 1
          BY <1>1 DEF Upload
        <4>2. PICK r \in Upload : r = up[t]
          BY <1>1
        <4>3. u = [r EXCEPT !.next = n]
          BY <2>6, <4>1, <4>2
        <4>4. u.at = r.at /\ u.next = n /\ u.seen = r.seen
          BY <4>3 DEF Upload
        <4> QED BY <2>2, <4>1, <4>2, <4>4
      <3>2. LiveJobs' = LiveJobs
        BY <2>2 DEF LiveJobs
      <3>3. ASSUME NEW j \in up[t].seen \cap LiveJobs
            PROVE  /\ up[t].next \in 1..3
                   /\ OnSpot(j) => up[t].next = 1 /\ job[j] \in Busy
                   /\ up[t].next = 3 => job[j] \in Busy
        BY <2>2, <2>6, LookStep
      <3>4. LookOK(t)'
        <4>1. up[t].next \in 1..3
          BY <2>2, <2>3, <2>6 DEF LookOK
        <4> QED BY <2>2, <3>1, <3>2, <3>3, <4>1 DEF LookOK
      <3>5. SeenKnown(t)' /\ Fresh(t)'
        BY <2>2, <2>3, <3>1 DEF SeenKnown, Fresh
      <3> QED BY <2>1, <2>2, <3>4, <3>5, OneTrigger
    <2> QED BY <2>1, <2>4, <2>5, <2>6
  <1>4. ASSUME NEW t \in Triggers, Reclaim(t) PROVE LookInv'
    <2> DEFINE u == [up[t] EXCEPT !.at = "submit", !.next = 1]
    <2>1. up[t].at = "reclaim" /\ up' = [up EXCEPT ![t] = u] /\ job' = job
      BY <1>1, <1>4 DEF Reclaim
    <2>2. up'[t].at = "submit" /\ up'[t].next = 1 /\ up'[t].seen = up[t].seen
      BY <1>1, <2>1 DEF Upload
    <2>3. (LookOK(t) /\ SeenKnown(t) /\ Fresh(t))'
      BY <2>1, <2>2 DEF LookInv, LookOK, SeenKnown, Fresh
    <2> HIDE DEF u
    <2> QED BY <2>1, <2>3, OneTrigger
  <1>5. ASSUME NEW t \in Triggers, Submit(t) PROVE LookInv'
    <2>1. PICK n \in Nat, a \in {"end", "submit"}, r \in Upload :
            n = up[t].next + 1 /\ r = up[t] /\ a = IF up[t].next = scope.last THEN "end" ELSE "submit"
      BY <1>1 DEF Upload
    <2>2. PICK u : u = [r EXCEPT !.at = a, !.next = n]
      OBVIOUS
    <2>3. up' = [up EXCEPT ![t] = u]
      <3>1. up' = [up EXCEPT ![t] = [up[t] EXCEPT
                     !.at = IF up[t].next = scope.last THEN "end" ELSE "submit", !.next = up[t].next + 1]]
        BY <1>1, <1>5 DEF Submit
      <3> QED BY <2>1, <2>2, <3>1
    <2>4. up'[t].at = a /\ up'[t].next = n /\ up'[t].seen = up[t].seen
      <3>1. u.at = a /\ u.next = n /\ u.seen = r.seen
        BY <2>2 DEF Upload
      <3> QED BY <1>1, <2>1, <2>3, <3>1
    <2>5. up[t].at = "submit" /\ job' = [job EXCEPT ![<<0, t, up[t].next>>] = "runnable"]
      BY <1>5 DEF Submit
    <2>6. /\ \A i \in Jobs : Steady(i)
          /\ \A s \in Ranges : s # up[t].next => job'[<<0, t, s>>] = job[<<0, t, s>>]
      BY <2>5, TriggerJobs
    <2>7. LookOK(t)'
      BY <2>4 DEF LookOK
    <2>8. SeenKnown(t)'
      BY <2>4, <2>6 DEF LookInv, SeenKnown, Steady
    <2>9. Fresh(t)'
      <3>1. \A s \in Ranges : n <= s => s # up[t].next /\ up[t].next <= s
        BY <1>1, <2>1 DEF Ranges, Upload
      <3>2. \A s \in Ranges : n <= s => job[<<0, t, s>>] = "none"
        BY <2>5, <3>1 DEF LookInv, Fresh
      <3> QED BY <2>4, <2>6, <3>1, <3>2 DEF Fresh
    <2> QED BY <2>3, <2>5, <2>7, <2>8, <2>9, OneTrigger
  <1>6. ASSUME NEW t \in Triggers, SubmitRaises(t) \/ TriggerStops(t) PROVE LookInv'
    <2>1. PICK u : /\ up' = [up EXCEPT ![t] = u]
                   /\ u = [up[t] EXCEPT !.at = "end"] \/ u = [up[t] EXCEPT !.at = "end", !.seen = {}]
      BY <1>1, <1>6 DEF SubmitRaises, TriggerStops
    <2>2. up'[t].at = "end" /\ up'[t].seen \subseteq up[t].seen
      <3>1. u.at = "end" /\ u.seen \subseteq up[t].seen
        BY <1>1, <2>1 DEF Upload
      <3> QED BY <1>1, <2>1, <3>1
    <2>3. \/ job' = job
          \/ up[t].at = "submit" /\ job' = [job EXCEPT ![<<0, t, up[t].next>>] = "runnable"]
      BY <1>6 DEF SubmitRaises, TriggerStops
    <2>4. \A i \in Jobs : Steady(i)
      BY <2>3, TriggerJobs
    <2> QED BY <2>1, <2>2, <2>3, <2>4, EndedOK, OneTrigger
  <1>7. CASE Expire
    BY <1>7, SameJobs, QuietLooks DEF Expire
  <1> QED BY <1>2, <1>3, <1>4, <1>5, <1>6, <1>7 DEF TriggerStep

LEMMA JobLooks ==
  ASSUME TypeInv, LookInv, NEW j \in Jobs, JobStep(j)
  PROVE  LookInv'
  <1>1. NoneNew /\ \A i \in Jobs : Steady(i) \/ (AttemptFails(j) /\ i = j)
    BY JobsChange
  <1>2. CASE up' = up /\ ~AttemptFails(j)
    BY <1>1, <1>2, QuietLooks
  <1>3. CASE AttemptFails(j)
    <2>1. up' = [t \in Triggers |-> [up[t] EXCEPT !.seen = up[t].seen \ {j}]]
      BY <1>3 DEF AttemptFails
    <2>2. ASSUME NEW t \in Triggers PROVE LookOK(t)' /\ SeenKnown(t)' /\ Fresh(t)'
      <3>1. up[t] \in Upload
        BY DEF TypeInv
      <3>2. up'[t].at = up[t].at /\ up'[t].next = up[t].next /\ up'[t].seen = up[t].seen \ {j}
        BY <2>1, <3>1 DEF Upload
      <3>3. \A i \in up'[t].seen : Steady(i)
        BY <1>1, <3>1, <3>2 DEF Upload
      <3>4. \A r \in Ranges : job[<<0, t, r>>] = "none" => job'[<<0, t, r>>] = "none"
        BY <1>1, JobFacts DEF NoneNew
      <3> QED BY <3>2, <3>3, <3>4, QuietLook
    <2> QED BY <2>2 DEF LookInv
  <1> QED BY <1>2, <1>3 DEF JobStep, Starve, Begin, PutOutput, Succeed

LEMMA NextLookInv == TypeInv /\ LookInv /\ SeenShown /\ [Next]_vars => LookInv'
  <1> SUFFICES ASSUME TypeInv, LookInv, SeenShown, [Next]_vars PROVE LookInv'
    OBVIOUS
  <1>1. ASSUME NEW j \in Jobs, Starve(j) \/ Begin(j) \/ AttemptFails(j) PROVE LookInv'
    BY <1>1, JobLooks DEF JobStep
  <1>2. ASSUME NEW c \in Runs, RunStep(c) \/ RunFault(c) PROVE LookInv'
    BY <1>2, RunJobs, RunKeepsRest, QuietLooks DEF RunUnchanged
  <1>3. ASSUME NEW r \in Ranges, Age(r) PROVE LookInv'
    BY <1>3, SameJobs, QuietLooks DEF Age, RunUnchanged
  <1>4. ASSUME NEW j \in Jobs, MergeStep(j) PROVE LookInv'
    <2>1. CASE Store(j) \/ Announce(j)
      BY <2>1, JobLooks DEF JobStep, Store, Announce
    <2>2. CASE Repeat(j) \/ ListKeys(j) \/ Promote(j) \/ TurnAway(j) \/ MergeFails(j)
      <3>1. up' = up /\ job' = job
        BY <2>2 DEF Repeat, ListKeys, Promote, TurnAway, MergeFails, jobVars
      <3> QED BY <3>1, SameJobs, QuietLooks
    <2> QED BY <1>4, <2>1, <2>2 DEF MergeStep
  <1>5. CASE UNCHANGED vars
    BY <1>5, SameJobs, QuietLooks DEF vars, jobVars
  <1> QED BY <1>1, <1>2, <1>3, <1>4, <1>5, TriggerLooks, NextCases

\* The last listing is empty: of the jobs seen in flight none is.
LEMMA NotBlind ==
  ASSUME TypeInv, LookInv, SeenShown, [Next]_vars, NEW t \in Triggers,
         up[t].at = "look", up'[t].at = "reclaim"
  PROVE  up[t].seen \cap LiveJobs = {}
  <1>1. up \in [Triggers -> Upload] /\ up[t] \in Upload
    BY DEF TypeInv
  <1>2. Found(up[t].next) = {} /\ up[t].next = 4
    <2>1. up'[t] # up[t]
      OBVIOUS
    <2>2. CASE TriggerStep
      <3>1. PICK v \in Triggers : \/ Intake(v) \/ Look(v) \/ Reclaim(v) \/ Submit(v)
                                  \/ SubmitRaises(v) \/ TriggerStops(v)
        BY <2>1, <2>2 DEF TriggerStep, Expire
      <3>2. v = t
        BY <1>1, <2>1, <3>1 DEF Intake, Look, Reclaim, Submit, SubmitRaises, TriggerStops
      <3>3. CASE Look(t)
        <4>1. CASE up' = [up EXCEPT ![t].at = "end", ![t].seen = {}]
          BY <1>1, <4>1 DEF Upload
        <4>2. CASE up' = [up EXCEPT ![t].next = up[t].next + 1]
          <5>1. PICK n : n = up[t].next + 1
            OBVIOUS
          <5>2. up' = [up EXCEPT ![t] = [up[t] EXCEPT !.next = n]]
            BY <1>1, <4>2, <5>1
          <5>3. [up[t] EXCEPT !.next = n].at = up[t].at
            BY <1>1 DEF Upload
          <5> QED BY <1>1, <5>2, <5>3
        <4> QED BY <3>3, <4>1, <4>2 DEF Look
      <3>4. CASE TriggerStops(t)
        BY <1>1, <3>4 DEF TriggerStops, Upload
      <3> QED BY <3>1, <3>2, <3>3, <3>4 DEF Intake, Reclaim, Submit, SubmitRaises
    <2>3. ASSUME NEW j \in Jobs, JobStep(j) PROVE FALSE
      <3>1. up' = up \/ up' = [v \in Triggers |-> [up[v] EXCEPT !.seen = up[v].seen \ {j}]]
        BY <2>3 DEF JobStep, Starve, Begin, AttemptFails, PutOutput, Succeed
      <3>2. up'[t].at = up[t].at
        BY <1>1, <3>1 DEF Upload
      <3> QED BY <3>2
    <2>4. ASSUME NEW j \in Jobs, MergeStep(j) PROVE FALSE
      BY <2>1, <2>3, <2>4 DEF MergeStep, Store, Announce, Repeat, ListKeys, Promote, TurnAway, MergeFails, jobVars, JobStep
    <2>5. ASSUME NEW c \in Runs, RunStep(c) \/ RunFault(c) PROVE FALSE
      BY <2>1, <2>5, RunKeepsRest DEF RunUnchanged
    <2>6. ASSUME NEW r \in Ranges, Age(r) PROVE FALSE
      BY <2>1, <2>6 DEF Age, RunUnchanged
    <2> QED BY <2>1, <2>2, <2>3, <2>4, <2>5, <2>6, NextCases DEF JobStep, vars, jobVars
  <1> QED BY <1>2, LookStep

LEMMA Looks == Spec => [](LookInv /\ SeenShown)
  BY Typed, InitLookInv, NextLookInv, InitShown, NextShown, PTL DEF Spec

\* A claim is taken over only if none of the jobs that were in flight from the
\* first listing on, without falling back to the queue, still is, of those that
\* the first pages of the listings hold.
THEOREM ReclaimSees == Spec => NoBlindReclaim
  <1>1. TypeInv /\ LookInv /\ SeenShown /\ [Next]_vars =>
          [\A t \in Triggers :
             up[t].at = "look" /\ up'[t].at = "reclaim" => up[t].seen \cap LiveJobs = {}]_jobVars
    BY NotBlind
  <1> QED BY <1>1, Typed, Looks, PTL DEF Spec, NoBlindReclaim
=============================================================================
