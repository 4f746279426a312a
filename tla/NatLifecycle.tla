----------------------------- MODULE NatLifecycle -----------------------------
(***************************************************************************)
(* The life of the NAT gateway, its default route and the interface        *)
(* endpoints: created on demand by nat_manager (action=create), deleted by *)
(* nat_manager (action=delete) when the teardown decider or the idle       *)
(* reaper asks for it.                                                     *)
(*                                                                         *)
(* Processes:                                                              *)
(*   - tasks: phase workers and retrieve tasks, which take a lease and     *)
(*     invoke create synchronously until they are told "ready";            *)
(*   - creators: invocations of create, one per task (named like it) plus  *)
(*     the asynchronous warm-ups the trigger fires;                        *)
(*   - deleters: the invocation of delete the decider sends and the one    *)
(*     the reaper sends, which check the demand source by source.          *)
(* EC2's eventual changes and DynamoDB's expiries are environment steps.   *)
(* An observation of the decider or the reaper is one step: all it does is *)
(* send a delete, and the delete checks the demand again for itself.       *)
(***************************************************************************)
EXTENDS Naturals

CONSTANTS
  Workers,     \* phase tasks
  Retrievers,  \* --retrieve-only tasks
  Warmers,     \* asynchronous create invocations
  Deleters,    \* which of "decider" and "reaper" are deployed
  FirstPage,   \* rows that the first page of every scan of the cache table holds
  CreateDies,  \* a create invocation may be cut short
  DeleteDies,  \* a delete invocation may be cut short
  Gateway,     \* the holder of the nat#lease#gateway floor
  Free         \* "holder" of lock#nat-manager when the item is absent

Tasks == Workers \cup Retrievers
Creators == Tasks \cup Warmers

ASSUME NatAssumption ==
  /\ Deleters \subseteq {"decider", "reaper"}
  /\ Workers \cap Retrievers = {}
  /\ Tasks \cap Warmers = {}
  /\ Free \notin Creators
  /\ Gateway \notin Tasks
  /\ CreateDies \in BOOLEAN
  /\ DeleteDies \in BOOLEAN

VARIABLES
  nat,      \* the gateway: "down", "pending" or "available"
  route,    \* is the default route to it active?
  eps,      \* the interface endpoints; "up" from the moment they are asked for
  natlock,  \* holder of lock#nat-manager
  cpc,      \* where each create invocation is
  answer,   \* what it answered
  task,     \* life cycle of each task
  leases,   \* live nat#lease# items
  locks,    \* workers whose phase lock exists
  batch,    \* the batch_job# row
  ocr,      \* are OCR jobs in flight?
  dpc,      \* where each delete invocation is
  old,      \* history: the demand that has lasted since each of them looked
  strikes, baseline, recent,  \* reaper#state
  calm, waited                \* history: since the reaper's first strike

netVars == <<nat, route, eps>>
createVars == <<natlock, cpc, answer>>
taskVars == <<task, leases, locks>>
queueVars == <<batch, ocr>>
reaperVars == <<strikes, baseline, recent, calm, waited>>
vars == <<netVars, createVars, taskVars, queueVars, dpc, old, reaperVars>>

Running == {"running", "leased", "asking", "using", "ending", "unlocked", "released"}
Critical == {"eps", "find", "create", "await", "route", "stamp", "verify", "unlock"}
Kinds == {"lease", "task", "ocr", "batch"}
Rows == {"pending", "ready"}

TypeOK ==
  /\ nat \in {"down", "pending", "available"}
  /\ route \in BOOLEAN
  /\ eps \in {"down", "up", "deleting"}
  /\ natlock \in Creators \cup {Free}
  /\ cpc \in [Creators -> Critical \cup {"idle", "lock", "wait", "answered"}]
  /\ answer \in [Creators -> {"none", "ready", "not_ready"}]
  /\ task \in [Tasks -> Running \cup {"none", "stopped"}]
  /\ leases \in SUBSET (Tasks \cup {Gateway})
  /\ locks \in SUBSET Workers
  /\ batch \in Rows \cup {"none", "zombie"}
  /\ ocr \in BOOLEAN
  /\ dpc \in [Deleters -> Kinds \cup {"idle", "nat", "eps"}]
  /\ old \in [Deleters -> [Kinds -> SUBSET (Tasks \cup {Gateway, "job"})]]
  /\ strikes \in 0..1
  /\ baseline \in {"none", "same", "grown"}
  /\ recent \in BOOLEAN
  /\ calm \in BOOLEAN
  /\ waited \in BOOLEAN

Init ==
  /\ nat = "down" /\ route = FALSE /\ eps = "down"
  /\ natlock = Free
  /\ cpc = [c \in Creators |-> "idle"]
  /\ answer = [c \in Creators |-> "none"]
  /\ task = [t \in Tasks |-> "none"]
  /\ leases = {} /\ locks = {}
  /\ batch = "none" /\ ocr = FALSE
  /\ dpc = [d \in Deleters |-> "idle"]
  /\ old = [d \in Deleters |-> [k \in Kinds |-> {}]]
  /\ strikes = 0 /\ baseline = "none" /\ recent = FALSE
  /\ calm = FALSE /\ waited = FALSE

\* What _nat_demand_present looks for, by source.  A batch job older than
\* NAT_BATCH_DEMAND_MAX_HOURS is a zombie and no demand.
Present(k) ==
  CASE k = "lease" -> leases
    [] k = "task" -> {t \in Tasks : task[t] \in Running}
    [] k = "ocr" -> IF ocr THEN {"job"} ELSE {}
    [] k = "batch" -> IF batch \in Rows THEN {"job"} ELSE {}

Demand == \E k \in Kinds : Present(k) # {}

-----------------------------------------------------------------------------
(* nat_manager, action=create.                                             *)

Go(c, from, to) ==
  /\ cpc[c] = from
  /\ cpc' = [cpc EXCEPT ![c] = to]

\* Mutant: the put is unconditional.
LockNatAnyway(c) ==
  /\ Go(c, "lock", "eps")
  /\ natlock' = c
  /\ UNCHANGED <<netVars, answer, taskVars, queueVars, dpc, reaperVars>>

\* put_item of lock#nat-manager with attribute_not_exists.
LockNat(c) ==
  /\ \/ /\ natlock = Free
        /\ Go(c, "lock", "eps")
        /\ natlock' = c
     \/ /\ natlock # Free
        /\ Go(c, "lock", "wait")
        /\ UNCHANGED natlock
  /\ UNCHANGED <<netVars, answer, taskVars, queueVars, dpc, reaperVars>>

\* The loser: _wait_for_nat returns when the gateway is available or when it
\* has waited long enough, and the answer is "ready" either way.
LoserAnswers(c) ==
  /\ Go(c, "wait", "answered")
  /\ answer' = [answer EXCEPT ![c] = "ready"]
  /\ UNCHANGED <<netVars, natlock, taskVars, queueVars, dpc, reaperVars>>

\* _ensure_endpoints waits out the endpoints that are being deleted.  Those
\* that are pending count as there; one that still is when the wait for it
\* runs out makes the answer "not_ready", which is the last case of CreateFails.
EnsureEndpoints(c) ==
  /\ Go(c, "eps", "find")
  /\ eps # "deleting"
  /\ eps' = "up"
  /\ UNCHANGED <<nat, route, natlock, answer, taskVars, queueVars, dpc, reaperVars>>

FindNat(c) ==
  /\ Go(c, "find", IF nat = "down" THEN "create" ELSE "await")
  /\ UNCHANGED <<netVars, natlock, answer, taskVars, queueVars, dpc, reaperVars>>

CreateNat(c) ==
  /\ Go(c, "create", "await")
  /\ nat' = "pending"
  /\ UNCHANGED <<route, eps, natlock, answer, taskVars, queueVars, dpc, reaperVars>>

AwaitNat(c) ==
  /\ Go(c, "await", "route")
  /\ nat = "available"
  /\ UNCHANGED <<netVars, natlock, answer, taskVars, queueVars, dpc, reaperVars>>

\* _update_route; _wait_route_active may give up before the route is active.
UpdateRoute(c) ==
  /\ Go(c, "route", "stamp")
  /\ nat = "available"
  /\ route' \in {route, TRUE}
  /\ UNCHANGED <<nat, eps, natlock, answer, taskVars, queueVars, dpc, reaperVars>>

\* The 4 h floor lease.
StampFloor(c) ==
  /\ Go(c, "stamp", "verify")
  /\ leases' = leases \cup {Gateway}
  /\ UNCHANGED <<netVars, natlock, answer, task, locks, queueVars, dpc, reaperVars>>

Ready == nat = "available" /\ route /\ eps = "up"

Verify(c) ==
  /\ Go(c, "verify", "unlock")
  /\ answer' = [answer EXCEPT ![c] = IF Ready THEN "ready" ELSE "not_ready"]
  /\ UNCHANGED <<netVars, natlock, taskVars, queueVars, dpc, reaperVars>>

\* An EC2 call raises or a wait runs out, and the finally clause still runs;
\* or the verification finds an endpoint that is still pending.
CreateFails(c) ==
  /\ cpc[c] \in {"eps", "find", "create", "await", "route", "verify"}
  /\ cpc' = [cpc EXCEPT ![c] = "unlock"]
  /\ answer' = [answer EXCEPT ![c] = "not_ready"]
  /\ UNCHANGED <<netVars, natlock, taskVars, queueVars, dpc, reaperVars>>

UnlockNat(c) ==
  /\ Go(c, "unlock", "answered")
  /\ natlock' = Free
  /\ UNCHANGED <<netVars, answer, taskVars, queueVars, dpc, reaperVars>>

\* The create invocation times out; a synchronous caller sees an error.
CreatorDies(c) ==
  /\ CreateDies
  /\ cpc[c] \in Critical \cup {"lock", "wait"}
  /\ cpc' = [cpc EXCEPT ![c] = "answered"]
  /\ answer' = [answer EXCEPT ![c] = "not_ready"]
  /\ UNCHANGED <<netVars, natlock, taskVars, queueVars, dpc, reaperVars>>

\* _fire_nat_warmup
FireWarmup(c) ==
  /\ Go(c, "idle", "lock")
  /\ UNCHANGED <<netVars, natlock, answer, taskVars, queueVars, dpc, reaperVars>>

\* The lock's ttl (600 s) is twice the Lambda timeout (300 s), so that it
\* passes only after its holder has ended.
NatLockExpires ==
  /\ natlock # Free
  /\ cpc[natlock] \notin Critical
  /\ natlock' = Free
  /\ UNCHANGED <<netVars, cpc, answer, taskVars, queueVars, dpc, reaperVars>>

-----------------------------------------------------------------------------
(* The tasks: ecs_entrypoint.main, _ensure_nat_if_needed, nat_lease.       *)

Become(t, from, to) ==
  /\ task[t] \in from
  /\ task' = [task EXCEPT ![t] = to]

LaunchWorker(t) ==
  /\ t \notin locks
  /\ Become(t, {"none"}, "running")
  /\ locks' = locks \cup {t}
  /\ UNCHANGED <<netVars, createVars, leases, queueVars, dpc, reaperVars>>

LaunchRetrieve(t) ==
  /\ batch \in {"ready", "zombie"}
  /\ Become(t, {"none"}, "running")
  /\ UNCHANGED <<netVars, createVars, leases, locks, queueVars, dpc, reaperVars>>

AcquireLease(t) ==
  /\ Become(t, {"running"}, "leased")
  /\ leases' = leases \cup {t}
  /\ UNCHANGED <<netVars, createVars, locks, queueVars, dpc, reaperVars>>

\* The synchronous invocation of nat_manager, and its repetition.
AskForNat(t) ==
  /\ \/ Become(t, {"leased"}, "asking") /\ Go(t, "idle", "lock")
     \/ /\ answer[t] = "not_ready"
        /\ Become(t, {"asking"}, "asking") /\ Go(t, "answered", "lock")
  /\ UNCHANGED <<netVars, natlock, answer, leases, locks, queueVars, dpc, reaperVars>>

UseNat(t) ==
  /\ cpc[t] = "answered" /\ answer[t] = "ready"
  /\ Become(t, {"asking"}, "using")
  /\ UNCHANGED <<netVars, createVars, leases, locks, queueVars, dpc, reaperVars>>

\* NAT_READY_MAX_ATTEMPTS answers were not "ready": the phase aborts.
GiveUp(t) ==
  /\ cpc[t] = "answered" /\ answer[t] = "not_ready"
  /\ Become(t, {"asking"}, "ending")
  /\ UNCHANGED <<netVars, createVars, leases, locks, queueVars, dpc, reaperVars>>

\* Done; a worker in batch mode enqueues its job first, a retrieve task
\* closes the row.
Finish(t) ==
  /\ Become(t, {"using"}, "ending")
  /\ \/ t \in Workers /\ batch' \in {batch} \cup (IF batch = "none" THEN {"pending"} ELSE {})
     \/ t \in Retrievers /\ batch' = "none"
  /\ UNCHANGED <<netVars, createVars, leases, locks, ocr, dpc, reaperVars>>

\* SIGTERM: what is left to do is what is done at the end.
Interrupt(t) ==
  /\ Become(t, {"running", "leased", "asking", "using"}, "ending")
  /\ UNCHANGED <<netVars, createVars, leases, locks, queueVars, dpc, reaperVars>>

\* A failed phase 3, a submitted batch and a failed call leave the lock.
RemoveLock(t) ==
  /\ Become(t, {"ending"}, "unlocked")
  /\ locks' \in {locks, locks \ {t}}
  /\ UNCHANGED <<netVars, createVars, leases, queueVars, dpc, reaperVars>>

ReleaseLease(t) ==
  /\ Become(t, {"unlocked"}, "released")
  /\ leases' = leases \ {t}
  /\ UNCHANGED <<netVars, createVars, locks, queueVars, dpc, reaperVars>>

Stop(t) ==
  /\ Become(t, {"released"}, "stopped")
  /\ UNCHANGED <<netVars, createVars, leases, locks, queueVars, dpc, reaperVars>>

\* The task is gone without its last calls.
Crash(t) ==
  /\ Become(t, Running, "stopped")
  /\ UNCHANGED <<netVars, createVars, leases, locks, queueVars, dpc, reaperVars>>

\* A lease runs out unless its task is at work, which keeps renewing it.
LeaseExpires(h) ==
  /\ h \in leases
  /\ h \in Tasks => task[h] # "using"
  /\ leases' = leases \ {h}
  /\ UNCHANGED <<netVars, createVars, task, locks, queueVars, dpc, reaperVars>>

\* The stale-lock sweep, or the item's ttl.
LockCleared(t) ==
  /\ task[t] = "stopped"
  /\ t \in locks
  /\ locks' = locks \ {t}
  /\ UNCHANGED <<netVars, createVars, task, leases, queueVars, dpc, reaperVars>>

-----------------------------------------------------------------------------
(* The queues: the batch row (batch_poller) and the OCR jobs.              *)

BatchChanges ==
  /\ \/ batch = "pending" /\ batch' \in {"ready", "none", "zombie"}
     \/ batch = "ready" /\ batch' = "zombie"
  /\ UNCHANGED <<netVars, createVars, taskVars, ocr, dpc, reaperVars>>

OcrChanges ==
  /\ ocr' = ~ocr
  /\ UNCHANGED <<netVars, createVars, taskVars, batch, dpc, reaperVars>>

-----------------------------------------------------------------------------
(* EC2.                                                                    *)

NatBecomesAvailable ==
  /\ nat = "pending"
  /\ nat' = "available"
  /\ UNCHANGED <<route, eps, createVars, taskVars, queueVars, dpc, reaperVars>>

EndpointsGone ==
  /\ eps = "deleting"
  /\ eps' = "down"
  /\ UNCHANGED <<nat, route, createVars, taskVars, queueVars, dpc, reaperVars>>

-----------------------------------------------------------------------------
(* nat_manager, action=delete: the four checks of _nat_demand_present in   *)
(* their order, then the gateway, then the endpoints.                      *)

AfterCheck ==
  [lease |-> "task", task |-> "ocr", ocr |-> "batch", batch |-> "nat"]

\* What each look at k is bound to find.  The scans of nat_manager read one
\* page and follow no LastEvaluatedKey: of the rows, those it holds.
InView(k) ==
  IF k \in {"lease", "batch"} THEN Present(k) \cap FirstPage ELSE Present(k)

\* A look may find more of them: a row comes and goes with the page's end.
Sees(k) == {seen \in SUBSET Present(k) : InView(k) \subseteq seen}

\* Mutant: the running tasks are not looked at.
CheckNoTasks(d, k) ==
  /\ dpc[d] = k
  /\ \E seen \in Sees(k) :
       dpc' = [dpc EXCEPT ![d] =
                 IF seen = {} \/ k = "task" THEN AfterCheck[k] ELSE "idle"]
  /\ UNCHANGED <<netVars, createVars, taskVars, queueVars, reaperVars>>

Check(d, k) ==
  /\ dpc[d] = k
  /\ \E seen \in Sees(k) :
       dpc' = [dpc EXCEPT ![d] = IF seen = {} THEN AfterCheck[k] ELSE "idle"]
  /\ UNCHANGED <<netVars, createVars, taskVars, queueVars, reaperVars>>

DeleteNat(d) ==
  /\ dpc[d] = "nat"
  /\ dpc' = [dpc EXCEPT ![d] = "eps"]
  /\ nat' = "down" /\ route' = FALSE
  /\ UNCHANGED <<eps, createVars, taskVars, queueVars, reaperVars>>

DeleteEndpoints(d) ==
  /\ dpc[d] = "eps"
  /\ dpc' = [dpc EXCEPT ![d] = "idle"]
  /\ eps' = IF eps = "down" THEN "down" ELSE "deleting"
  /\ UNCHANGED <<nat, route, createVars, taskVars, queueVars, reaperVars>>

DeleterDies(d) ==
  /\ DeleteDies
  /\ dpc[d] # "idle"
  /\ dpc' = [dpc EXCEPT ![d] = "idle"]
  /\ UNCHANGED <<netVars, createVars, taskVars, queueVars, reaperVars>>

-----------------------------------------------------------------------------
(* nat_teardown, every 4 h and 10 minutes after it saw demand.             *)

Locked == natlock # Free \/ locks # {}

\* _ddb_networking_signal
Signal == leases # {} \/ batch # "none" \/ Locked

\* Its demand check is the one of nat_manager; _containers_busy then asks the
\* running tasks, of which there are none.
Decide ==
  /\ "decider" \in Deleters
  /\ dpc["decider"] = "idle"
  /\ Signal
  /\ nat # "down"
  /\ \A k \in Kinds : {} \in Sees(k)
  /\ dpc' = [dpc EXCEPT !["decider"] = "lease"]
  /\ UNCHANGED <<netVars, createVars, taskVars, queueVars, reaperVars>>

-----------------------------------------------------------------------------
(* idle_backstop_reaper, hourly.                                           *)

Save(s, b) == strikes' = s /\ baseline' = b /\ recent' = TRUE

Idle == nat # "down" /\ ~Locked /\ leases = {}

\* Mutant: growth of the output is not looked at.
StalledAnyway == Idle

\* No object was added to output/ since the last observation.
Stalled == Idle /\ baseline # "grown"

\* At least 50 minutes since the last observation.
LongAgo == strikes = 0 \/ ~recent

ReaperUnchanged == UNCHANGED <<netVars, createVars, taskVars, queueVars>>

ReaperResets ==
  /\ ~Idle
  /\ Save(0, "none")
  /\ UNCHANGED <<dpc, calm, waited>>

ReaperSeesProgress ==
  /\ Idle /\ ~Stalled
  /\ Save(0, "same")
  /\ UNCHANGED <<dpc, calm, waited>>

ReaperTooSoon ==
  /\ Stalled /\ ~LongAgo
  /\ Save(strikes, "same")
  /\ UNCHANGED <<dpc, calm, waited>>

\* Mutant: the strike is not stored.
FirstStrikeForgotten ==
  /\ Stalled /\ LongAgo /\ strikes = 0
  /\ Save(0, "same")
  /\ calm' = TRUE /\ waited' = FALSE
  /\ UNCHANGED dpc

FirstStrike ==
  /\ Stalled /\ LongAgo /\ strikes = 0
  /\ Save(1, "same")
  /\ calm' = TRUE /\ waited' = FALSE
  /\ UNCHANGED dpc

Reap ==
  /\ Stalled /\ LongAgo /\ strikes = 1
  /\ dpc["reaper"] = "idle"
  /\ dpc' = [dpc EXCEPT !["reaper"] = "lease"]
  /\ Save(0, "same")
  /\ UNCHANGED <<calm, waited>>

Observe ==
  /\ "reaper" \in Deleters
  /\ \/ ReaperResets
     \/ ReaperSeesProgress
     \/ ReaperTooSoon
     \/ FirstStrike
     \/ Reap
  /\ ReaperUnchanged

\* An hour passes.
HourPasses ==
  /\ recent
  /\ recent' = FALSE /\ waited' = TRUE
  /\ UNCHANGED <<netVars, createVars, taskVars, queueVars, dpc, strikes, baseline, calm>>

\* A task at work, or a human page, adds to output/.
OutputGrows ==
  /\ baseline' = IF baseline = "same" THEN "grown" ELSE baseline
  /\ calm' = FALSE
  /\ UNCHANGED <<netVars, createVars, taskVars, queueVars, dpc, strikes, recent, waited>>

-----------------------------------------------------------------------------
CreatorStep(c) ==
  \/ LockNat(c)
  \/ LoserAnswers(c)
  \/ EnsureEndpoints(c)
  \/ FindNat(c)
  \/ CreateNat(c)
  \/ AwaitNat(c)
  \/ UpdateRoute(c)
  \/ StampFloor(c)
  \/ Verify(c)
  \/ CreateFails(c)
  \/ UnlockNat(c)
  \/ CreatorDies(c)

TaskStep(t) ==
  \/ AcquireLease(t)
  \/ AskForNat(t)
  \/ UseNat(t)
  \/ GiveUp(t)
  \/ Finish(t)
  \/ Interrupt(t)
  \/ RemoveLock(t)
  \/ ReleaseLease(t)
  \/ Stop(t)
  \/ Crash(t)

DeleterStep(d) ==
  \/ \E k \in Kinds : Check(d, k)
  \/ DeleteNat(d)
  \/ DeleteEndpoints(d)

Environment ==
  \/ NatLockExpires
  \/ \E h \in Tasks \cup {Gateway} : LeaseExpires(h)
  \/ \E t \in Workers : LockCleared(t)
  \/ BatchChanges
  \/ OcrChanges
  \/ NatBecomesAvailable
  \/ EndpointsGone
  \/ HourPasses
  \/ OutputGrows

Step ==
  \/ \E c \in Creators : CreatorStep(c)
  \/ \E c \in Warmers : FireWarmup(c)
  \/ \E t \in Workers : LaunchWorker(t)
  \/ \E t \in Retrievers : LaunchRetrieve(t)
  \/ \E t \in Tasks : TaskStep(t)
  \/ \E d \in Deleters : DeleterStep(d) \/ DeleterDies(d)
  \/ Decide
  \/ Observe
  \/ Environment

\* d has not looked at k yet.
Ahead(d, k) ==
  dpc[d] \in {"idle", "lease"} \cup
    (CASE k = "lease" -> {}
       [] k = "task" -> {"task"}
       [] k = "ocr" -> {"task", "ocr"}
       [] k = "batch" -> {"task", "ocr", "batch"})

\* History: what k has demanded, in view, without a break since d looked.
Watch ==
  old' = [d \in Deleters |->
           [k \in Kinds |->
             IF Ahead(d, k)' THEN InView(k)' ELSE old[d][k] \cap InView(k)']]

Next == Step /\ Watch

Spec == Init /\ [][Next]_vars

\* Everything the schedules, the TTLs and EC2 are bound to do; no fairness
\* for launches, crashes, OCR and growth, nor for the decider, whose scans may
\* miss the rows that would make it look.
Fairness ==
  /\ \A c \in Creators : WF_vars(CreatorStep(c) /\ Watch)
  /\ \A t \in Tasks : WF_vars(TaskStep(t) /\ Watch)
  /\ \A d \in Deleters : WF_vars(DeleterStep(d) /\ Watch)
  /\ \A h \in Tasks \cup {Gateway} : WF_vars(LeaseExpires(h) /\ Watch)
  /\ \A t \in Workers : WF_vars(LockCleared(t) /\ Watch)
  /\ WF_vars(NatLockExpires /\ Watch)
  /\ WF_vars(NatBecomesAvailable /\ Watch)
  /\ WF_vars(EndpointsGone /\ Watch)
  /\ WF_vars(Observe /\ Watch)
  /\ WF_vars(HourPasses /\ Watch)

FairSpec == Spec /\ Fairness

-----------------------------------------------------------------------------
(* Properties.                                                             *)

\* A delete that takes the gateway down has overlooked no running task, no OCR
\* job and no lease or batch row of the first page that was there when it
\* looked and has lasted since: "the guard now lives here so EVERY delete path
\* honors it".
EarlierDemandKept ==
  [][\A d \in Deleters :
       dpc[d] = "nat" /\ dpc'[d] = "eps" => \A k \in Kinds : old[d][k] = {}]_vars

\* create_nat_gateway is never called while the environment has a gateway:
\* the find and the create are two calls, and a second gateway would never
\* be found again to be deleted.
NoSecondGateway == [][\A c \in Creators : CreateNat(c) => nat = "down"]_vars

Begins(d) == dpc[d] = "idle" /\ dpc'[d] = "lease"

\* The reaper only fires when at least an hour has passed since its first
\* strike and nothing was added to output/ in between.
ReapOnlyAfterStall ==
  [][\A d \in Deleters :
       d = "reaper" /\ Begins(d) => calm /\ waited]_vars

\* A gateway nobody needs is torn down in the end: unless, time and again,
\* there is demand, a lock or new output.
IdleNatTornDown ==
  nat # "down" ~> (nat = "down" \/ Demand \/ Locked \/ baseline = "grown")
===============================================================================
