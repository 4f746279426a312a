-------------------------- MODULE NatLifecycleProofs --------------------------
(***************************************************************************)
(* Proofs about NatLifecycle, for any sets of tasks and create             *)
(* invocations:                                                            *)
(*   - type correctness;                                                   *)
(*   - a delete never overlooks a demand in view that was there when it    *)
(*     looked and has lasted since, whatever the first page holds;         *)
(*   - lock#nat-manager makes the find and the create of a gateway one     *)
(*     step, so that there is never a second gateway;                      *)
(*   - the reaper deletes only after an hour without new output.           *)
(***************************************************************************)
EXTENDS NatLifecycle, TLAPS

(***************************************************************************)
(* Type correctness.                                                       *)
(***************************************************************************)

\* Everything TypeOK says but the type of the history variable "old".
StateOK ==
  /\ nat \in {"down", "pending", "available"}
  /\ route \in BOOLEAN
  /\ eps \in {"down", "up", "deleting"}
  /\ natlock \in Creators \cup {Free}
  /\ cpc \in [Creators -> Critical \cup {"idle", "lock", "wait", "answered"}]
  /\ answer \in [Creators -> {"none", "ready", "not_ready"}]
  /\ task \in [Tasks -> Running \cup {"none", "stopped"}]
  /\ leases \in SUBSET (Tasks \cup {Gateway})
  /\ locks \in SUBSET Workers
  /\ batch \in Rows \cup {"none", "zombie"}
  /\ ocr \in BOOLEAN
  /\ dpc \in [Deleters -> Kinds \cup {"idle", "nat", "eps"}]
  /\ strikes \in 0..1
  /\ baseline \in {"none", "same", "grown"}
  /\ recent \in BOOLEAN
  /\ calm \in BOOLEAN
  /\ waited \in BOOLEAN

OldOK == old \in [Deleters -> [Kinds -> SUBSET (Tasks \cup {Gateway, "job"})]]

LEMMA TypeOKParts == TypeOK <=> StateOK /\ OldOK
  BY DEF TypeOK, StateOK, OldOK

LEMMA InitTypeOK == Init => TypeOK
<1> SUFFICES ASSUME Init PROVE StateOK /\ OldOK
  BY TypeOKParts
<1>1. StateOK
  <2>1. /\ route \in BOOLEAN /\ ocr \in BOOLEAN /\ recent \in BOOLEAN
        /\ calm \in BOOLEAN /\ waited \in BOOLEAN
    BY Zenon DEF Init
  <2>2. strikes \in 0..1
    BY DEF Init
  <2> QED
    BY <2>1, <2>2, Zenon DEF Init, StateOK
<1>2. OldOK
  BY DEF Init, OldOK
<1> QED
  BY <1>1, <1>2

LEMMA CreatorTypes ==
  ASSUME StateOK, NEW c \in Creators, CreatorStep(c)
  PROVE  StateOK'
<1> USE DEF StateOK, Go, netVars, createVars, taskVars, queueVars, reaperVars
<1>1. CASE LockNat(c)
  BY <1>1 DEF LockNat, Critical
<1>2. CASE LoserAnswers(c)
  BY <1>2 DEF LoserAnswers
<1>3. CASE EnsureEndpoints(c)
  BY <1>3 DEF EnsureEndpoints, Critical
<1>4. CASE FindNat(c)
  BY <1>4 DEF FindNat, Critical
<1>5. CASE CreateNat(c)
  BY <1>5 DEF CreateNat, Critical
<1>6. CASE AwaitNat(c)
  BY <1>6 DEF AwaitNat, Critical
<1>7. CASE UpdateRoute(c)
  <2>1. route' \in BOOLEAN
    BY <1>7, Zenon DEF UpdateRoute
  <2> QED
    BY <1>7, <2>1 DEF UpdateRoute, Critical
<1>8. CASE StampFloor(c)
  BY <1>8 DEF StampFloor, Critical
<1>9. CASE Verify(c)
  BY <1>9 DEF Verify, Critical
<1>10. CASE CreateFails(c)
  BY <1>10 DEF CreateFails, Critical
<1>11. CASE UnlockNat(c)
  BY <1>11 DEF UnlockNat
<1>12. CASE CreatorDies(c)
  BY <1>12 DEF CreatorDies
<1> QED
  BY <1>1, <1>2, <1>3, <1>4, <1>5, <1>6, <1>7, <1>8, <1>9, <1>10, <1>11, <1>12
  DEF CreatorStep

LEMMA TaskTypes ==
  ASSUME StateOK, NEW t \in Tasks, TaskStep(t)
  PROVE  StateOK'
<1> USE DEF StateOK, Go, Become, Running,
            netVars, createVars, taskVars, queueVars, reaperVars
<1>0. t \in Creators
  BY DEF Creators
<1>1. CASE AcquireLease(t)
  BY <1>1 DEF AcquireLease
<1>2. CASE AskForNat(t)
  BY <1>0, <1>2 DEF AskForNat
<1>3. CASE UseNat(t)
  BY <1>3 DEF UseNat
<1>4. CASE GiveUp(t)
  BY <1>4 DEF GiveUp
<1>5. CASE Finish(t)
  BY <1>5 DEF Finish, Rows
<1>6. CASE ReleaseLease(t)
  BY <1>6 DEF ReleaseLease
<1>9. CASE Interrupt(t)
  BY <1>9 DEF Interrupt
<1>10. CASE RemoveLock(t)
  BY <1>10 DEF RemoveLock
<1>7. CASE Stop(t)
  BY <1>7 DEF Stop
<1>8. CASE Crash(t)
  BY <1>8 DEF Crash
<1> QED
  BY <1>1, <1>2, <1>3, <1>4, <1>5, <1>6, <1>7, <1>8, <1>9, <1>10
  DEF TaskStep

LEMMA DeleterTypes ==
  ASSUME StateOK, NEW d \in Deleters, DeleterStep(d) \/ DeleterDies(d)
  PROVE  StateOK'
<1> USE DEF StateOK, netVars, createVars, taskVars, queueVars, reaperVars
<1>1. ASSUME NEW k \in Kinds, Check(d, k)
      PROVE  StateOK'
  <2>1. AfterCheck[k] \in Kinds \cup {"nat"}
    BY DEF AfterCheck, Kinds
  <2> QED
    BY <1>1, <2>1 DEF Check
<1>2. CASE DeleteNat(d)
  BY <1>2 DEF DeleteNat
<1>3. CASE DeleteEndpoints(d)
  BY <1>3 DEF DeleteEndpoints
<1>4. CASE DeleterDies(d)
  BY <1>4 DEF DeleterDies
<1> QED
  BY <1>1, <1>2, <1>3, <1>4 DEF DeleterStep

LEMMA ObserverTypes ==
  ASSUME StateOK, Decide \/ Observe
  PROVE  StateOK'
<1> USE DEF StateOK, netVars, createVars, taskVars, queueVars, reaperVars, Kinds
<1>1. CASE Decide
  BY <1>1 DEF Decide
<1>2. CASE Observe
  <2>1. CASE ReaperResets
    BY <1>2, <2>1 DEF Observe, ReaperUnchanged, ReaperResets, Save
  <2>2. CASE ReaperSeesProgress
    BY <1>2, <2>2 DEF Observe, ReaperUnchanged, ReaperSeesProgress, Save
  <2>3. CASE ReaperTooSoon
    BY <1>2, <2>3 DEF Observe, ReaperUnchanged, ReaperTooSoon, Save
  <2>4. CASE FirstStrike
    <3>1. strikes' = 1 /\ baseline' = "same" /\ UNCHANGED dpc
      BY <2>4 DEF FirstStrike, Save
    <3>2. recent' \in BOOLEAN /\ calm' \in BOOLEAN /\ waited' \in BOOLEAN
      BY <2>4, Zenon DEF FirstStrike, Save
    <3> QED
      BY <1>2, <3>1, <3>2 DEF Observe, ReaperUnchanged
  <2>5. CASE Reap
    BY <1>2, <2>5 DEF Observe, ReaperUnchanged, Reap, Save
  <2> QED
    BY <1>2, <2>1, <2>2, <2>3, <2>4, <2>5 DEF Observe
<1> QED
  BY <1>1, <1>2

LEMMA EnvironmentTypes ==
  ASSUME StateOK, Environment
  PROVE  StateOK'
<1> USE DEF StateOK, netVars, createVars, taskVars, queueVars, reaperVars
<1>1. CASE NatLockExpires
  BY <1>1 DEF NatLockExpires
<1>2. ASSUME NEW h \in Tasks \cup {Gateway}, LeaseExpires(h)
      PROVE  StateOK'
  BY <1>2 DEF LeaseExpires
<1>3. ASSUME NEW t \in Workers, LockCleared(t)
      PROVE  StateOK'
  BY <1>3 DEF LockCleared
<1>4. CASE BatchChanges
  BY <1>4 DEF BatchChanges, Rows
<1>5. CASE OcrChanges
  BY <1>5 DEF OcrChanges
<1>6. CASE NatBecomesAvailable
  BY <1>6 DEF NatBecomesAvailable
<1>7. CASE EndpointsGone
  BY <1>7 DEF EndpointsGone
<1>8. CASE HourPasses
  BY <1>8 DEF HourPasses
<1>9. CASE OutputGrows
  BY <1>9 DEF OutputGrows
<1> QED
  BY <1>1, <1>2, <1>3, <1>4, <1>5, <1>6, <1>7, <1>8, <1>9 DEF Environment

LEMMA StepTypes ==
  ASSUME StateOK, Step
  PROVE  StateOK'
<1>1. ASSUME NEW c \in Warmers, FireWarmup(c)
      PROVE  StateOK'
  BY <1>1
  DEF FireWarmup, Go, StateOK, Creators, netVars, taskVars, queueVars, reaperVars
<1>2. ASSUME NEW t \in Workers, LaunchWorker(t)
      PROVE  StateOK'
  BY <1>2
  DEF LaunchWorker, Become, StateOK, Running, Tasks,
      netVars, createVars, queueVars, reaperVars
<1>3. ASSUME NEW t \in Retrievers, LaunchRetrieve(t)
      PROVE  StateOK'
  BY <1>3
  DEF LaunchRetrieve, Become, StateOK, Running, Tasks,
      netVars, createVars, queueVars, reaperVars
<1> QED
  BY <1>1, <1>2, <1>3, CreatorTypes, TaskTypes, DeleterTypes, ObserverTypes,
     EnvironmentTypes
  DEF Step

LEMMA NextTypeOK == TypeOK /\ [Next]_vars => TypeOK'
<1> SUFFICES ASSUME TypeOK, [Next]_vars
             PROVE  StateOK' /\ OldOK'
  BY TypeOKParts, PTL
<1>0. StateOK /\ OldOK
  BY TypeOKParts
<1>1. CASE Next
  <2>1. StateOK'
    BY <1>0, <1>1, StepTypes DEF Next
  <2>2. \A k \in Kinds : InView(k)' \subseteq Tasks \cup {Gateway, "job"}
    <3>1. \A k \in Kinds : Present(k)' \subseteq Tasks \cup {Gateway, "job"}
      BY <2>1 DEF StateOK, Present, Kinds
    <3> QED
      BY <3>1 DEF InView
  <2>3. \A d \in Deleters, k \in Kinds : old[d][k] \subseteq Tasks \cup {Gateway, "job"}
    BY <1>0 DEF OldOK
  <2>4. OldOK'
    BY <1>1, <2>2, <2>3 DEF Next, Watch, OldOK
  <2> QED
    BY <2>1, <2>4
<1>2. CASE UNCHANGED vars
  BY <1>0, <1>2
  DEF vars, netVars, createVars, taskVars, queueVars, reaperVars, StateOK, OldOK
<1> QED
  BY <1>1, <1>2

\* Every behaviour keeps the types of TypeOK.
THEOREM TypeCorrect == Spec => []TypeOK
  BY InitTypeOK, NextTypeOK, PTL DEF Spec

(***************************************************************************)
(* The guard of delete.                                                    *)
(***************************************************************************)

\* What was there when d looked has made d give up: of the sources d has
\* passed, nothing is left that has lasted since.
GuardInv ==
  \A d \in Deleters :
    /\ dpc[d] \in {"task", "ocr", "batch", "nat"} => old[d]["lease"] = {}
    /\ dpc[d] \in {"ocr", "batch", "nat"} => old[d]["task"] = {}
    /\ dpc[d] \in {"batch", "nat"} => old[d]["ocr"] = {}
    /\ dpc[d] = "nat" => old[d]["batch"] = {}

\* How one step moves a deleter.
Moves(d) ==
  \/ dpc'[d] = dpc[d]
  \/ dpc'[d] = "idle"
  \/ dpc[d] = "idle" /\ dpc'[d] = "lease"
  \/ dpc[d] = "nat" /\ dpc'[d] = "eps"
  \/ \E k \in Kinds : dpc[d] = k /\ dpc'[d] = AfterCheck[k] /\ InView(k)' = {}

LEMMA DeleterMoves ==
  ASSUME TypeOK, Step
  PROVE  \A d \in Deleters : Moves(d)
<1> SUFFICES ASSUME NEW d \in Deleters PROVE Moves(d)
  OBVIOUS
<1>0. dpc \in [Deleters -> Kinds \cup {"idle", "nat", "eps"}]
  BY DEF TypeOK
<1>1. CASE UNCHANGED dpc
  BY <1>1 DEF Moves
<1>2. ASSUME NEW e \in Deleters, NEW k \in Kinds, Check(e, k)
      PROVE  Moves(d)
  <2>1. CASE e = d
    <3>1. PICK seen \in Sees(k) :
            dpc'[d] = IF seen = {} THEN AfterCheck[k] ELSE "idle"
      BY <1>0, <1>2, <2>1 DEF Check
    <3>2. InView(k)' = InView(k)
      BY <1>2 DEF Check, InView, Present, taskVars, queueVars
    <3>3. seen = {} => InView(k) = {}
      BY DEF Sees
    <3>4. dpc[d] = k
      BY <1>2, <2>1 DEF Check
    <3> QED
      BY <3>1, <3>2, <3>3, <3>4 DEF Moves
  <2>2. CASE e # d
    BY <1>0, <1>2, <2>2 DEF Check, Moves
  <2> QED
    BY <2>1, <2>2
<1>3. ASSUME NEW e \in Deleters, DeleteNat(e) \/ DeleteEndpoints(e) \/ DeleterDies(e)
      PROVE  Moves(d)
  BY <1>0, <1>3 DEF DeleteNat, DeleteEndpoints, DeleterDies, Moves
<1>4. CASE Decide
  BY <1>0, <1>4 DEF Decide, Moves
<1>5. CASE Observe
  BY <1>0, <1>5
  DEF Observe, ReaperResets, ReaperSeesProgress, ReaperTooSoon, FirstStrike, Reap, Moves
<1>6. ASSUME NEW c \in Creators, CreatorStep(c)
      PROVE  UNCHANGED dpc
  BY <1>6
  DEF CreatorStep, LockNat, LoserAnswers, EnsureEndpoints, FindNat, CreateNat,
      AwaitNat, UpdateRoute, StampFloor, Verify, CreateFails, UnlockNat, CreatorDies
<1>7. ASSUME NEW t \in Tasks, TaskStep(t)
      PROVE  UNCHANGED dpc
  BY <1>7
  DEF TaskStep, AcquireLease, AskForNat, UseNat, GiveUp, Finish, Interrupt,
      RemoveLock, ReleaseLease,
      Stop, Crash
<1>8. CASE Environment
  BY <1>1, <1>8
  DEF Environment, NatLockExpires, LeaseExpires, LockCleared, BatchChanges,
      OcrChanges, NatBecomesAvailable, EndpointsGone,
      HourPasses, OutputGrows
<1> QED
  BY <1>1, <1>2, <1>3, <1>4, <1>5, <1>6, <1>7, <1>8
  DEF Step, DeleterStep, FireWarmup, LaunchWorker, LaunchRetrieve

LEMMA NextGuardInv ==
  ASSUME TypeOK, GuardInv, [Next]_vars
  PROVE  GuardInv'
<1>1. CASE Next
  <2> SUFFICES ASSUME NEW d \in Deleters
               PROVE
        /\ dpc'[d] \in {"task", "ocr", "batch", "nat"} => old'[d]["lease"] = {}
        /\ dpc'[d] \in {"ocr", "batch", "nat"} => old'[d]["task"] = {}
        /\ dpc'[d] \in {"batch", "nat"} => old'[d]["ocr"] = {}
        /\ dpc'[d] = "nat" => old'[d]["batch"] = {}
    BY DEF GuardInv
  <2>1. Moves(d)
    BY <1>1, DeleterMoves DEF Next
  <2>2. \A k \in Kinds : ~Ahead(d, k)' => old'[d][k] = old[d][k] \cap InView(k)'
    BY <1>1 DEF Next, Watch
  <2>3. CASE dpc'[d] = dpc[d]
    BY <2>2, <2>3 DEF GuardInv, Kinds, Ahead
  <2>4. CASE dpc'[d] \in {"idle", "lease", "eps"}
    BY <2>4
  <2>5. ASSUME NEW k \in Kinds,
               dpc[d] = k, dpc'[d] = AfterCheck[k], InView(k)' = {}
        PROVE
        /\ dpc'[d] \in {"task", "ocr", "batch", "nat"} => old'[d]["lease"] = {}
        /\ dpc'[d] \in {"ocr", "batch", "nat"} => old'[d]["task"] = {}
        /\ dpc'[d] \in {"batch", "nat"} => old'[d]["ocr"] = {}
        /\ dpc'[d] = "nat" => old'[d]["batch"] = {}
    <3>1. old'[d][k] = {}
      BY <2>2, <2>5 DEF Ahead, AfterCheck, Kinds
    <3>2. \A j \in Kinds : ~Ahead(d, j)' /\ old[d][j] = {} => old'[d][j] = {}
      BY <2>2
    <3> QED
      BY <2>5, <3>1, <3>2 DEF GuardInv, Kinds, AfterCheck, Ahead
  <2> QED
    BY <2>1, <2>3, <2>4, <2>5 DEF Moves
<1>2. CASE UNCHANGED vars
  BY <1>2 DEF vars, GuardInv
<1> QED
  BY <1>1, <1>2

\* _delete_all's guard is sound for every running task, every OCR job and
\* every row of the first page that was there when it looked and has lasted
\* since, whichever rows the first page holds.
THEOREM DemandIsRespected == Spec => EarlierDemandKept
<1>1. Init => GuardInv
  BY DEF Init, GuardInv
<1>2. TypeOK /\ GuardInv /\ [Next]_vars => GuardInv'
  BY NextGuardInv
<1>3. TypeOK /\ GuardInv /\ [Next]_vars =>
        [\A d \in Deleters :
           dpc[d] = "nat" /\ dpc'[d] = "eps" => \A k \in Kinds : old[d][k] = {}]_vars
  BY DEF GuardInv, Kinds
<1> QED
  BY <1>1, <1>2, <1>3, TypeCorrect, PTL DEF Spec, EarlierDemandKept

(***************************************************************************)
(* One gateway.                                                            *)
(***************************************************************************)

\* The lock covers find to unlock, and nothing else makes a gateway.
OneCreatorInv ==
  \A c \in Creators :
    /\ cpc[c] \in Critical => natlock = c
    /\ cpc[c] = "create" => nat = "down"

LEMMA CreatorKeepsLock ==
  ASSUME TypeOK, OneCreatorInv, NEW c \in Creators, CreatorStep(c)
  PROVE  OneCreatorInv'
<1>0. /\ cpc \in [Creators -> Critical \cup {"idle", "lock", "wait", "answered"}]
      /\ Free \notin Creators
  BY NatAssumption DEF TypeOK
<1> USE DEF OneCreatorInv, Go, Critical, netVars
<1>1. CASE LockNat(c)
  BY <1>0, <1>1 DEF LockNat
<1>2. CASE LoserAnswers(c) \/ CreatorDies(c) \/ UnlockNat(c)
  BY <1>0, <1>2 DEF LoserAnswers, CreatorDies, UnlockNat
<1>3. CASE EnsureEndpoints(c) \/ FindNat(c) \/ CreateNat(c)
  BY <1>0, <1>3 DEF EnsureEndpoints, FindNat, CreateNat
<1>4. CASE AwaitNat(c) \/ UpdateRoute(c) \/ StampFloor(c)
  BY <1>0, <1>4 DEF AwaitNat, UpdateRoute, StampFloor
<1>5. CASE Verify(c) \/ CreateFails(c)
  BY <1>0, <1>5 DEF Verify, CreateFails
<1> QED
  BY <1>1, <1>2, <1>3, <1>4, <1>5 DEF CreatorStep

LEMMA NextOneCreator ==
  ASSUME TypeOK, OneCreatorInv, [Next]_vars
  PROVE  OneCreatorInv'
<1>0. /\ cpc \in [Creators -> Critical \cup {"idle", "lock", "wait", "answered"}]
      /\ Free \notin Creators
      /\ Tasks \subseteq Creators
      /\ natlock \in Creators \cup {Free}
  BY NatAssumption DEF TypeOK, Creators
<1> USE DEF OneCreatorInv
<1>1. CASE UNCHANGED <<cpc, natlock, nat>>
  BY <1>1
<1>2. ASSUME NEW c \in Warmers, FireWarmup(c)
      PROVE  OneCreatorInv'
  BY <1>0, <1>2 DEF FireWarmup, Go, Critical, netVars
<1>3. ASSUME NEW t \in Tasks, AskForNat(t)
      PROVE  OneCreatorInv'
  BY <1>0, <1>3 DEF AskForNat, Go, Critical, netVars
<1>4. CASE NatLockExpires
  BY <1>0, <1>4 DEF NatLockExpires, netVars
<1>5. CASE NatBecomesAvailable
  BY <1>5 DEF NatBecomesAvailable, createVars
<1>6. ASSUME NEW d \in Deleters, DeleteNat(d)
      PROVE  OneCreatorInv'
  BY <1>6 DEF DeleteNat, createVars
<1>7. ASSUME NEW d \in Deleters,
             (\E k \in Kinds : Check(d, k)) \/ DeleteEndpoints(d) \/ DeleterDies(d)
      PROVE  UNCHANGED <<cpc, natlock, nat>>
  BY <1>7 DEF Check, DeleteEndpoints, DeleterDies, createVars, netVars
<1>8. ASSUME NEW t \in Tasks, TaskStep(t), ~AskForNat(t)
      PROVE  UNCHANGED <<cpc, natlock, nat>>
  BY <1>8
  DEF TaskStep, AcquireLease, UseNat, GiveUp, Finish, Interrupt,
      RemoveLock, ReleaseLease, Stop, Crash,
      createVars, netVars
<1>9. CASE Decide \/ Observe
  BY <1>1, <1>9 DEF Decide, Observe, ReaperUnchanged, createVars, netVars
<1>10. CASE Environment
  BY <1>1, <1>4, <1>5, <1>10
  DEF Environment, LeaseExpires, LockCleared, BatchChanges, OcrChanges,
      EndpointsGone, HourPasses, OutputGrows, createVars, netVars
<1>11. ASSUME NEW t \in Tasks, LaunchWorker(t) \/ LaunchRetrieve(t)
       PROVE  UNCHANGED <<cpc, natlock, nat>>
  BY <1>11 DEF LaunchWorker, LaunchRetrieve, createVars, netVars
<1>12. CASE UNCHANGED vars
  BY <1>1, <1>12 DEF vars, netVars, createVars
<1>13. CASE Step
  BY <1>1, <1>2, <1>3, <1>6, <1>7, <1>8, <1>9, <1>10, <1>11, <1>13, CreatorKeepsLock
  DEF Step, DeleterStep, Tasks
<1> QED
  BY <1>12, <1>13 DEF Next

\* create_nat_gateway is only called when there is no gateway.
THEOREM OneGateway == Spec => NoSecondGateway
<1>1. Init => OneCreatorInv
  BY DEF Init, OneCreatorInv, Critical
<1>2. TypeOK /\ OneCreatorInv /\ [Next]_vars => OneCreatorInv'
  BY NextOneCreator
<1>3. TypeOK /\ OneCreatorInv /\ [Next]_vars =>
        [\A c \in Creators : CreateNat(c) => nat = "down"]_vars
  BY DEF OneCreatorInv, CreateNat, Go
<1> QED
  BY <1>1, <1>2, <1>3, TypeCorrect, PTL DEF Spec, NoSecondGateway
(***************************************************************************)
(* The reaper.                                                             *)
(***************************************************************************)

\* What the stored state says of the time since the first strike.
StallInv ==
  strikes = 1 =>
    /\ baseline \in {"same", "grown"}
    /\ baseline = "same" => calm
    /\ ~recent => waited

LEMMA ObserveStall ==
  ASSUME TypeOK, StallInv, Observe
  PROVE  StallInv'
<1>1. CASE ReaperResets \/ ReaperSeesProgress \/ Reap
  BY <1>1 DEF ReaperResets, ReaperSeesProgress, Reap, Save, StallInv
<1>2. CASE ReaperTooSoon
  <2>1. strikes' = strikes /\ baseline' = "same" /\ recent' = TRUE /\ calm' = calm
    BY <1>2 DEF ReaperTooSoon, Save
  <2>2. strikes = 1 => calm
    BY <1>2 DEF ReaperTooSoon, Stalled, StallInv
  <2> QED
    BY <2>1, <2>2 DEF StallInv
<1>3. CASE FirstStrike
  BY <1>3 DEF FirstStrike, Save, StallInv
<1> QED
  BY <1>1, <1>2, <1>3 DEF Observe

\* Only the reaper, the clock and new output change what the invariant is about.
LEMMA OthersStall ==
  ASSUME Step
  PROVE  UNCHANGED reaperVars \/ Observe \/ HourPasses \/ OutputGrows
<1>1. ASSUME NEW c \in Creators, CreatorStep(c)
      PROVE  UNCHANGED reaperVars
  BY <1>1
  DEF CreatorStep, LockNat, LoserAnswers, EnsureEndpoints, FindNat, CreateNat,
      AwaitNat, UpdateRoute, StampFloor, Verify, CreateFails, UnlockNat, CreatorDies
<1>2. ASSUME NEW t \in Tasks, TaskStep(t)
      PROVE  UNCHANGED reaperVars
  BY <1>2
  DEF TaskStep, AcquireLease, AskForNat, UseNat, GiveUp, Finish, Interrupt,
      RemoveLock, ReleaseLease, Stop, Crash
<1>3. ASSUME NEW d \in Deleters, DeleterStep(d) \/ DeleterDies(d)
      PROVE  UNCHANGED reaperVars
  BY <1>3 DEF DeleterStep, Check, DeleteNat, DeleteEndpoints, DeleterDies
<1>4. CASE Environment
  BY <1>4
  DEF Environment, NatLockExpires, LeaseExpires, LockCleared, BatchChanges,
      OcrChanges, NatBecomesAvailable, EndpointsGone
<1> QED
  BY <1>1, <1>2, <1>3, <1>4 DEF Step, FireWarmup, LaunchWorker, LaunchRetrieve, Decide

LEMMA NextStall ==
  ASSUME TypeOK, StallInv, [Next]_vars
  PROVE  StallInv'
<1>1. CASE UNCHANGED reaperVars
  BY <1>1 DEF reaperVars, StallInv
<1>2. CASE HourPasses
  BY <1>2 DEF HourPasses, StallInv
<1>3. CASE OutputGrows
  BY <1>3 DEF OutputGrows, StallInv
<1>4. CASE UNCHANGED vars
  BY <1>1, <1>4 DEF vars
<1> QED
  BY <1>1, <1>2, <1>3, <1>4, ObserveStall, OthersStall DEF Next

\* A delete of the reaper begins with the observation that finds a second strike.
LEMMA ReapBegins ==
  ASSUME TypeOK, [Next]_vars, "reaper" \in Deleters, Begins("reaper")
  PROVE  Reap
<1>0. dpc \in [Deleters -> Kinds \cup {"idle", "nat", "eps"}] /\ dpc["reaper"] = "idle"
      /\ dpc'["reaper"] = "lease"
  BY DEF TypeOK, Begins
<1>1. ~UNCHANGED dpc
  BY <1>0
<1>2. ASSUME NEW d \in Deleters, DeleterStep(d) \/ DeleterDies(d)
      PROVE  FALSE
  <2>1. d = "reaper"
    BY <1>0, <1>2 DEF DeleterStep, Check, DeleteNat, DeleteEndpoints, DeleterDies
  <2> QED
    BY <1>0, <1>2, <2>1 DEF DeleterStep, Check, DeleteNat, DeleteEndpoints, DeleterDies, Kinds
<1>3. ~Decide
  BY <1>0 DEF Decide
<1>4. CASE Observe
  BY <1>1, <1>4 DEF Observe, ReaperResets, ReaperSeesProgress, ReaperTooSoon, FirstStrike
<1>5. ASSUME NEW c \in Creators, CreatorStep(c)
      PROVE  UNCHANGED dpc
  BY <1>5
  DEF CreatorStep, LockNat, LoserAnswers, EnsureEndpoints, FindNat, CreateNat,
      AwaitNat, UpdateRoute, StampFloor, Verify, CreateFails, UnlockNat, CreatorDies
<1>6. ASSUME NEW t \in Tasks, TaskStep(t)
      PROVE  UNCHANGED dpc
  BY <1>6
  DEF TaskStep, AcquireLease, AskForNat, UseNat, GiveUp, Finish, Interrupt,
      RemoveLock, ReleaseLease, Stop, Crash
<1>7. CASE Environment
  BY <1>1, <1>7
  DEF Environment, NatLockExpires, LeaseExpires, LockCleared, BatchChanges,
      OcrChanges, NatBecomesAvailable, EndpointsGone,
      HourPasses, OutputGrows
<1> QED
  BY <1>1, <1>2, <1>3, <1>4, <1>5, <1>6, <1>7
  DEF Next, Step, FireWarmup, LaunchWorker, LaunchRetrieve, vars

\* The reaper never deletes before an hour has passed since its first strike,
\* nor if output was added in between.
THEOREM ReapNeedsStall == Spec => ReapOnlyAfterStall
<1>1. Init => StallInv
  BY DEF Init, StallInv
<1>2. TypeOK /\ StallInv /\ [Next]_vars => StallInv'
  BY NextStall
<1>3. TypeOK /\ StallInv /\ [Next]_vars =>
        [\A d \in Deleters : d = "reaper" /\ Begins(d) => calm /\ waited]_vars
  <2> SUFFICES ASSUME TypeOK, StallInv, [Next]_vars, "reaper" \in Deleters, Begins("reaper")
               PROVE  calm /\ waited
    OBVIOUS
  <2>1. Reap
    BY ReapBegins
  <2>2. baseline = "same" /\ ~recent /\ strikes = 1
    BY <2>1 DEF Reap, Stalled, LongAgo, StallInv
  <2> QED
    BY <2>2 DEF StallInv
<1> QED
  BY <1>1, <1>2, <1>3, TypeCorrect, PTL DEF Spec, ReapOnlyAfterStall
===============================================================================
