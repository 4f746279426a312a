-------------------------- MODULE LaunchLockProofs --------------------------
(***************************************************************************)
(* Proofs about LaunchLock, for any number of invocations, tasks, books    *)
(* and any length of run:                                                  *)
(*   - type correctness;                                                   *)
(*   - the reclaim path never steals a lock in use, as long as the grace   *)
(*     window is at least as long as the Lambda's timeout;                 *)
(*   - a lock in use is lost only to one of the named thefts;              *)
(*   - whoever relies on a lock owns it, unless its item was deleted       *)
(*     unconditionally, so that two tasks at work under one key are never  *)
(*     due to the protocol of the launches itself.                         *)
(***************************************************************************)
EXTENDS LaunchLock, TLAPS

(***************************************************************************)
(* Type correctness.                                                       *)
(***************************************************************************)

LEMMA InitTypeOK == Init => TypeOK
  BY LaunchLockAssumption
  DEF Init, TypeOK, NoLock, Active, Running, Tasks

LEMMA NextTypeOK == TypeOK /\ [Next]_vars => TypeOK'
<1> SUFFICES ASSUME TypeOK, [Next]_vars
             PROVE  TypeOK'
  OBVIOUS
<1> USE LaunchLockAssumption DEF TypeOK
<1>k. \A t \in Tasks : LockKey(t) \in Book \cup {AllBooks}
  BY DEF LockKey
<1>1. ASSUME NEW l \in Launchers, LauncherStep(l)
      PROVE  TypeOK'
  <2> l \in Tasks /\ LockKey(l) \in Book \cup {AllBooks}
    BY <1>k DEF Tasks
  <2>1. CASE Begin(l)
    BY <2>1 DEF Begin, Move, Active
  <2>2. CASE PutLock(l)
    BY <2>2 DEF PutLock, TryPut, Move, Item, Active, obsVars
  <2>3. CASE ListTasks(l)
    BY <2>3 DEF ListTasks, Move, Active
  <2>4. CASE ReadAge(l)
    BY <2>4 DEF ReadAge, Move, Active
  <2>5. CASE DeleteStale(l)
    BY <2>5 DEF DeleteStale, Move, NoLock, Active, obsVars
  <2>6. CASE PutReclaimed(l)
    BY <2>6 DEF PutReclaimed, TryPut, Move, Item, Active, obsVars
  <2>7. CASE Skip(l)
    BY <2>7 DEF Skip, Move, Active, obsVars
  <2>8. CASE Launch(l)
    BY <2>8 DEF Launch, Place, Move, Running, obsVars
  <2>9. CASE LaunchFails(l)
    BY <2>9 DEF LaunchFails, Place, Move, Active, Running, obsVars
  <2>10. CASE UndoLock(l)
    BY <2>10 DEF UndoLock, Drop, Move, NoLock, obsVars
  <2>11. CASE Die(l)
    BY <2>11 DEF Die, obsVars
  <2> QED
    BY <1>1, <2>1, <2>2, <2>3, <2>4, <2>5, <2>6, <2>7, <2>8, <2>9, <2>10, <2>11
    DEF LauncherStep
<1>2. ASSUME NEW t \in Tasks, TaskStep(t)
      PROVE  TypeOK'
  <2>1. LockKey(t) \in Book \cup {AllBooks}
    BY <1>k
  <2>2. /\ UNCHANGED <<clock, pc, book, obsVars, pending, sweep>>
        /\ Drop(LockKey(t)) \/ UNCHANGED <<lock, dropped>>
    BY <1>2
    DEF TaskStep, PreparePhase1, Release, Exit, ExitHolding, Interrupt,
        EmergencyRelease, Kill, RemoveLock
  <2>3. \E to \in Running \cup {"stopping", "stopped"} : task' = [task EXCEPT ![t] = to]
    BY <1>2
    DEF TaskStep, PreparePhase1, Release, Exit, ExitHolding, Interrupt,
        EmergencyRelease, Kill, BecomeTask, Running
  <2> QED
    BY <2>1, <2>2, <2>3 DEF Drop, NoLock, obsVars
<1>3. ASSUME NEW t \in Retrievers, StartRetrieve(t)
      PROVE  TypeOK'
  BY <1>3 DEF StartRetrieve, BecomeTask, Running, obsVars, Tasks
<1>4. ASSUME NEW s \in Sweepers, SweepStep(s)
      PROVE  TypeOK'
  BY <1>4
  DEF SweepStep, SweepGet, SweepList, SweepDelete, Look, Drop, NoLock, obsVars
<1>5. ASSUME NEW k \in Book \cup {AllBooks}, Expire(k)
      PROVE  TypeOK'
  BY <1>5 DEF Expire, Drop, NoLock, obsVars
<1>6. CASE Tick
  BY <1>6 DEF Tick, obsVars
<1>7. CASE UNCHANGED vars
  BY <1>7 DEF vars
<1> QED
  BY <1>1, <1>2, <1>3, <1>4, <1>5, <1>6, <1>7 DEF Next

\* Every variable keeps its type.
THEOREM TypeCorrect == Spec => []TypeOK
<1> QED
  BY InitTypeOK, NextTypeOK, PTL DEF Spec

(***************************************************************************)
(* The reclaim path.  The argument is about time: an invocation launches   *)
(* within LambdaTimeout of the second its lock carries, and a reclaimer    *)
(* only reclaims a lock that is more than Grace older than its own start.  *)
(* So when LambdaTimeout <= Grace the holder had launched, if ever, before *)
(* the reclaimer listed the tasks, and the list would have shown its task. *)
(***************************************************************************)

\* A lock item describes its acquisition.
LockDescribesOwner ==
  \A k \in Book \cup {AllBooks} :
    LET o == lock[k].owner
    IN  o \in Launchers => lock[k].ts = now[o] /\ pc[o] # "idle" /\ pc[o] # "put"

\* An invocation is never older than LambdaTimeout.
InTime ==
  \A l \in Launchers :
    /\ pc[l] # "idle" => now[l] <= clock
    /\ pc[l] \in Active => clock <= now[l] + LambdaTimeout

\* A task comes from an invocation that got to run_task.
TaskWasLaunched ==
  \A l \in Launchers : task[l] # "none" => pc[l] \in {"launched", "undo", "dead"}

\* After an empty listing only tasks launched since are at work.
ListingHolds ==
  \A l, m \in Launchers :
    /\ pc[l] \in {"age", "reclaim"}
    /\ ~live[l]
    /\ task[m] \in {"starting", "working"}
    => now[l] <= now[m] + LambdaTimeout

\* What the decision to reclaim was based on.
ReclaimDecision ==
  \A l \in Launchers :
    pc[l] = "reclaim" => ~live[l] /\ observed[l] + Grace < now[l]

ReclaimInv ==
  /\ LockDescribesOwner
  /\ InTime
  /\ TaskWasLaunched
  /\ ListingHolds
  /\ ReclaimDecision

LEMMA InitReclaimInv == Init => ReclaimInv
  BY LaunchLockAssumption
  DEF Init, ReclaimInv, LockDescribesOwner, InTime, TaskWasLaunched,
      ListingHolds, ReclaimDecision, NoLock, Active, Tasks

LEMMA NextReclaimInv == TypeOK /\ ReclaimInv /\ [Next]_vars => ReclaimInv'
<1> SUFFICES ASSUME TypeOK, ReclaimInv, [Next]_vars
             PROVE  ReclaimInv'
  OBVIOUS
<1> USE LaunchLockAssumption
    DEF TypeOK, ReclaimInv, LockDescribesOwner, InTime, TaskWasLaunched,
        ListingHolds, ReclaimDecision
<1>k. \A t \in Tasks : LockKey(t) \in Book \cup {AllBooks}
  BY DEF LockKey
<1>1. ASSUME NEW l \in Launchers, LauncherStep(l)
      PROVE  ReclaimInv'
  <2> l \in Tasks /\ LockKey(l) \in Book \cup {AllBooks}
    BY <1>k DEF Tasks
  <2>p. ASSUME NEW from \in {"put", "reput"}, NEW refused \in {"list", "refused"},
               TryPut(l, from, refused)
        PROVE  ReclaimInv'
    <3>1. /\ pc[l] = from
          /\ pc' = [pc EXCEPT ![l] = "held"] \/ pc' = [pc EXCEPT ![l] = refused]
          /\ UNCHANGED <<clock, now, live, observed, task>>
      BY <2>p DEF TryPut, Move, obsVars
    <3>2. LockDescribesOwner'
      <4>1. \A k \in Book \cup {AllBooks} :
              \/ lock'[k] = lock[k]
              \/ lock'[k] = [owner |-> l, ts |-> now[l]] /\ pc'[l] = "held"
        BY <2>p DEF TryPut, Move, Item
      <4>2. \A o \in Launchers :
              pc[o] # "idle" /\ pc[o] # "put" => pc'[o] # "idle" /\ pc'[o] # "put"
        BY <3>1
      <4>3. SUFFICES ASSUME NEW k \in Book \cup {AllBooks}, lock'[k].owner \in Launchers
                     PROVE  /\ lock'[k].ts = now'[lock'[k].owner]
                            /\ pc'[lock'[k].owner] # "idle"
                            /\ pc'[lock'[k].owner] # "put"
        OBVIOUS
      <4>4. CASE lock'[k] = lock[k]
        BY <3>1, <4>2, <4>3, <4>4
      <4>5. CASE lock'[k] = [owner |-> l, ts |-> now[l]] /\ pc'[l] = "held"
        BY <3>1, <4>5
      <4> QED
        BY <4>1, <4>4, <4>5
    <3>3. InTime' /\ TaskWasLaunched'
      BY <3>1 DEF Active
    <3>4. ListingHolds' /\ ReclaimDecision'
      BY <3>1
    <3> QED
      BY <3>2, <3>3, <3>4
  <2>1. CASE Begin(l)
    BY <2>1 DEF Begin, Move, Active, Tasks
  <2>2. CASE PutLock(l)
    BY <2>2, <2>p DEF PutLock
  <2>3. CASE ListTasks(l)
    BY <2>3 DEF ListTasks, Move, Active, Listed, Running, Tasks
  <2>4. CASE ReadAge(l)
    <3>1. LockDescribesOwner' /\ InTime' /\ TaskWasLaunched'
      BY <2>4 DEF ReadAge, Move, Active
    <3>2. ListingHolds'
      BY <2>4 DEF ReadAge, Move
    <3>3. ReclaimDecision'
      BY <2>4 DEF ReadAge, Move, Stale
    <3> QED
      BY <3>1, <3>2, <3>3
  <2>5. CASE DeleteStale(l)
    <3>1. /\ pc[l] = "reclaim"
          /\ pc' = [pc EXCEPT ![l] = "reput"] \/ pc' = [pc EXCEPT ![l] = "refused"]
          /\ UNCHANGED <<clock, now, live, observed, task>>
      BY <2>5 DEF DeleteStale, Move, obsVars
    <3>2. LockDescribesOwner'
      <4>1. \A k \in Book \cup {AllBooks} : lock'[k] = lock[k] \/ lock'[k] = NoLock
        BY <2>5 DEF DeleteStale
      <4>2. \A o \in Launchers : pc[o] \notin {"idle", "put"} => pc'[o] \notin {"idle", "put"}
        BY <3>1
      <4> QED
        BY <3>1, <4>1, <4>2 DEF NoLock
    <3>3. InTime' /\ TaskWasLaunched'
      BY <3>1 DEF Active
    <3>4. ListingHolds' /\ ReclaimDecision'
      BY <3>1
    <3> QED
      BY <3>2, <3>3, <3>4
  <2>6. CASE PutReclaimed(l)
    BY <2>6, <2>p DEF PutReclaimed
  <2>7. CASE Skip(l)
    BY <2>7 DEF Skip, Move, Active, obsVars
  <2>8. CASE Launch(l)
    <3>1. /\ pc[l] = "held"
          /\ pc' = [pc EXCEPT ![l] = "launched"]
          /\ UNCHANGED <<clock, lock, now, live, observed>>
      BY <2>8 DEF Launch, Move, obsVars
    <3>2. \A m \in Launchers : m # l => task'[m] = task[m]
      BY <2>8 DEF Launch, Place, Tasks
    <3>3. LockDescribesOwner' /\ TaskWasLaunched' /\ ReclaimDecision'
      BY <3>1, <3>2
    <3>4. InTime'
      BY <3>1 DEF Active
    <3>5. ListingHolds'
      BY <3>1, <3>2 DEF Active
    <3> QED
      BY <3>3, <3>4, <3>5
  <2>9. CASE LaunchFails(l)
    <3>1. /\ pc[l] = "held"
          /\ pc' = [pc EXCEPT ![l] = "undo"]
          /\ UNCHANGED <<clock, lock, now, live, observed>>
      BY <2>9 DEF LaunchFails, Move, obsVars
    <3>2. \A m \in Launchers : m # l => task'[m] = task[m]
      BY <2>9 DEF LaunchFails, Place, Tasks
    <3>3. LockDescribesOwner' /\ TaskWasLaunched' /\ ReclaimDecision'
      BY <3>1, <3>2
    <3>4. InTime'
      BY <3>1 DEF Active
    <3>5. ListingHolds'
      BY <3>1, <3>2 DEF Active
    <3> QED
      BY <3>3, <3>4, <3>5
  <2>10. CASE UndoLock(l)
    BY <2>10 DEF UndoLock, Drop, Move, NoLock, Active, obsVars
  <2>11. CASE Die(l)
    BY <2>11 DEF Die, Active, obsVars
  <2> QED
    BY <1>1, <2>1, <2>2, <2>3, <2>4, <2>5, <2>6, <2>7, <2>8, <2>9, <2>10, <2>11
    DEF LauncherStep
<1>2. ASSUME NEW t \in Tasks, TaskStep(t)
      PROVE  ReclaimInv'
  <2>1. LockKey(t) \in Book \cup {AllBooks}
    BY <1>k
  <2>2. /\ UNCHANGED <<clock, pc, book, obsVars, pending, sweep>>
        /\ Drop(LockKey(t)) \/ UNCHANGED <<lock, dropped>>
    BY <1>2
    DEF TaskStep, PreparePhase1, Release, Exit, ExitHolding, Interrupt,
        EmergencyRelease, Kill, RemoveLock
  <2>3. /\ task[t] # "none"
        /\ \E to \in Running \cup {"stopping", "stopped"} :
             /\ task' = [task EXCEPT ![t] = to]
             /\ to \in {"starting", "working"} => task[t] \in {"starting", "working"}
    BY <1>2
    DEF TaskStep, PreparePhase1, Release, Exit, ExitHolding, Interrupt,
        EmergencyRelease, Kill, BecomeTask, Running
  <2>4. /\ UNCHANGED <<clock, pc, now, live, observed>>
        /\ \A m \in Launchers :
             /\ task'[m] # "none" => task[m] # "none"
             /\ task'[m] \in {"starting", "working"} => task[m] \in {"starting", "working"}
    BY <2>2, <2>3 DEF obsVars, Tasks
  <2>5. LockDescribesOwner'
    <3>1. \A k \in Book \cup {AllBooks} : lock'[k] = lock[k] \/ lock'[k] = NoLock
      BY <2>1, <2>2 DEF Drop
    <3>2. SUFFICES ASSUME NEW k \in Book \cup {AllBooks}, lock'[k].owner \in Launchers
                   PROVE  /\ lock'[k].ts = now'[lock'[k].owner]
                          /\ pc'[lock'[k].owner] \notin {"idle", "put"}
      OBVIOUS
    <3>3. lock'[k] = lock[k]
      BY <3>1, <3>2 DEF NoLock
    <3> QED
      BY <3>2, <3>3, <2>4
  <2>6. InTime' /\ ReclaimDecision'
    BY <2>4 DEF Active
  <2>7. TaskWasLaunched'
    BY <2>4
  <2>8. ListingHolds'
    BY <2>4
  <2> QED
    BY <2>5, <2>6, <2>7, <2>8
<1>3. ASSUME NEW t \in Retrievers, StartRetrieve(t)
      PROVE  ReclaimInv'
  BY <1>3 DEF StartRetrieve, BecomeTask, obsVars, Tasks
<1>4. ASSUME NEW s \in Sweepers, SweepStep(s)
      PROVE  ReclaimInv'
  BY <1>4
  DEF SweepStep, SweepGet, SweepList, SweepDelete, Look, Drop, NoLock, obsVars
<1>5. ASSUME NEW k \in Book \cup {AllBooks}, Expire(k)
      PROVE  ReclaimInv'
  BY <1>5 DEF Expire, Drop, NoLock, obsVars
<1>6. CASE Tick
  BY <1>6 DEF Tick, Active, obsVars
<1>7. CASE UNCHANGED vars
  BY <1>7 DEF vars
<1> QED
  BY <1>1, <1>2, <1>3, <1>4, <1>5, <1>6, <1>7 DEF Next

\* What a reclaim takes away, nobody relies on.
LEMMA ReclaimedIsIdle ==
  ASSUME LambdaTimeout <= Grace, TypeOK, ReclaimInv,
         NEW l \in Launchers, pc[l] = "reclaim", StillObserved(l)
  PROVE  ~Relies(lock[LockKey(l)].owner)
<1> DEFINE o == lock[LockKey(l)].owner
<1>1. LockKey(l) \in Book \cup {AllBooks} /\ o \in Launchers
  BY DEF LockKey, StillObserved, Exists, TypeOK, Tasks
<1>2. /\ now[o] = observed[l]
      /\ now[o] + LambdaTimeout < now[l]
      /\ now[l] <= clock
  BY <1>1, LaunchLockAssumption
  DEF StillObserved, ReclaimInv, LockDescribesOwner, ReclaimDecision, InTime, TypeOK
<1>3. pc[o] \notin {"held", "undo"}
  BY <1>1, <1>2, LaunchLockAssumption DEF ReclaimInv, InTime, Active, TypeOK
<1>4. task[o] \notin {"starting", "working"}
  BY <1>1, <1>2, LaunchLockAssumption
  DEF ReclaimInv, ListingHolds, ReclaimDecision, TypeOK
<1> QED
  BY <1>3, <1>4 DEF Relies

LEMMA StepReclaimSafe ==
  ASSUME LambdaTimeout <= Grace, TypeOK, ReclaimInv, [Next]_vars,
         NEW l \in Launchers, pc[l] = "reclaim", pc'[l] = "reput"
  PROVE  ~Relies(lock[LockKey(l)].owner)
<1>1. \A m \in Launchers \ {l} : LauncherStep(m) => pc'[l] = pc[l]
  BY DEF LauncherStep, Begin, PutLock, TryPut, ListTasks, ReadAge, DeleteStale,
         PutReclaimed, Skip, Launch, LaunchFails, UndoLock, Die, Move, TypeOK
<1>2. \A t \in Tasks : TaskStep(t) => pc' = pc
  BY DEF TaskStep, PreparePhase1, Release, Exit, ExitHolding, Interrupt,
         EmergencyRelease, Kill
<1>3. LauncherStep(l)
  BY <1>1, <1>2
  DEF Next, vars, StartRetrieve, SweepStep, SweepGet, SweepList, SweepDelete,
      Look, Expire, Tick
<1>4. StillObserved(l)
  BY <1>3
  DEF LauncherStep, Begin, PutLock, TryPut, ListTasks, ReadAge, DeleteStale,
      PutReclaimed, Skip, Launch, LaunchFails, UndoLock, Die, Move, TypeOK
<1> QED
  BY <1>4, ReclaimedIsIdle

\* No invocation of the trigger steals the lock of a launch in progress or of
\* a running task, provided the launch-grace window covers the Lambda's
\* timeout (LAUNCH_GRACE_S = NAT_WAIT_SECONDS + 120 against Timeout: 300).
THEOREM ReclaimIsSafe ==
  ASSUME LambdaTimeout <= Grace
  PROVE  Spec => ReclaimSafe
<1>1. TypeOK /\ ReclaimInv /\ [Next]_vars =>
        [\A l \in Launchers :
           pc[l] = "reclaim" /\ pc'[l] = "reput"
             => ~Relies(lock[LockKey(l)].owner)]_vars
  BY StepReclaimSafe
<1> QED
  BY <1>1, InitTypeOK, NextTypeOK, InitReclaimInv, NextReclaimInv, PTL
  DEF Spec, ReclaimSafe

(***************************************************************************)
(* How a lock is lost, in every deployment.  A launcher deletes the item   *)
(* of its key in a reclaim, when nobody relies on it, or to undo its own   *)
(* launch, though the task may have been placed; a task deletes it when it *)
(* ends.  Neither takes the item from somebody else unless it has lost its *)
(* own before.                                                             *)
(***************************************************************************)

LEMMA SameKey ==
  ASSUME [Next]_vars, NEW t \in Tasks
  PROVE  LockKey(t)' = LockKey(t)
<1>1. book' = book
  BY DEF Next, vars, LauncherStep, Begin, PutLock, TryPut, ListTasks, ReadAge, DeleteStale,
         PutReclaimed, Skip, Launch, LaunchFails, UndoLock, Die, TaskStep, PreparePhase1,
         Release, Exit, ExitHolding, Interrupt, EmergencyRelease, Kill, StartRetrieve,
         SweepStep, SweepGet, SweepList, SweepDelete, Look, Expire, Tick
<1> QED
  BY <1>1 DEF LockKey

\* A launcher takes no lock from m, and gives m none that m does not own.
LEMMA LauncherTakesNone ==
  ASSUME LambdaTimeout <= Grace, TypeOK, ReclaimInv, NEW l \in Launchers, LauncherStep(l),
         NEW m \in Launchers, LockKey(m)' = LockKey(m), Owns(m), Relies(m)'
  PROVE  Owns(m)' \/ Theft
<1> USE LaunchLockAssumption DEF TypeOK, Owns
<1>k. /\ l \in Tasks /\ m \in Tasks
      /\ LockKey(l) \in Book \cup {AllBooks} /\ LockKey(m) \in Book \cup {AllBooks}
  BY DEF LockKey, Tasks
<1>1. CASE lock' = lock
  BY <1>1
<1>2. CASE PutLock(l) \/ PutReclaimed(l)
  <2>1. Exists(LockKey(m))
    BY DEF Exists
  <2> QED
    BY <1>2, <2>1, <1>k DEF PutLock, PutReclaimed, TryPut
<1>3. CASE DeleteStale(l)
  <2>1. Relies(m)
    BY <1>3 DEF DeleteStale, Move, Relies
  <2>2. CASE StillObserved(l)
    <3>1. ~Relies(lock[LockKey(l)].owner)
      BY <1>3, <2>2, ReclaimedIsIdle DEF DeleteStale, Move
    <3>2. LockKey(m) # LockKey(l)
      BY <2>1, <3>1
    <3> QED
      BY <1>3, <2>2, <3>2, <1>k DEF DeleteStale
  <2>3. CASE ~StillObserved(l)
    BY <1>3, <2>3 DEF DeleteStale
  <2> QED
    BY <2>2, <2>3
<1>4. CASE UndoLock(l)
  <2>1. pc[l] = "undo" /\ pc'[l] = "dead" /\ task' = task
    BY <1>4 DEF UndoLock, Move
  <2>2. CASE task[l] # "none"
    BY <1>4, <2>2 DEF Theft
  <2>3. CASE task[l] = "none" /\ Owns(l)
    <3>1. m # l
      BY <2>1, <2>3 DEF Relies
    <3> QED
      BY <1>4, <3>1, <2>3, <1>k DEF UndoLock, Drop
  <2>4. CASE ~Owns(l)
    BY <1>4, <2>1, <2>4 DEF Relies, Theft
  <2> QED
    BY <2>2, <2>3, <2>4
<1> QED
  BY <1>1, <1>2, <1>3, <1>4
  DEF LauncherStep, Begin, ListTasks, ReadAge, Skip, Launch, LaunchFails, Die

LEMMA TaskTakesNone ==
  ASSUME TypeOK, ReclaimInv, NEW t \in Tasks, TaskStep(t),
         NEW m \in Launchers, LockKey(m)' = LockKey(m), Owns(m), Relies(m)'
  PROVE  Owns(m)' \/ Theft
<1> USE LaunchLockAssumption DEF TypeOK, Owns
<1>k. /\ LockKey(t) \in Book \cup {AllBooks} /\ LockKey(m) \in Book \cup {AllBooks}
      /\ m \in Tasks
  BY DEF LockKey, Tasks
<1>1. CASE PreparePhase1(t) \/ EmergencyRelease(t)
  BY <1>1 DEF Theft
<1>2. CASE Release(t)
  <2>1. CASE t \in Retrievers
    BY <1>2, <2>1 DEF Theft
  <2>2. CASE t \in Launchers
    <3>1. task[t] = "working" /\ task'[t] = "tail" /\ pc' = pc
      BY <1>2 DEF Release, BecomeTask
    <3>2. m # t
      BY <2>2, <3>1 DEF Relies, ReclaimInv, TaskWasLaunched
    <3>3. CASE Owns(t)
      BY <1>2, <3>2, <3>3, <1>k DEF Release, RemoveLock, Drop
    <3>4. CASE ~Owns(t)
      BY <1>2, <2>2, <3>1, <3>4 DEF Relies, Theft
    <3> QED
      BY <3>3, <3>4
  <2> QED
    BY <2>1, <2>2 DEF Tasks
<1> QED
  BY <1>1, <1>2 DEF TaskStep, Exit, ExitHolding, Interrupt, Kill

LEMMA StepLossHasCause ==
  ASSUME LambdaTimeout <= Grace, TypeOK, ReclaimInv, [Next]_vars,
         NEW m \in Launchers, Owns(m), Relies(m)'
  PROVE  Owns(m)' \/ Theft
<1>1. LockKey(m)' = LockKey(m)
  BY SameKey DEF Tasks
<1>2. ASSUME NEW l \in Launchers, LauncherStep(l) PROVE Owns(m)' \/ Theft
  BY <1>1, <1>2, LauncherTakesNone
<1>3. ASSUME NEW t \in Tasks, TaskStep(t) PROVE Owns(m)' \/ Theft
  BY <1>1, <1>3, TaskTakesNone
<1>4. ASSUME NEW s \in Sweepers, SweepStep(s) PROVE Owns(m)' \/ Theft
  BY <1>1, <1>4 DEF SweepStep, SweepGet, SweepList, Theft, Owns
<1>5. ASSUME NEW k \in Book \cup {AllBooks}, Expire(k) PROVE Owns(m)' \/ Theft
  BY <1>5 DEF Theft
<1>6. CASE Tick \/ UNCHANGED vars \/ \E t \in Retrievers : StartRetrieve(t)
  BY <1>1, <1>6 DEF Tick, vars, StartRetrieve, Owns
<1> QED
  BY <1>2, <1>3, <1>4, <1>5, <1>6 DEF Next

\* In every deployment whose launch-grace window covers the Lambda's timeout,
\* an owner who goes on counting on its lock loses it only to one of the
\* named thefts: "single serialization point" holds up to these.
THEOREM LossIsTheft ==
  ASSUME LambdaTimeout <= Grace
  PROVE  Spec => LossHasCause
<1>1. TypeOK /\ ReclaimInv /\ [Next]_vars =>
        [\A l \in Launchers : Owns(l) /\ Relies(l)' => Owns(l)' \/ Theft]_vars
  BY StepLossHasCause
<1> QED
  BY <1>1, InitTypeOK, NextTypeOK, InitReclaimInv, NextReclaimInv, PTL
  DEF Spec, LossHasCause

\* Whoever begins to rely on a lock has just taken it.
LEMMA RelyingBegins ==
  ASSUME TypeOK, ReclaimInv, [Next]_vars, NEW m \in Launchers, ~Relies(m), Relies(m)'
  PROVE  Owns(m)'
<1> USE LaunchLockAssumption DEF TypeOK
<1>1. m \in Tasks /\ LockKey(m)' = LockKey(m) /\ LockKey(m) \in Book \cup {AllBooks}
  BY SameKey DEF Tasks, LockKey
<1>2. ASSUME NEW l \in Launchers, LauncherStep(l) PROVE Owns(m)'
  <2>1. CASE PutLock(l) \/ PutReclaimed(l)
    <3>1. m = l /\ pc'[l] = "held"
      BY <2>1 DEF PutLock, PutReclaimed, TryPut, Move, Relies
    <3>2. lock' = [lock EXCEPT ![LockKey(l)] = Item(l)]
      BY <2>1, <3>1 DEF PutLock, PutReclaimed, TryPut, Move
    <3> QED
      BY <1>1, <3>1, <3>2 DEF Owns, Item
  <2>2. CASE Launch(l)
    BY <2>2 DEF Launch, Place, Move, Relies, ReclaimInv, TaskWasLaunched
  <2>3. CASE LaunchFails(l)
    <3>1. pc[l] = "held" /\ task[l] = "none"
      BY <2>3 DEF LaunchFails, Move, ReclaimInv, TaskWasLaunched
    <3>2. m # l
      BY <3>1 DEF Relies
    <3>3. pc'[m] = pc[m] /\ task'[m] = task[m]
      BY <2>3, <3>2, <1>1 DEF LaunchFails, Place, Move
    <3> QED
      BY <3>3 DEF Relies
  <2>4. CASE Begin(l) \/ ListTasks(l) \/ Skip(l) \/ UndoLock(l) \/ Die(l)
    BY <2>4 DEF Begin, ListTasks, Skip, UndoLock, Die, Move, Relies
  <2>5. CASE ReadAge(l)
    BY <2>5 DEF ReadAge, Move, Relies
  <2>6. CASE DeleteStale(l)
    BY <2>6 DEF DeleteStale, Move, Relies
  <2> QED
    BY <1>2, <2>1, <2>2, <2>3, <2>4, <2>5, <2>6 DEF LauncherStep
<1>3. ASSUME NEW t \in Tasks, TaskStep(t) PROVE Owns(m)'
  <2>1. /\ pc' = pc
        /\ \E to \in Running \cup {"stopping", "stopped"} :
             /\ task' = [task EXCEPT ![t] = to]
             /\ to \in {"starting", "working"} => task[t] \in {"starting", "working"}
    BY <1>3
    DEF TaskStep, PreparePhase1, Release, Exit, ExitHolding, Interrupt,
        EmergencyRelease, Kill, BecomeTask, Running
  <2> QED
    BY <1>1, <2>1 DEF Relies, Running
<1>4. ASSUME NEW t \in Retrievers, StartRetrieve(t) PROVE Owns(m)'
  BY <1>4 DEF StartRetrieve, BecomeTask, Relies
<1>5. CASE \/ \E s \in Sweepers : SweepStep(s)
           \/ \E k \in Book \cup {AllBooks} : Expire(k)
           \/ Tick
           \/ UNCHANGED vars
  BY <1>5 DEF SweepStep, SweepGet, SweepList, SweepDelete, Look, Expire, Tick, vars, Relies
<1> QED
  BY <1>2, <1>3, <1>4, <1>5 DEF Next

(***************************************************************************)
(* Mutual exclusion.  The item names one owner, so two tasks that own the  *)
(* item of one key are the same.                                           *)
(***************************************************************************)

\* Whoever relies on its lock owns it, unless the item was deleted
\* unconditionally.
OwnLock == \A l \in Launchers : Relies(l) => Owns(l) \/ l \in dropped

LEMMA InitOwnLock == Init => OwnLock
  BY DEF Init, OwnLock, Relies, Tasks

\* Nothing but an unconditional deletion, which dropped records, ends
\* ownership: a reclaim hits nobody who relies on the item.
LEMMA KeepsOwning ==
  ASSUME LambdaTimeout <= Grace, TypeOK, ReclaimInv, [Next]_vars,
         NEW m \in Launchers, Relies(m), Owns(m) \/ m \in dropped
  PROVE  (Owns(m) \/ m \in dropped)'
<1> USE LaunchLockAssumption DEF TypeOK
<1>1. m \in Tasks /\ LockKey(m)' = LockKey(m) /\ LockKey(m) \in Book \cup {AllBooks}
  BY SameKey DEF Tasks, LockKey
<1>2. CASE UNCHANGED <<lock, dropped>>
  BY <1>1, <1>2 DEF Owns
<1>3. ASSUME NEW k \in Book \cup {AllBooks}, Drop(k) PROVE (Owns(m) \/ m \in dropped)'
  BY <1>1, <1>3 DEF Drop, Owns
<1>4. ASSUME NEW l \in Launchers, LauncherStep(l) PROVE (Owns(m) \/ m \in dropped)'
  <2>k. LockKey(l) \in Book \cup {AllBooks} /\ l \in Tasks
    BY DEF LockKey, Tasks
  <2>1. CASE PutLock(l) \/ PutReclaimed(l)
    <3>1. Owns(m) => Exists(LockKey(m))
      BY DEF Exists, Owns
    <3> QED
      BY <1>1, <2>1, <2>k, <3>1 DEF PutLock, PutReclaimed, TryPut, Owns
  <2>2. CASE DeleteStale(l)
    <3>1. CASE StillObserved(l)
      <4>1. ~Relies(lock[LockKey(l)].owner)
        BY <2>2, <3>1, ReclaimedIsIdle DEF DeleteStale, Move
      <4>2. Owns(m) => LockKey(m) # LockKey(l)
        BY <4>1 DEF Owns
      <4> QED
        BY <1>1, <2>2, <2>k, <3>1, <4>2 DEF DeleteStale, Owns
    <3>2. CASE ~StillObserved(l)
      BY <1>2, <2>2, <3>2 DEF DeleteStale
    <3> QED
      BY <3>1, <3>2
  <2>3. CASE UndoLock(l)
    BY <1>3, <2>3, <2>k DEF UndoLock
  <2>4. CASE Begin(l) \/ ListTasks(l) \/ ReadAge(l) \/ Skip(l) \/ Launch(l)
              \/ LaunchFails(l) \/ Die(l)
    BY <1>2, <2>4 DEF Begin, ListTasks, ReadAge, Skip, Launch, LaunchFails, Die
  <2> QED
    BY <1>4, <2>1, <2>2, <2>3, <2>4 DEF LauncherStep
<1>5. ASSUME NEW t \in Tasks, TaskStep(t) PROVE (Owns(m) \/ m \in dropped)'
  <2>1. LockKey(t) \in Book \cup {AllBooks}
    BY DEF LockKey
  <2>2. Drop(LockKey(t)) \/ UNCHANGED <<lock, dropped>>
    BY <1>5
    DEF TaskStep, PreparePhase1, Release, Exit, ExitHolding, Interrupt,
        EmergencyRelease, Kill, RemoveLock
  <2> QED
    BY <1>2, <1>3, <2>1, <2>2
<1>6. ASSUME NEW s \in Sweepers, SweepStep(s) PROVE (Owns(m) \/ m \in dropped)'
  BY <1>2, <1>3, <1>6 DEF SweepStep, SweepGet, SweepList, SweepDelete
<1>7. ASSUME NEW k \in Book \cup {AllBooks}, Expire(k) PROVE (Owns(m) \/ m \in dropped)'
  BY <1>3, <1>7 DEF Expire
<1>8. CASE Tick \/ UNCHANGED vars \/ \E t \in Retrievers : StartRetrieve(t)
  BY <1>2, <1>8 DEF Tick, vars, StartRetrieve
<1> QED
  BY <1>4, <1>5, <1>6, <1>7, <1>8 DEF Next

LEMMA NextOwnLock ==
  ASSUME LambdaTimeout <= Grace, TypeOK, ReclaimInv, OwnLock, [Next]_vars
  PROVE  OwnLock'
<1> SUFFICES ASSUME NEW l \in Launchers, Relies(l)'
             PROVE  (Owns(l) \/ l \in dropped)'
  BY DEF OwnLock
<1>1. CASE Relies(l)
  BY <1>1, KeepsOwning DEF OwnLock
<1>2. CASE ~Relies(l)
  BY <1>2, RelyingBegins
<1> QED
  BY <1>1, <1>2

\* In every deployment whose grace window covers the Lambda timeout, whoever
\* may still launch or is at work owns its lock, unless the item was deleted
\* unconditionally.
THEOREM OwnLockHolds ==
  ASSUME LambdaTimeout <= Grace
  PROVE  Spec => []OwnLock
<1>1. TypeOK /\ ReclaimInv /\ OwnLock /\ [Next]_vars => OwnLock'
  BY NextOwnLock
<1> QED
  BY <1>1, InitTypeOK, NextTypeOK, InitReclaimInv, NextReclaimInv, InitOwnLock, PTL
  DEF Spec

\* There too, of two tasks at work under one key one has had its lock deleted
\* by somebody who did not look whose it was.
THEOREM MutualExclusion ==
  ASSUME LambdaTimeout <= Grace
  PROVE  Spec => []OneTaskPerKey
<1>1. OwnLock => OneTaskPerKey
  BY DEF OwnLock, OneTaskPerKey, Relies, Owns
<1> QED
  BY <1>1, OwnLockHolds, PTL
=============================================================================
