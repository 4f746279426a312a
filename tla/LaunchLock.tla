------------------------------ MODULE LaunchLock ------------------------------
(***************************************************************************)
(* The launch lock of one pipeline phase: the DynamoDB item                *)
(* lock#{family}[#{book}] that a trigger Lambda invocation writes before   *)
(* it calls ecs.run_task and that the ECS task deletes when it is done.    *)
(*                                                                         *)
(* Three kinds of process share the item:                                  *)
(*   - launchers: invocations of trigger_handler._run_task, one step per   *)
(*     DynamoDB or ECS call, so that invocations interleave;               *)
(*   - tasks: the ECS task a launcher starts (named like its launcher)     *)
(*     and the --retrieve-only tasks, which the batch poller starts        *)
(*     without taking any lock;                                            *)
(*   - sweepers: _handle_scheduled_check, run on a schedule and on every   *)
(*     Spot task-stopped event.                                            *)
(* Time is in abstract ticks.  The item carries the acquisition second     *)
(* only: "owner" is a history field, and "dropped" a history variable; no  *)
(* code reads either.                                                      *)
(***************************************************************************)
EXTENDS Naturals

CONSTANTS
  Launchers,      \* trigger invocations, each launching at most one task
  Retrievers,     \* --retrieve-only tasks (batch mode)
  Sweepers,       \* invocations of the scheduled / task-stopped check
  Book,           \* the books requests name
  AllBooks,       \* the empty book name: a request over every book
  MultiDoc,       \* MULTI_DOC_ENABLED
  EarlyRelease,   \* TRUE for phase 1, whose task drops its lock on start-up
  SpotStop,       \* TRUE if ECS may stop a task (Spot reclaim, stop_task)
  LambdaTimeout,  \* longest life of a trigger invocation
  Grace,          \* LAUNCH_GRACE_S of _try_reclaim_if_gone
  LockTTL,        \* ttl of the item, counted from its acquisition
  MaxTime,        \* bound of the clock
  Nobody          \* "owner" of an item that does not exist

Tasks == Launchers \cup Retrievers

ASSUME LaunchLockAssumption ==
  /\ Nobody \notin Launchers
  /\ Launchers \cap Retrievers = {}
  /\ Book # {}
  /\ MultiDoc \in BOOLEAN
  /\ EarlyRelease \in BOOLEAN
  /\ SpotStop \in BOOLEAN
  /\ LambdaTimeout \in Nat
  /\ Grace \in Nat
  /\ LockTTL \in Nat
  /\ MaxTime \in Nat

VARIABLES
  clock,     \* seconds
  lock,      \* the lock table
  pc,        \* where each launcher is
  book,      \* the book each task or launcher works for
  now,       \* int(time.time()) in _run_task
  live,      \* did the launcher's list_tasks return a task?
  observed,  \* the timestamp _lock_age_seconds returned
  task,      \* life cycle of the ECS task
  pending,   \* books queued because their lock was held
  dropped,   \* launchers whose item was deleted unconditionally
  sweep      \* where each sweeper is

vars == <<clock, lock, pc, book, now, live, observed, task, pending, dropped, sweep>>
obsVars == <<now, live, observed>>

\* _lock_key, in both trigger_handler and ecs_entrypoint.
LockKey(t) == IF MultiDoc THEN book[t] ELSE AllBooks

NoLock == [owner |-> Nobody, ts |-> 0]
Item(l) == [owner |-> l, ts |-> now[l]]
Exists(k) == lock[k].owner # Nobody

Active == {"put", "list", "age", "reclaim", "reput", "skip", "held", "undo"}
Running == {"starting", "working", "tail"}

TypeOK ==
  /\ clock \in Nat
  /\ lock \in [Book \cup {AllBooks} -> [owner : Launchers \cup {Nobody}, ts : Nat]]
  /\ pc \in [Launchers -> Active \cup {"idle", "launched", "refused", "dead"}]
  /\ book \in [Tasks -> Book]
  /\ now \in [Launchers -> Nat]
  /\ live \in [Launchers -> BOOLEAN]
  /\ observed \in [Launchers -> Nat]
  /\ task \in [Tasks -> Running \cup {"none", "stopping", "stopped"}]
  /\ pending \in SUBSET Book
  /\ dropped \in SUBSET Launchers
  /\ sweep \in [Sweepers -> {"get", "list", "delete"}]

Init ==
  /\ clock = 0
  /\ lock = [k \in Book \cup {AllBooks} |-> NoLock]
  /\ pc = [l \in Launchers |-> "idle"]
  /\ book \in [Tasks -> Book]
  /\ now = [l \in Launchers |-> 0]
  /\ live = [l \in Launchers |-> FALSE]
  /\ observed = [l \in Launchers |-> 0]
  /\ task = [t \in Tasks |-> "none"]
  /\ pending = {}
  /\ dropped = {}
  /\ sweep = [s \in Sweepers |-> "get"]

\* Mutant: the listing also returns the tasks that have stopped.
ListedStopped == {t \in Tasks : task[t] # "none"}

\* ecs.list_tasks(family, desiredStatus=RUNNING): every task of the family,
\* whatever its book.  A task that ECS is stopping is no longer listed.
Listed == {t \in Tasks : task[t] \in Running}

\* A deletion that does not look whose item it is.
Drop(k) ==
  /\ lock' = [lock EXCEPT ![k] = NoLock]
  /\ dropped' = dropped \cup ({lock[k].owner} \cap Launchers)

Move(l, from, to) ==
  /\ pc[l] = from
  /\ pc' = [pc EXCEPT ![l] = to]

-----------------------------------------------------------------------------
(* The launcher: _run_task, _acquire_task_lock, _reclaim_stale_lock,       *)
(* _launch_ecs_task.                                                       *)

Begin(l) ==
  /\ Move(l, "idle", "put")
  /\ now' = [now EXCEPT ![l] = clock]
  /\ UNCHANGED <<clock, lock, book, live, observed, task, pending, dropped, sweep>>

\* put_item with attribute_not_exists(cache_key): the first attempt and the
\* one that follows a reclaim.  An expired item that DynamoDB has not
\* deleted yet still exists.
TryPut(l, from, refused) ==
  /\ \/ /\ ~Exists(LockKey(l))
        /\ Move(l, from, "held")
        /\ lock' = [lock EXCEPT ![LockKey(l)] = Item(l)]
     \/ /\ Exists(LockKey(l))
        /\ Move(l, from, refused)
        /\ UNCHANGED lock
  /\ UNCHANGED <<clock, book, obsVars, task, pending, dropped, sweep>>

PutLock(l) == TryPut(l, "put", "list")

ListTasks(l) ==
  /\ Move(l, "list", "age")
  /\ live' = [live EXCEPT ![l] = Listed # {}]
  /\ UNCHANGED <<clock, lock, book, now, observed, task, pending, dropped, sweep>>

\* Mutant: no launch-grace window.
StaleNoGrace(l) == Exists(LockKey(l)) /\ ~live[l]

\* _lock_age_seconds, then the decision of _try_reclaim_if_gone.
Stale(l) ==
  /\ Exists(LockKey(l))
  /\ ~live[l]
  /\ lock[LockKey(l)].ts + Grace < now[l]

ReadAge(l) ==
  /\ \/ /\ Stale(l)
        /\ Move(l, "age", "reclaim")
        /\ observed' = [observed EXCEPT ![l] = lock[LockKey(l)].ts]
     \/ /\ ~Stale(l)
        /\ Move(l, "age", "skip")
        /\ UNCHANGED observed
  /\ UNCHANGED <<clock, lock, book, now, live, task, pending, dropped, sweep>>

\* Mutant: the delete is unconditional.
StillObservedAny(l) == Exists(LockKey(l))

\* delete_item on the condition response = observed_ts.
StillObserved(l) ==
  /\ Exists(LockKey(l))
  /\ lock[LockKey(l)].ts = observed[l]

DeleteStale(l) ==
  /\ \/ /\ StillObserved(l)
        /\ Move(l, "reclaim", "reput")
        /\ lock' = [lock EXCEPT ![LockKey(l)] = NoLock]
     \/ /\ ~StillObserved(l)
        /\ Move(l, "reclaim", "refused")
        /\ UNCHANGED lock
  /\ UNCHANGED <<clock, book, obsVars, task, pending, dropped, sweep>>

PutReclaimed(l) == TryPut(l, "reput", "refused")

\* The queueing at the end of _acquire_task_lock, which a lost reclaim does
\* not reach.  Phase 1 has no per-book queue; nor has a request without book.
Skip(l) ==
  /\ Move(l, "skip", "refused")
  /\ pending' = IF EarlyRelease \/ book[l] = AllBooks
                THEN pending ELSE pending \cup {book[l]}
  /\ UNCHANGED <<clock, lock, book, obsVars, task, dropped, sweep>>

\* run_task places the task; that of a phase that keeps its lock goes to work
\* at once.
Place(l) ==
  task' = [task EXCEPT ![l] = IF EarlyRelease THEN "starting" ELSE "working"]

Launch(l) ==
  /\ Move(l, "held", "launched")
  /\ Place(l)
  /\ UNCHANGED <<clock, lock, book, obsVars, pending, dropped, sweep>>

\* run_task placed no task, or it raised: then a task may run all the same,
\* its reply lost.
LaunchFails(l) ==
  /\ Move(l, "held", "undo")
  /\ Place(l) \/ UNCHANGED task
  /\ UNCHANGED <<clock, lock, book, obsVars, pending, dropped, sweep>>

\* Delete the lock, re-raise.  A delete that raises is ignored, which leaves
\* what Die leaves.
UndoLock(l) ==
  /\ Move(l, "undo", "dead")
  /\ Drop(LockKey(l))
  /\ UNCHANGED <<clock, book, obsVars, task, pending, sweep>>

\* The Lambda runs out of time or memory.
Die(l) ==
  /\ pc[l] \in Active
  /\ pc' = [pc EXCEPT ![l] = "dead"]
  /\ UNCHANGED <<clock, lock, book, obsVars, task, pending, dropped, sweep>>

-----------------------------------------------------------------------------
(* The task: run_phase, _post_process, _handle_sigterm.  Every deletion of *)
(* the lock is unconditional (_remove_lock).                               *)

RemoveLock(t) == Drop(LockKey(t))

BecomeTask(t, from, to) ==
  /\ task[t] \in from
  /\ task' = [task EXCEPT ![t] = to]

\* batch_poller._trigger_retrieve: no lock is taken.
StartRetrieve(t) ==
  /\ BecomeTask(t, {"none"}, "working")
  /\ UNCHANGED <<clock, lock, pc, book, obsVars, pending, dropped, sweep>>

\* _prepare_phase1
PreparePhase1(t) ==
  /\ BecomeTask(t, {"starting"}, "working")
  /\ RemoveLock(t)
  /\ UNCHANGED <<clock, pc, book, obsVars, pending, sweep>>

\* The last call of a task that got through its phase, of one whose phase
\* failed (phases 0 to 2) and of one that found no NAT.
Release(t) ==
  /\ BecomeTask(t, {"working"}, "tail")
  /\ RemoveLock(t)
  /\ UNCHANGED <<clock, pc, book, obsVars, pending, sweep>>

Exit(t) ==
  /\ BecomeTask(t, {"tail"}, "stopped")
  /\ UNCHANGED <<clock, lock, pc, book, obsVars, pending, dropped, sweep>>

\* The exits that leave the lock behind: a failed phase 3, a batch that was
\* submitted, a failed retrieve, a crash.
ExitHolding(t) ==
  /\ BecomeTask(t, {"starting", "working"}, "stopped")
  /\ UNCHANGED <<clock, lock, pc, book, obsVars, pending, dropped, sweep>>

\* ECS sends SIGTERM and stops listing the task; the handler syncs to S3,
\* then deletes the lock, unless it is killed first.
Interrupt(t) ==
  /\ SpotStop
  /\ BecomeTask(t, Running, "stopping")
  /\ UNCHANGED <<clock, lock, pc, book, obsVars, pending, dropped, sweep>>

EmergencyRelease(t) ==
  /\ BecomeTask(t, {"stopping"}, "stopped")
  /\ RemoveLock(t)
  /\ UNCHANGED <<clock, pc, book, obsVars, pending, sweep>>

Kill(t) ==
  /\ BecomeTask(t, {"stopping"}, "stopped")
  /\ UNCHANGED <<clock, lock, pc, book, obsVars, pending, dropped, sweep>>

-----------------------------------------------------------------------------
(* The sweep: the lock part of _handle_scheduled_check, for the family's   *)
(* singleton key.  The requests its drain makes are launchers.             *)

Look(s, from, to) ==
  /\ sweep[s] = from
  /\ sweep' = [sweep EXCEPT ![s] = to]
  /\ UNCHANGED <<clock, pc, book, obsVars, task, pending>>

SweepGet(s) ==
  /\ Exists(AllBooks)
  /\ Look(s, "get", "list")
  /\ UNCHANGED <<lock, dropped>>

SweepList(s) ==
  /\ Look(s, "list", IF Listed = {} THEN "delete" ELSE "get")
  /\ UNCHANGED <<lock, dropped>>

SweepDelete(s) ==
  /\ Look(s, "delete", "get")
  /\ Drop(AllBooks)

-----------------------------------------------------------------------------
(* The environment.                                                        *)

\* DynamoDB deletes an item some time after its ttl has passed.
Expire(k) ==
  /\ Exists(k)
  /\ lock[k].ts + LockTTL < clock
  /\ Drop(k)
  /\ UNCHANGED <<clock, pc, book, obsVars, task, pending, sweep>>

\* No invocation outlives LambdaTimeout; a task may run on as long as it likes.
Tick ==
  /\ clock < MaxTime
  /\ \A l \in Launchers : pc[l] \in Active => clock < now[l] + LambdaTimeout
  /\ clock' = clock + 1
  /\ UNCHANGED <<lock, pc, book, obsVars, task, pending, dropped, sweep>>

LauncherStep(l) ==
  \/ Begin(l)
  \/ PutLock(l)
  \/ ListTasks(l)
  \/ ReadAge(l)
  \/ DeleteStale(l)
  \/ PutReclaimed(l)
  \/ Skip(l)
  \/ Launch(l)
  \/ LaunchFails(l)
  \/ UndoLock(l)
  \/ Die(l)

TaskStep(t) ==
  \/ PreparePhase1(t)
  \/ Release(t)
  \/ Exit(t)
  \/ ExitHolding(t)
  \/ Interrupt(t)
  \/ EmergencyRelease(t)
  \/ Kill(t)

SweepStep(s) == SweepGet(s) \/ SweepList(s) \/ SweepDelete(s)

Next ==
  \/ \E l \in Launchers : LauncherStep(l)
  \/ \E t \in Tasks : TaskStep(t)
  \/ \E t \in Retrievers : StartRetrieve(t)
  \/ \E s \in Sweepers : SweepStep(s)
  \/ \E k \in Book \cup {AllBooks} : Expire(k)
  \/ Tick

Spec == Init /\ [][Next]_vars

\* The scheduled rule keeps firing and every task ends one way or another.
Fairness ==
  /\ \A s \in Sweepers : WF_vars(SweepStep(s))
  /\ \A t \in Tasks : WF_vars(TaskStep(t))
  /\ \A l \in Launchers : WF_vars(LauncherStep(l))

FairSpec == Spec /\ Fairness

-----------------------------------------------------------------------------
(* Properties.                                                             *)

\* A launcher between its lock and its task, or a task at work, counts on the
\* lock.
Relies(l) ==
  \/ pc[l] \in {"held", "undo"} /\ task[l] = "none"
  \/ task[l] \in {"starting", "working"}

\* The reclaim path never takes a lock away from an invocation that may
\* still launch or from a task that is running: _try_reclaim_if_gone's
\* promise that a holder in its launch-grace window is never stolen from.
ReclaimSafe ==
  [][\A l \in Launchers :
       pc[l] = "reclaim" /\ pc'[l] = "reput" => ~Relies(lock[LockKey(l)].owner)]_vars

Owns(l) == lock[LockKey(l)].owner = l

\* Who deletes a lock that may be another's, or its own too early: a phase 1
\* that starts, a task that ECS has stopped, a retrieve task, a sweep, DynamoDB
\* at the ttl, an invocation whose run_task raised although it had placed the
\* task; and an invocation or a task that has lost its own lock to one of these.
Theft ==
  \/ \E t \in Tasks : PreparePhase1(t) \/ EmergencyRelease(t)
  \/ \E t \in Retrievers : Release(t)
  \/ \E s \in Sweepers : SweepDelete(s)
  \/ \E k \in Book \cup {AllBooks} : Expire(k)
  \/ \E l \in Launchers : task[l] # "none" /\ UndoLock(l)
  \/ \E l \in Launchers : Relies(l) /\ ~Owns(l) /\ (UndoLock(l) \/ Release(l))

\* Nobody else takes the lock from an owner who goes on counting on it: not a
\* reclaim, not the undoing of a launch that placed no task, not a task that
\* ends with its lock.
LossHasCause ==
  [][\A l \in Launchers : Owns(l) /\ Relies(l)' => Owns(l)' \/ Theft]_vars

\* "A single book can't double-run a phase" (without MultiDoc: a phase is not
\* run twice), as far as the lock can promise it: of two tasks at work under
\* one key, one has had its lock deleted by somebody who did not look whose it
\* was.  No interleaving of launches, reclaims and time-outs does it.
OneTaskPerKey ==
  \A t, u \in Launchers :
    /\ t # u
    /\ task[t] = "working"
    /\ task[u] = "working"
    /\ LockKey(t) = LockKey(u)
    => t \in dropped \/ u \in dropped

\* A singleton lock does not stay for ever: however its holder ended, the
\* task or a sweep removes it.
LockIsFreed == Exists(AllBooks) ~> ~Exists(AllBooks)
===============================================================================
