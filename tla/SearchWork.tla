------------------------------ MODULE SearchWork ------------------------------
(***************************************************************************)
(* The OpenSERP work queue: the producer that enqueues the entities to be   *)
(* searched, SQS with its visibility time-out, receive count and DLQ, the   *)
(* workers (receive, read, enrich, save, delete), their service and the     *)
(* autoscaler that sets its size.  UrlRegistry has the enrichment.          *)
(*                                                                         *)
(* Time is left out: a visibility lapses when no heartbeat extends it, or   *)
(* when a heartbeat has failed or the entity has taken too long (a fault).  *)
(***************************************************************************)
EXTENDS UrlRegistry

CONSTANTS
  Msgs,        \* the messages that producers may send
  Of,          \* the entity of each
  MaxReceive,  \* maxReceiveCount
  MaxPool,     \* WORKER_MAX_POOL
  PerWorker,   \* MESSAGES_PER_WORKER
  MaxFaults    \* bound: crashes, lost calls and late heartbeats

ASSUME SearchAssumption ==
  /\ IsFiniteSet(Msgs)
  /\ IsFiniteSet(Workers)
  /\ Of \in [Msgs -> Entities]
  /\ MaxReceive \in Nat \ {0}
  /\ MaxPool \in Nat \ {0}
  /\ PerWorker \in Nat \ {0}
  /\ MaxFaults \in Nat

VARIABLES
  msg,      \* the messages
  work,     \* the workers
  entity,   \* the entity records
  desired,  \* the desired count of the service
  scaler,   \* the running invocation of the autoscaler
  faults,   \* how many faults there have been
  late      \* history: entities with a delivery that outlived its visibility

workVars == <<msg, work, entity, desired, scaler, faults, late>>
vars == <<urlVars, workVars>>

Message == [st : {"unsent", "chosen", "visible", "inflight", "deleted", "dead"},
            tries : 0..MaxReceive]
Work == [pc : {"off", "poll", "open", "enrich", "save", "delete"},
         msg : Msgs \cup {NoUrl}, receipt : 0..MaxReceive, stopping : BOOLEAN]
Entity == [searched : BOOLEAN, finds : SUBSET Urls]

Off == [pc |-> "off", msg |-> NoUrl, receipt |-> 0, stopping |-> FALSE]

TypeOK ==
  /\ UrlTypeOK
  /\ msg \in [Msgs -> Message]
  /\ work \in [Workers -> Work]
  /\ entity \in [Entities -> Entity]
  /\ desired \in 0..MaxPool
  /\ scaler \in [pc : {"idle", "update"}, to : 0..MaxPool]
  /\ faults \in 0..MaxFaults
  /\ late \subseteq Entities

Init ==
  /\ UrlInit
  /\ msg = [m \in Msgs |-> [st |-> "unsent", tries |-> 0]]
  /\ work = [w \in Workers |-> Off]
  /\ entity = [e \in Entities |-> [searched |-> FALSE, finds |-> {}]]
  /\ desired = 0
  /\ scaler = [pc |-> "idle", to |-> 0]
  /\ faults = 0
  /\ late = {}

Fault ==
  /\ faults < MaxFaults
  /\ faults' = faults + 1

Busy(w) == work[w].pc \in {"open", "enrich", "save", "delete"}

\* A live worker extends the visibility of its last receipt.
Held(m) ==
  \E w \in Workers : Busy(w) /\ work[w].msg = m /\ work[w].receipt = msg[m].tries

-----------------------------------------------------------------------------
(* The producer: one run may send one message for each entity.              *)

\* build_messages: only an entity that is not searched is chosen.
Choose(m) ==
  /\ msg[m].st = "unsent"
  /\ ~entity[Of[m]].searched
  /\ msg' = [msg EXCEPT ![m].st = "chosen"]
  /\ UNCHANGED <<urlVars, work, entity, desired, scaler, faults, late>>

\* enqueue.  A second message for an entity may be delivered beside the first.
Send(m) ==
  /\ msg[m].st = "chosen"
  /\ msg' = [msg EXCEPT ![m].st = "visible"]
  /\ late' = IF \E n \in Msgs \ {m} : Of[n] = Of[m] /\ msg[n].st # "unsent"
               THEN late \cup {Of[m]} ELSE late
  /\ UNCHANGED <<urlVars, work, entity, desired, scaler, faults>>

-----------------------------------------------------------------------------
(* SQS.                                                                     *)

\* Mutant of Lapse: no heartbeat.
LapseAnyway(m) ==
  /\ msg[m].st = "inflight"
  /\ msg' = [msg EXCEPT ![m].st = "visible"]
  /\ UNCHANGED <<urlVars, work, entity, desired, scaler, faults, late>>

\* Nobody extends the visibility: the worker has died or given up.
Lapse(m) ==
  /\ msg[m].st = "inflight"
  /\ ~Held(m)
  /\ msg' = [msg EXCEPT ![m].st = "visible"]
  /\ UNCHANGED <<urlVars, work, entity, desired, scaler, faults, late>>

\* A heartbeat has failed, or stopped after _MAX_ENTITY_SECONDS.
LapseHeld(m) ==
  /\ msg[m].st = "inflight"
  /\ Held(m)
  /\ Fault
  /\ msg' = [msg EXCEPT ![m].st = "visible"]
  /\ late' = late \cup {Of[m]}
  /\ UNCHANGED <<urlVars, work, entity, desired, scaler>>

\* The redrive policy.
Redrive(m) ==
  /\ msg[m].st = "visible"
  /\ msg[m].tries = MaxReceive
  /\ msg' = [msg EXCEPT ![m].st = "dead"]
  /\ UNCHANGED <<urlVars, work, entity, desired, scaler, faults, late>>

\* Mutant of Receivable: one delivery more than maxReceiveCount.
ReceivableMore(m) == msg[m].st = "visible" /\ msg[m].tries <= MaxReceive

Receivable(m) == msg[m].st = "visible" /\ msg[m].tries < MaxReceive

-----------------------------------------------------------------------------
(* The worker.                                                              *)

At(w, c) == work' = [work EXCEPT ![w].pc = c]

Receive(w, m) ==
  /\ work[w].pc = "poll"
  /\ ~work[w].stopping
  /\ Receivable(m)
  /\ msg' = [msg EXCEPT ![m] = [st |-> "inflight", tries |-> @.tries + 1]]
  /\ work' = [work EXCEPT ![w] = [@ EXCEPT !.pc = "open", !.msg = m,
                                           !.receipt = msg[m].tries + 1]]
  /\ UNCHANGED <<urlVars, entity, desired, scaler, faults, late>>

\* process_message reads the entity; if it is searched the message is deleted,
\* unless the worker has been told to stop.
Open(w) ==
  /\ work[w].pc = "open"
  /\ LET e == Of[work[w].msg] IN
       IF entity[e].searched
         THEN /\ At(w, IF work[w].stopping THEN "poll" ELSE "delete")
              /\ UNCHANGED user
         ELSE /\ At(w, "enrich")
              /\ Begin(w, e, entity[e].finds)
  /\ UNCHANGED <<reg, verdict, claims, stale, lost, msg, entity, desired, scaler, faults, late>>

\* enrich_one_...: page by page.
Enrich(w) ==
  /\ work[w].pc = "enrich"
  /\ UrlStep(w)
  /\ UNCHANGED workVars

EnrichFaulty(w) ==
  /\ work[w].pc = "enrich"
  /\ UrlFault(w)
  /\ Fault
  /\ UNCHANGED <<msg, work, entity, desired, scaler, late>>

\* All pages are dealt with.
Enriched(w) ==
  /\ work[w].pc = "enrich"
  /\ user[w].pc = "next"
  /\ user[w].left = {}
  /\ At(w, "save")
  /\ UNCHANGED <<urlVars, msg, entity, desired, scaler, faults, late>>

\* Mutant of Retry: every message that was processed is deleted.
RetryDeletes(w) ==
  /\ \/ work[w].pc \in {"open", "save"}
     \/ work[w].pc = "enrich" /\ user[w].pc = "next"
  /\ At(w, "delete")
  /\ Drop(w)
  /\ UNCHANGED <<msg, entity, desired, scaler, faults, late>>

\* The verdict "retry": the entity cannot be read, its enrichment raises, or
\* it fails validation.  The message is left to lapse.
Retry(w) ==
  /\ \/ work[w].pc \in {"open", "save"}
     \/ work[w].pc = "enrich" /\ user[w].pc = "next"
  /\ At(w, "poll")
  /\ Drop(w)
  /\ UNCHANGED <<msg, entity, desired, scaler, faults, late>>

\* The record is written whole: what was read, and the finds.
Save(w) ==
  /\ work[w].pc = "save"
  /\ entity' = [entity EXCEPT ![user[w].ent] =
       [searched |-> TRUE, finds |-> user[w].found]]
  /\ user' = [user EXCEPT ![w] = Idle]
  /\ At(w, "delete")
  /\ UNCHANGED <<reg, verdict, claims, stale, lost, msg, desired, scaler, faults, late>>

\* delete_message.  The receipt of an older delivery may have no effect.
Delete(w) ==
  /\ work[w].pc = "delete"
  /\ At(w, "poll")
  /\ LET m == work[w].msg IN
       \/ msg' = [msg EXCEPT ![m].st = IF @ = "dead" THEN @ ELSE "deleted"]
       \/ work[w].receipt # msg[m].tries /\ UNCHANGED msg
  /\ UNCHANGED <<urlVars, entity, desired, scaler, faults, late>>

\* It was told to stop, or has found the queue empty often enough.
Exit(w) ==
  /\ work[w].pc = "poll"
  /\ work[w].stopping \/ \A m \in Msgs : ~Receivable(m)
  /\ work' = [work EXCEPT ![w] = Off]
  /\ UNCHANGED <<urlVars, msg, entity, desired, scaler, faults, late>>

-----------------------------------------------------------------------------
(* The service.                                                             *)

Running == {w \in Workers : work[w].pc # "off"}
Staying == {w \in Running : ~work[w].stopping}

Start(w) ==
  /\ work[w].pc = "off"
  /\ Cardinality(Running) < desired
  /\ At(w, "poll")
  /\ UNCHANGED <<urlVars, msg, entity, desired, scaler, faults, late>>

\* More tasks than desired: one of them gets SIGTERM, be it busy or not.
Stop(w) ==
  /\ w \in Staying
  /\ Cardinality(Staying) > desired
  /\ work' = [work EXCEPT ![w].stopping = TRUE]
  /\ UNCHANGED <<urlVars, msg, entity, desired, scaler, faults, late>>

\* SIGKILL after the stop timeout.
Kill(w) ==
  /\ work[w].stopping
  /\ work' = [work EXCEPT ![w] = Off]
  /\ Drop(w)
  /\ UNCHANGED <<msg, entity, desired, scaler, faults, late>>

\* A Spot reclaim or an error.
Crash(w) ==
  /\ w \in Running
  /\ Fault
  /\ work' = [work EXCEPT ![w] = Off]
  /\ Drop(w)
  /\ UNCHANGED <<msg, entity, desired, scaler, late>>

-----------------------------------------------------------------------------
(* The autoscaler.                                                          *)

Backlog == Cardinality({m \in Msgs : msg[m].st \in {"visible", "inflight"}})

Least(i, j) == IF i < j THEN i ELSE j
Greatest(i, j) == IF i < j THEN j ELSE i

DesiredFor(backlog) ==
  IF backlog = 0 THEN 0
  ELSE Greatest(1, Least(MaxPool, (backlog + PerWorker - 1) \div PerWorker))

\* The counts are read, and the size that they call for.
Measure ==
  /\ scaler.pc = "idle"
  /\ DesiredFor(Backlog) # desired
  /\ scaler' = [pc |-> "update", to |-> DesiredFor(Backlog)]
  /\ UNCHANGED <<urlVars, msg, work, entity, desired, faults, late>>

\* Mutant of Update: the service is only ever made larger.
UpdateUp ==
  /\ scaler.pc = "update"
  /\ desired' = Greatest(desired, scaler.to)
  /\ scaler' = [pc |-> "idle", to |-> 0]
  /\ UNCHANGED <<urlVars, msg, work, entity, faults, late>>

\* From zero, once the NAT is confirmed to be ready.
Update ==
  /\ scaler.pc = "update"
  /\ desired' = scaler.to
  /\ scaler' = [pc |-> "idle", to |-> 0]
  /\ UNCHANGED <<urlVars, msg, work, entity, faults, late>>

\* The NAT is not ready in time, or update_service raises.
ScaleFails ==
  /\ scaler.pc = "update"
  /\ Fault
  /\ scaler' = [pc |-> "idle", to |-> 0]
  /\ UNCHANGED <<urlVars, msg, work, entity, desired, late>>

-----------------------------------------------------------------------------
WorkerStep(w) ==
  \/ \E m \in Msgs : Receive(w, m)
  \/ Open(w)
  \/ Enrich(w)
  \/ Enriched(w)
  \/ Retry(w)
  \/ Save(w)
  \/ Delete(w)
  \/ Exit(w)

ServiceStep(w) == Start(w) \/ Stop(w) \/ Kill(w)
QueueStep(m) == Lapse(m) \/ Redrive(m)
ScalerStep == Measure \/ Update

Next ==
  \/ \E m \in Msgs : Choose(m) \/ Send(m) \/ LapseHeld(m) \/ QueueStep(m)
  \/ \E w \in Workers : WorkerStep(w) \/ ServiceStep(w) \/ EnrichFaulty(w) \/ Crash(w)
  \/ ScalerStep \/ ScaleFails
  \/ Age /\ UNCHANGED workVars

Spec == Init /\ [][Next]_vars

\* A worker that runs goes on, ECS starts tasks, visibility lapses by itself,
\* the autoscaler is scheduled and the NAT becomes ready in the end.
FairSpec ==
  /\ Spec
  /\ \A w \in Workers : WF_vars(WorkerStep(w)) /\ WF_vars(Start(w))
  /\ \A m \in Msgs : WF_vars(QueueStep(m))
  /\ WF_vars(ScalerStep)

-----------------------------------------------------------------------------
(* Properties.                                                              *)

\* The queue as WorkDelivery describes it.
InQueue(m) ==
  CASE msg[m].st \in {"unsent", "chosen"} -> "unsent"
    [] msg[m].st \in {"visible", "inflight"} -> "queued"
    [] msg[m].st = "deleted" -> "done"
    [] msg[m].st = "dead" -> "dead"

Delivery == INSTANCE WorkDelivery WITH
  message <- [m \in Msgs |-> InQueue(m)],
  tries <- [m \in Msgs |-> msg[m].tries],
  searched <- {e \in Entities : entity[e].searched}

\* "The message is deleted only after a successful write": a message leaves
\* the queue when its entity is searched, or after MaxReceive deliveries.
Delivered == Delivery!Spec

\* The record is read, worked on and written whole; while each delivery keeps
\* its visibility, no write takes away the finds of another.
FindsKept ==
  [][\A e \in Entities \ late : entity[e].finds \subseteq entity'[e].finds]_vars

\* Every message is handled in the end, and the service scaled to zero.
Drained ==
  <>[](/\ \A m \in Msgs : msg[m].st \notin {"visible", "inflight"}
       /\ desired = 0)
===============================================================================
