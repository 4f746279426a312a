-------------------------- MODULE DispatcherProofs --------------------------
(***************************************************************************)
(* Proofs about Dispatcher, for any documents, uploads, executions, limits *)
(* and failures:                                                           *)
(*   - type correctness;                                                   *)
(*   - as long as nobody overwrites the record of a document that has a    *)
(*     task, the document is worked on by one execution only, and leaves a *)
(*     terminal status only by an upload or a retrieved batch;             *)
(*   - no execution holds more documents than the scope guard approved;    *)
(*   - a document that a task has advanced is still to be enumerated by    *)
(*     the execution of that task.                                         *)
(***************************************************************************)
EXTENDS Dispatcher, FiniteSetTheorems, TLAPS

(***************************************************************************)
(* Type correctness.                                                       *)
(***************************************************************************)

LEMMA NoRecordType == NoRecord \in Record
  BY DEF NoRecord, Record, Phases

LEMMA NoItemType == NoItem \in Item
  BY DispatcherAssumption DEF NoItem, Item, Phases

\* What a task may write is a record.
LEMMA AdvancedType ==
  ASSUME NEW d \in Docs, NEW p \in Phases, doc \in [Docs -> Record]
  PROVE  Advanced(d, p) \subseteq Record
<1>1. doc[d] \in Record
  OBVIOUS
<1>2. p = 1 \/ p = 2 \/ p = 3
  BY DEF Phases
<1> QED
  BY <1>1, <1>2 DEF Advanced, Record, Phases, Ready, Terminal

\* The effective pool size is a number between the bounds, or PoolMin.
LEMMA EffectiveType ==
  ASSUME NEW q \in Quotas \cup {PoolMax}
  PROVE  Effective(q) \in Nat
  BY DispatcherAssumption DEF Effective, Greatest, Least

LEMMA InitTypeOK == Init => TypeOK
<1> SUFFICES ASSUME Init PROVE TypeOK
  OBVIOUS
<1> USE DispatcherAssumption, NoRecordType, NoItemType
<1>1. upload \in [Uploads -> Upload]
  BY DEF Init, Upload
<1>2. /\ doc \in [Docs -> Record]
      /\ snap \in [Drains -> [Docs -> Record]]
      /\ item \in [Drains -> [Docs -> Item]]
  BY DEF Init
<1> QED
  BY <1>1, <1>2 DEF Init, TypeOK, Ended

\* The history of a write keeps its type.
LEMMA NoteType ==
  ASSUME TypeOK, NEW d \in Docs, NEW s, NEW x \in Drains \cup {NoDrain}, NEW W,
         Note(d, s, x, W)
  PROVE  /\ driver' \in [Docs -> Drains \cup {NoDrain}]
         /\ overtaken' \subseteq Docs
  BY DEF Note, TypeOK

LEMMA TriggerTypeOK ==
  ASSUME TypeOK, NEW u \in Uploads, TriggerStep(u) \/ StartFails(u)
  PROVE  TypeOK'
<1> USE DispatcherAssumption
<1>1. ASSUME NEW c \in {"start", "look", "execute", "end"}
      PROVE  [upload EXCEPT ![u].pc = c] \in [Uploads -> Upload]
  BY DEF TypeOK, Upload
<1>2. CASE Seed(u)
  <2>1. upload[u].book \in Docs
    BY DEF TypeOK, Upload
  <2>2. PICK p \in {1, 2} :
          /\ doc' = [doc EXCEPT ![upload[u].book] =
                       [status |-> "held_unprocessed", next |-> p]]
          /\ Note(upload[u].book, "held_unprocessed", NoDrain, Workers(upload[u].book))
    BY <1>2 DEF Seed
  <2>3. [status |-> "held_unprocessed", next |-> p] \in Record
    BY DEF Record, Ready, Phases
  <2>4. doc' \in [Docs -> Record]
    BY <2>1, <2>2, <2>3 DEF TypeOK
  <2>5. upload' \in [Uploads -> Upload]
    BY <1>1, <1>2 DEF Seed
  <2>6. /\ driver' \in [Docs -> Drains \cup {NoDrain}]
        /\ overtaken' \subseteq Docs
    BY <2>1, <2>2, NoteType
  <2> QED
    BY <1>2, <2>4, <2>5, <2>6 DEF Seed, TypeOK, drainVars
<1>3. CASE SeesRunning(u)
  <2>1. upload' \in [Uploads -> Upload]
    BY <1>1, <1>3 DEF SeesRunning
  <2> QED
    BY <1>3, <2>1 DEF SeesRunning, TypeOK, drainVars
<1>4. CASE SeesNone(u)
  <2>1. upload' \in [Uploads -> Upload]
    BY <1>1, <1>4 DEF SeesNone
  <2> QED
    BY <1>4, <2>1 DEF SeesNone, TypeOK, drainVars
<1>5. ASSUME NEW x \in Drains, StartExecution(u, x)
      PROVE  TypeOK'
  <2>1. upload' \in [Uploads -> Upload]
    BY <1>1, <1>5 DEF StartExecution
  <2> QED
    BY <1>5, <2>1 DEF StartExecution, TypeOK
<1>6. CASE StartFails(u)
  <2>1. upload' \in [Uploads -> Upload]
    BY <1>1, <1>6 DEF StartFails
  <2> QED
    BY <1>6, <2>1 DEF StartFails, Fault, TypeOK, drainVars
<1> QED
  BY <1>2, <1>3, <1>4, <1>5, <1>6 DEF TriggerStep

\* The steps of one execution that are not about one document.
LEMMA PassTypeOK ==
  ASSUME TypeOK, NEW x \in Drains,
         Guard(x) \/ AnyPending(x) \/ Prepare(x) \/ FanOutEnds(x) \/ DrainFails(x)
  PROVE  TypeOK'
<1> USE DispatcherAssumption
<1>1. CASE Guard(x)
  BY <1>1 DEF Guard, TypeOK, Ended
<1>2. CASE AnyPending(x)
  BY <1>2 DEF AnyPending, TypeOK, Ended
<1>3. CASE Prepare(x)
  BY <1>3, EffectiveType DEF Prepare, TypeOK
<1>4. CASE FanOutEnds(x)
  BY <1>4 DEF FanOutEnds, TypeOK
<1>5. CASE DrainFails(x)
  BY <1>5, NoItemType DEF DrainFails, Fault, TypeOK, Ended
<1> QED
  BY <1>1, <1>2, <1>3, <1>4, <1>5

\* Its steps about one document.
LEMMA DocTypeOK ==
  ASSUME TypeOK, NEW x \in Drains, NEW d \in Docs,
         \/ Scan(x, d) \/ ClaimWon(x, d) \/ ClaimLost(x, d) \/ Launch(x, d)
         \/ Advance(x, d) \/ AdvanceRaises(x, d) \/ Park(x, d) \/ Exit(x, d)
         \/ TaskFails(x, d)
  PROVE  TypeOK'
<1> USE DispatcherAssumption
<1>r. doc[d] \in Record /\ snap[x][d] \in Record /\ item[x][d] \in Item
  BY DEF TypeOK
<1>p. snap[x][d].next \in Phases /\ item[x][d].phase \in Phases
      /\ item[x][d].tries \in 0..Attempts
  BY <1>r DEF Record, Item
<1>1. CASE Scan(x, d)
  <2>1. snap' \in [Drains -> [Docs -> Record]]
    BY <1>1, <1>r, NoRecordType DEF Scan, TypeOK
  <2> QED
    BY <1>1, <2>1 DEF Scan, TypeOK
<1>2. CASE ClaimWon(x, d)
  <2>1. snap' \in [Drains -> [Docs -> Record]]
    BY <1>2, NoRecordType DEF ClaimWon, TypeOK
  <2>2. [doc[d] EXCEPT !.status = "running"] \in Record
    BY <1>r DEF Record
  <2>3. doc' = [doc EXCEPT ![d] = [doc[d] EXCEPT !.status = "running"]]
    BY <1>2 DEF ClaimWon
  <2>4. doc' \in [Docs -> Record]
    BY <2>2, <2>3 DEF TypeOK
  <2>5. [st |-> "waiting", phase |-> snap[x][d].next, tries |-> 1] \in Item
    BY <1>p DEF Item
  <2>6. item' \in [Drains -> [Docs -> Item]]
    BY <1>2, <2>5 DEF ClaimWon, TypeOK
  <2> QED
    BY <1>2, <2>1, <2>4, <2>6 DEF ClaimWon, TypeOK
<1>3. CASE ClaimLost(x, d)
  <2>1. snap' \in [Drains -> [Docs -> Record]]
    BY <1>3, NoRecordType DEF ClaimLost, TypeOK
  <2> QED
    BY <1>3, <2>1 DEF ClaimLost, TypeOK
<1>4. ASSUME NEW s \in {"running", "advanced"}
      PROVE  [item EXCEPT ![x][d].st = s] \in [Drains -> [Docs -> Item]]
  <2>1. [item[x][d] EXCEPT !.st = s] \in Item
    BY <1>r DEF Item
  <2>2. [item EXCEPT ![x][d] = [item[x][d] EXCEPT !.st = s]] \in [Drains -> [Docs -> Item]]
    BY <2>1 DEF TypeOK
  <2> QED
    BY <2>2
<1>5. [item EXCEPT ![x][d] = NoItem] \in [Drains -> [Docs -> Item]]
  BY NoItemType DEF TypeOK
<1>6. CASE Launch(x, d)
  BY <1>4, <1>6 DEF Launch, TypeOK, drainVars
<1>7. CASE Advance(x, d)
  <2>1. item' \in [Drains -> [Docs -> Item]]
    BY <1>4, <1>7 DEF Advance
  <2>2. PICK r \in Advanced(d, item[x][d].phase) :
          /\ doc' = [doc EXCEPT ![d] = r]
          /\ Note(d, r.status, x, Workers(d) \ {x})
    BY <1>7 DEF Advance
  <2>3. r \in Record
    BY <1>p, <2>2, AdvancedType DEF TypeOK
  <2>4. doc' \in [Docs -> Record]
    BY <2>2, <2>3 DEF TypeOK
  <2>5. /\ driver' \in [Docs -> Drains \cup {NoDrain}]
        /\ overtaken' \subseteq Docs
    BY <2>2, NoteType
  <2> QED
    BY <1>7, <2>1, <2>4, <2>5 DEF Advance, TypeOK, drainVars
<1>8. CASE AdvanceRaises(x, d)
  BY <1>4, <1>8 DEF AdvanceRaises, Fault, TypeOK, drainVars
<1>9. CASE Park(x, d)
  <2>1. batch' \subseteq Docs \X InBatch
    BY <1>9 DEF Park, TypeOK
  <2> QED
    BY <1>5, <1>9, <2>1 DEF Park, TypeOK, drainVars
<1>10. CASE Exit(x, d)
  BY <1>5, <1>10 DEF Exit, TypeOK, drainVars
<1>11. CASE TaskFails(x, d)
  <2>1. item' \in [Drains -> [Docs -> Item]]
    <3>1. CASE item[x][d].tries < Attempts
      <4>1. item[x][d].tries + 1 \in 0..Attempts
        BY <1>p, <3>1
      <4>2. [st |-> "running", phase |-> item[x][d].phase, tries |-> item[x][d].tries + 1]
              \in Item
        BY <1>p, <4>1 DEF Item
      <4>3. item' = [item EXCEPT ![x][d] =
              [st |-> "running", phase |-> item[x][d].phase, tries |-> item[x][d].tries + 1]]
        BY <1>11, <3>1 DEF TaskFails
      <4> QED
        BY <4>2, <4>3 DEF TypeOK
    <3>2. CASE ~(item[x][d].tries < Attempts)
      BY <1>5, <1>11, <3>2 DEF TaskFails
    <3> QED
      BY <3>1, <3>2
  <2>2. overtaken' \subseteq Docs
    BY <1>11 DEF TaskFails, TypeOK
  <2> QED
    BY <1>11, <2>1, <2>2 DEF TaskFails, Fault, TypeOK, drainVars
<1> QED
  BY <1>1, <1>2, <1>3, <1>6, <1>7, <1>8, <1>9, <1>10, <1>11

LEMMA RetrieveTypeOK ==
  ASSUME TypeOK, NEW d \in Docs, NEW p \in InBatch, Retrieve(d, p) \/ RetrieveFails(d, p)
  PROVE  TypeOK'
<1> USE DispatcherAssumption
<1>1. CASE Retrieve(d, p)
  <2>1. PICK r \in Advanced(d, p) :
          /\ doc' = [doc EXCEPT ![d] = r]
          /\ Note(d, r.status, NoDrain, Workers(d))
    BY <1>1 DEF Retrieve
  <2>2. p \in Phases
    BY DEF Phases
  <2>3. r \in Record
    BY <2>1, <2>2, AdvancedType DEF TypeOK
  <2>4. doc' \in [Docs -> Record]
    BY <2>1, <2>3 DEF TypeOK
  <2>5. /\ driver' \in [Docs -> Drains \cup {NoDrain}]
        /\ overtaken' \subseteq Docs
    BY <2>1, NoteType
  <2> QED
    BY <1>1, <2>4, <2>5 DEF Retrieve, TypeOK, drainVars
<1>2. CASE RetrieveFails(d, p)
  BY <1>2 DEF RetrieveFails, Fault, TypeOK, drainVars
<1> QED
  BY <1>1, <1>2

LEMMA NextTypeOK == TypeOK /\ [Next]_vars => TypeOK'
<1> SUFFICES ASSUME TypeOK, [Next]_vars
             PROVE  TypeOK'
  OBVIOUS
<1>1. ASSUME NEW u \in Uploads, TriggerStep(u) \/ StartFails(u)
      PROVE  TypeOK'
  BY <1>1, TriggerTypeOK
<1>2. ASSUME NEW x \in Drains, DrainStep(x) \/ DrainFails(x)
      PROVE  TypeOK'
  BY <1>2, PassTypeOK, DocTypeOK DEF DrainStep
<1>3. ASSUME NEW x \in Drains, NEW d \in Docs, AdvanceRaises(x, d) \/ TaskFails(x, d)
      PROVE  TypeOK'
  BY <1>3, DocTypeOK
<1>4. ASSUME NEW d \in Docs, NEW p \in InBatch, Retrieve(d, p) \/ RetrieveFails(d, p)
      PROVE  TypeOK'
  BY <1>4, RetrieveTypeOK
<1>5. CASE UNCHANGED vars
  BY <1>5 DEF vars, drainVars, TypeOK
<1> QED
  BY <1>1, <1>2, <1>3, <1>4, <1>5 DEF Next, Failure

\* Every variable keeps its type.
THEOREM TypeCorrect == Spec => []TypeOK
<1> QED
  BY InitTypeOK, NextTypeOK, PTL DEF Spec

(***************************************************************************)
(* No double dispatch.  While its record is not written behind its back, a *)
(* document that is worked on is "running", and so is not claimed again.   *)
(***************************************************************************)

RunningWhenWorked ==
  \A x \in Drains, d \in Docs \ overtaken :
    Works(x, d) => doc[d].status = "running"

OneWorker ==
  \A x, y \in Drains, d \in Docs \ overtaken :
    Works(x, d) /\ Works(y, d) => x = y

WorkInv == RunningWhenWorked /\ OneWorker

LEMMA InitWorkInv == Init => WorkInv
  BY DEF Init, WorkInv, RunningWhenWorked, OneWorker, Works, NoItem

\* A step that gives no execution work on a document, and does not write the
\* record of a document that still has work, unless it is overtaken.
WorkKept ==
  /\ overtaken \subseteq overtaken'
  /\ \A x \in Drains, d \in Docs :
       d \notin overtaken' /\ Works(x, d)' => Works(x, d) /\ doc'[d] = doc[d]

LEMMA KeptWorkInv == WorkInv /\ WorkKept => WorkInv'
  BY DEF WorkInv, RunningWhenWorked, OneWorker, WorkKept

LEMMA SameWork ==
  ASSUME UNCHANGED <<doc, item, overtaken>>
  PROVE  WorkKept
  BY DEF WorkKept, Works

LEMMA ClaimWorkInv ==
  ASSUME TypeOK, WorkInv, NEW x \in Drains, NEW d \in Docs, ClaimWon(x, d)
  PROVE  WorkInv'
<1>1. doc[d].status \in Ready
  BY DEF ClaimWon, Candidates
<1>2. \A y \in Drains : d \notin overtaken => ~Works(y, d)
  BY <1>1 DEF WorkInv, RunningWhenWorked, Ready
<1>3. doc'[d].status = "running" /\ \A e \in Docs : e # d => doc'[e] = doc[e]
  BY DEF ClaimWon, TypeOK, Record
<1>4. \A y \in Drains, e \in Docs : Works(y, e)' => Works(y, e) \/ (y = x /\ e = d)
  BY DEF ClaimWon, Works, TypeOK
<1>5. overtaken' = overtaken
  BY DEF ClaimWon
<1> QED
  BY <1>2, <1>3, <1>4, <1>5 DEF WorkInv, RunningWhenWorked, OneWorker

\* Who seeds or retrieves writes the record; the document is overtaken when
\* there is work on it.
LEMMA WriteKept ==
  ASSUME TypeOK, NEW d \in Docs, NEW r, NEW s,
         doc' = [doc EXCEPT ![d] = r], Note(d, s, NoDrain, Workers(d)), item' = item
  PROVE  WorkKept
  BY DEF WorkKept, Note, Workers, Works, TypeOK

LEMMA AdvanceKept ==
  ASSUME TypeOK, NEW x \in Drains, NEW d \in Docs, Advance(x, d)
  PROVE  WorkKept
<1>1. PICK r \in Advanced(d, item[x][d].phase) :
        /\ doc' = [doc EXCEPT ![d] = r]
        /\ Note(d, r.status, x, Workers(d) \ {x})
  BY DEF Advance
<1>2. ~Works(x, d)'
  BY DEF Advance, Works, TypeOK, Item
<1>3. \A y \in Drains, e \in Docs : y # x \/ e # d => item'[y][e] = item[y][e]
  BY DEF Advance, TypeOK
<1>4. overtaken' = IF Workers(d) \ {x} # {} THEN overtaken \cup {d} ELSE overtaken
  BY <1>1 DEF Note
<1>5. \A e \in Docs : e # d => doc'[e] = doc[e]
  BY <1>1 DEF TypeOK
<1> QED
  BY <1>2, <1>3, <1>4, <1>5 DEF WorkKept, Works, Workers

\* The other steps that change an item.
LEMMA ItemKept ==
  ASSUME TypeOK, NEW x \in Drains,
         \/ DrainFails(x)
         \/ \E d \in Docs : \/ Launch(x, d) \/ AdvanceRaises(x, d) \/ Park(x, d)
                            \/ Exit(x, d) \/ TaskFails(x, d)
  PROVE  WorkKept
<1>1. CASE DrainFails(x)
  BY <1>1 DEF DrainFails, WorkKept, Works, NoItem, TypeOK
<1>2. ASSUME NEW d \in Docs, Launch(x, d)
      PROVE  WorkKept
  BY <1>2 DEF Launch, WorkKept, Works, TypeOK, Item
<1>3. ASSUME NEW d \in Docs, AdvanceRaises(x, d)
      PROVE  WorkKept
  BY <1>3 DEF AdvanceRaises, WorkKept, Works, TypeOK, Item
<1>4. ASSUME NEW d \in Docs, Park(x, d)
      PROVE  WorkKept
  BY <1>4 DEF Park, WorkKept, Works, NoItem, TypeOK
<1>5. ASSUME NEW d \in Docs, Exit(x, d)
      PROVE  WorkKept
  BY <1>5 DEF Exit, WorkKept, Works, NoItem, TypeOK
<1>6. ASSUME NEW d \in Docs, TaskFails(x, d)
      PROVE  WorkKept
  <2>1. \A y \in Drains, e \in Docs : y # x \/ e # d => item'[y][e] = item[y][e]
    BY <1>6 DEF TaskFails, TypeOK
  <2>2. overtaken \subseteq overtaken' /\ doc' = doc
    BY <1>6 DEF TaskFails
  <2>3. Works(x, d) \/ ~Works(x, d)' \/ d \in overtaken'
    BY <1>6 DEF TaskFails, Works, NoItem, TypeOK
  <2> QED
    BY <2>1, <2>2, <2>3 DEF WorkKept, Works
<1> QED
  BY <1>1, <1>2, <1>3, <1>4, <1>5, <1>6

LEMMA NextWorkInv == TypeOK /\ WorkInv /\ [Next]_vars => WorkInv'
<1> SUFFICES ASSUME TypeOK, WorkInv, [Next]_vars
             PROVE  WorkInv'
  OBVIOUS
<1>1. ASSUME NEW u \in Uploads, TriggerStep(u) \/ StartFails(u)
      PROVE  WorkKept
  <2>1. CASE Seed(u)
    BY <2>1, WriteKept DEF Seed, TypeOK, Upload
  <2>2. CASE ~Seed(u)
    BY <1>1, <2>2, SameWork DEF TriggerStep, SeesRunning, SeesNone, StartExecution, StartFails
  <2> QED
    BY <2>1, <2>2
<1>2. ASSUME NEW x \in Drains, DrainStep(x)
      PROVE  WorkInv'
  <2>1. CASE Guard(x) \/ AnyPending(x) \/ Prepare(x) \/ FanOutEnds(x)
    BY <2>1, SameWork, KeptWorkInv DEF Guard, AnyPending, Prepare, FanOutEnds
  <2>2. ASSUME NEW d \in Docs, Scan(x, d) \/ ClaimLost(x, d)
        PROVE  WorkInv'
    BY <2>2, SameWork, KeptWorkInv DEF Scan, ClaimLost
  <2>3. ASSUME NEW d \in Docs, ClaimWon(x, d)
        PROVE  WorkInv'
    BY <2>3, ClaimWorkInv
  <2>4. ASSUME NEW d \in Docs, Advance(x, d)
        PROVE  WorkInv'
    BY <2>4, AdvanceKept, KeptWorkInv
  <2>5. ASSUME NEW d \in Docs, Launch(x, d) \/ Park(x, d) \/ Exit(x, d)
        PROVE  WorkInv'
    BY <2>5, ItemKept, KeptWorkInv
  <2> QED
    BY <1>2, <2>1, <2>2, <2>3, <2>4, <2>5 DEF DrainStep
<1>3. ASSUME NEW d \in Docs, NEW p \in InBatch, Retrieve(d, p)
      PROVE  WorkKept
  BY <1>3, WriteKept DEF Retrieve
<1>4. ASSUME Failure
      PROVE  WorkKept
  <2>1. ASSUME NEW d \in Docs, NEW p \in InBatch, RetrieveFails(d, p)
        PROVE  WorkKept
    BY <2>1, SameWork DEF RetrieveFails
  <2> QED
    BY <1>1, <1>4, <2>1, ItemKept DEF Failure
<1>5. CASE UNCHANGED vars
  BY <1>5, SameWork, KeptWorkInv DEF vars
<1> QED
  BY <1>1, <1>2, <1>3, <1>4, <1>5, KeptWorkInv DEF Next

LEMMA OneWorkerCounts == WorkInv => WorkedOnce
<1> SUFFICES ASSUME WorkInv, NEW d \in Docs \ overtaken
             PROVE  Cardinality(Workers(d)) <= 1
  BY DEF WorkedOnce
<1>1. CASE Workers(d) = {}
  BY <1>1, FS_EmptySet
<1>2. ASSUME NEW x \in Workers(d)
      PROVE  Cardinality(Workers(d)) <= 1
  <2>1. Workers(d) = {x}
    BY DEF WorkInv, OneWorker, Workers
  <2> QED
    BY <2>1, FS_Singleton
<1> QED
  BY <1>1, <1>2

\* "So a doc is never double-dispatched", for the documents whose record has
\* not been written behind a task's back.
THEOREM NoDoubleDispatch == Spec => []WorkedOnce
<1>1. Init => WorkInv
  BY InitWorkInv
<1>2. TypeOK /\ WorkInv /\ [Next]_vars => WorkInv'
  BY NextWorkInv
<1> QED
  BY <1>1, <1>2, TypeCorrect, OneWorkerCounts, PTL DEF Spec

\* Only an upload or a retrieval changes a record in a terminal status: the
\* tasks write records that are "running", the claims records that are READY.
LEMMA TerminalStep ==
  ASSUME TypeOK, WorkInv, [Next]_vars,
         NEW d \in Docs \ overtaken, doc[d].status \in Terminal, doc'[d] # doc[d]
  PROVE  \/ \E u \in Uploads : upload[u].book = d /\ upload[u].pc # upload'[u].pc
         \/ batch' # batch
<1>1. ASSUME NEW u \in Uploads, Seed(u)
      PROVE  upload[u].book = d /\ upload[u].pc # upload'[u].pc
  BY <1>1 DEF Seed, TypeOK, Upload
<1>2. ASSUME NEW u \in Uploads, SeesRunning(u) \/ SeesNone(u) \/ StartFails(u)
      PROVE  FALSE
  BY <1>2 DEF SeesRunning, SeesNone, StartFails
<1>3. ASSUME NEW u \in Uploads, NEW x \in Drains, StartExecution(u, x)
      PROVE  FALSE
  BY <1>3 DEF StartExecution
<1>4. ASSUME NEW x \in Drains, NEW e \in Docs, ClaimWon(x, e)
      PROVE  FALSE
  <2>1. e = d
    BY <1>4 DEF ClaimWon, TypeOK
  <2> QED
    BY <1>4, <2>1 DEF ClaimWon, Candidates, Ready, Terminal
<1>5. ASSUME NEW x \in Drains, NEW e \in Docs, Advance(x, e)
      PROVE  FALSE
  <2>1. e = d
    BY <1>5 DEF Advance, TypeOK
  <2>2. Works(x, d)
    BY <1>5, <2>1 DEF Advance, Works
  <2> QED
    BY <2>2 DEF WorkInv, RunningWhenWorked, Terminal
<1>6. ASSUME NEW x \in Drains, Guard(x) \/ AnyPending(x) \/ Prepare(x) \/ FanOutEnds(x) \/ DrainFails(x)
      PROVE  FALSE
  BY <1>6 DEF Guard, AnyPending, Prepare, FanOutEnds, DrainFails
<1>7. ASSUME NEW x \in Drains, NEW e \in Docs,
             \/ Scan(x, e) \/ ClaimLost(x, e) \/ Launch(x, e) \/ Park(x, e) \/ Exit(x, e)
             \/ AdvanceRaises(x, e) \/ TaskFails(x, e)
      PROVE  FALSE
  BY <1>7 DEF Scan, ClaimLost, Launch, Park, Exit, AdvanceRaises, TaskFails
<1>8. ASSUME NEW e \in Docs, NEW p \in InBatch, Retrieve(e, p) \/ RetrieveFails(e, p)
      PROVE  batch' # batch
  BY <1>8 DEF Retrieve, RetrieveFails
<1>9. CASE UNCHANGED vars
  BY <1>9 DEF vars
<1> QED
  BY <1>1, <1>2, <1>3, <1>4, <1>5, <1>6, <1>7, <1>8, <1>9
  DEF Next, TriggerStep, DrainStep, Failure

\* A document that is done or held for review is left alone.
THEOREM TerminalStays == Spec => TerminalIsFinal
<1>1. TypeOK /\ WorkInv /\ [Next]_vars =>
        [\A d \in Docs \ overtaken :
           doc[d].status \in Terminal /\ doc'[d] # doc[d] =>
             \/ \E u \in Uploads : upload[u].book = d /\ upload[u].pc # upload'[u].pc
             \/ batch' # batch]_vars
  BY TerminalStep
<1>2. Init => WorkInv
  BY InitWorkInv
<1>3. TypeOK /\ WorkInv /\ [Next]_vars => WorkInv'
  BY NextWorkInv
<1> QED
  BY <1>1, <1>2, <1>3, TypeCorrect, PTL DEF Spec, TerminalIsFinal

(***************************************************************************)
(* Where the work items are.                                               *)
(***************************************************************************)

InPass ==
  \A x \in Drains, d \in Docs :
    /\ item[x][d].st = "waiting" => dpc[x] \in {"claim", "prepare", "fanout"}
    /\ item[x][d].st \in {"running", "advanced"} => dpc[x] = "fanout"

LEMMA InitInPass == Init => InPass
  BY DEF Init, InPass, NoItem

\* A step of one document's item in the fan-out, or one that removes it.
LEMMA ItemInPass ==
  ASSUME TypeOK, InPass, NEW x \in Drains, NEW d \in Docs, UNCHANGED dpc,
         \A y \in Drains, e \in Docs : y # x \/ e # d => item'[y][e] = item[y][e],
         item'[x][d].st # "none" =>
           \/ dpc[x] = "fanout"
           \/ dpc[x] = "claim" /\ item'[x][d].st = "waiting"
  PROVE  InPass'
  BY DEF InPass

LEMMA NextInPass == TypeOK /\ InPass /\ [Next]_vars => InPass'
<1> SUFFICES ASSUME TypeOK, InPass, [Next]_vars
             PROVE  InPass'
  OBVIOUS
<1>0. ASSUME UNCHANGED <<dpc, item>>
      PROVE  InPass'
  BY <1>0 DEF InPass
<1>1. ASSUME NEW u \in Uploads, TriggerStep(u) \/ StartFails(u)
      PROVE  InPass'
  <2>1. ASSUME NEW x \in Drains, StartExecution(u, x)
        PROVE  InPass'
    BY <2>1 DEF StartExecution, InPass, TypeOK
  <2>2. CASE Seed(u) \/ SeesRunning(u) \/ SeesNone(u) \/ StartFails(u)
    BY <1>0, <2>2 DEF Seed, SeesRunning, SeesNone, StartFails, drainVars
  <2> QED
    BY <1>1, <2>1, <2>2 DEF TriggerStep
<1>2. ASSUME NEW x \in Drains, DrainStep(x)
      PROVE  InPass'
  <2>1. CASE Guard(x)
    BY <2>1 DEF Guard, InPass, TypeOK
  <2>2. CASE AnyPending(x)
    BY <2>2 DEF AnyPending, Items, InPass, TypeOK
  <2>3. CASE Prepare(x)
    BY <2>3 DEF Prepare, InPass, TypeOK
  <2>4. CASE FanOutEnds(x)
    BY <2>4 DEF FanOutEnds, Items, InPass, TypeOK
  <2>5. ASSUME NEW d \in Docs, Scan(x, d) \/ ClaimLost(x, d)
        PROVE  InPass'
    BY <1>0, <2>5 DEF Scan, ClaimLost
  <2>6. ASSUME NEW d \in Docs, ClaimWon(x, d)
        PROVE  InPass'
    BY <2>6, ItemInPass DEF ClaimWon, TypeOK
  <2>7. ASSUME NEW d \in Docs, Launch(x, d)
        PROVE  InPass'
    BY <2>7, ItemInPass DEF Launch, TypeOK, drainVars
  <2>8. ASSUME NEW d \in Docs, Advance(x, d)
        PROVE  InPass'
    <3>1. dpc[x] = "fanout"
      BY <2>8 DEF Advance, InPass
    <3> QED
      BY <2>8, <3>1, ItemInPass DEF Advance, TypeOK, drainVars
  <2>9. ASSUME NEW d \in Docs, Park(x, d)
        PROVE  InPass'
    BY <2>9, ItemInPass DEF Park, NoItem, TypeOK, drainVars
  <2>10. ASSUME NEW d \in Docs, Exit(x, d)
         PROVE  InPass'
    BY <2>10, ItemInPass DEF Exit, NoItem, TypeOK, drainVars
  <2> QED
    BY <1>2, <2>1, <2>2, <2>3, <2>4, <2>5, <2>6, <2>7, <2>8, <2>9, <2>10 DEF DrainStep
<1>3. ASSUME NEW d \in Docs, NEW p \in InBatch, Retrieve(d, p) \/ RetrieveFails(d, p)
      PROVE  InPass'
  BY <1>0, <1>3 DEF Retrieve, RetrieveFails, drainVars
<1>4. ASSUME NEW x \in Drains, DrainFails(x)
      PROVE  InPass'
  BY <1>4 DEF DrainFails, InPass, NoItem, TypeOK
<1>5. ASSUME NEW x \in Drains, NEW d \in Docs, AdvanceRaises(x, d) \/ TaskFails(x, d)
      PROVE  InPass'
  <2>1. dpc[x] = "fanout"
    BY <1>5 DEF AdvanceRaises, TaskFails, InPass
  <2>2. UNCHANGED dpc
    BY <1>5 DEF AdvanceRaises, TaskFails, drainVars
  <2>3. \A y \in Drains, e \in Docs : y # x \/ e # d => item'[y][e] = item[y][e]
    BY <1>5 DEF AdvanceRaises, TaskFails, TypeOK
  <2> QED
    BY <2>1, <2>2, <2>3, ItemInPass
<1>6. CASE UNCHANGED vars
  BY <1>0, <1>6 DEF vars, drainVars
<1> QED
  BY <1>1, <1>2, <1>3, <1>4, <1>5, <1>6 DEF Next, Failure

(***************************************************************************)
(* The scope guard.  From its approval on, what an execution may dispatch  *)
(* only shrinks, until it enumerates again.                                *)
(***************************************************************************)

Approved == {"claim", "prepare", "fanout"}
Bound == IF expected = NoCount THEN Ceiling ELSE expected

\* What the execution x has claimed or may still claim.
Held(x) == IF dpc[x] = "claim" THEN Items(x) \cup Candidates(x) ELSE Items(x)

Bounded == \A x \in Drains : dpc[x] \in Approved => Cardinality(Held(x)) <= Bound

LEMMA BoundType == TypeOK => Bound \in Nat
  BY DispatcherAssumption DEF TypeOK, Bound

LEMMA SubsetOfDocs ==
  ASSUME NEW S \in SUBSET Docs
  PROVE  IsFiniteSet(S) /\ Cardinality(S) \in Nat
  BY DispatcherAssumption, FS_Subset, FS_CardinalityType

LEMMA HeldShrinks ==
  ASSUME TypeOK, Bounded, UNCHANGED expected,
         \A x \in Drains : dpc'[x] \in Approved =>
           dpc[x] \in Approved /\ Held(x)' \subseteq Held(x)
  PROVE  Bounded'
<1> SUFFICES ASSUME NEW x \in Drains, dpc'[x] \in Approved
             PROVE  Cardinality(Held(x)') <= Bound'
  BY DEF Bounded
<1>1. Cardinality(Held(x)) <= Bound /\ Held(x)' \subseteq Held(x) /\ Bound' = Bound
  BY DEF Bounded, Bound
<1>2. Held(x) \in SUBSET Docs
  BY DEF Held, Items, Candidates
<1>3. Cardinality(Held(x)') <= Cardinality(Held(x))
  BY <1>1, <1>2, SubsetOfDocs, FS_Subset
<1>4. Held(x)' \in SUBSET Docs
  BY <1>1, <1>2
<1> QED
  BY <1>1, <1>2, <1>3, <1>4, SubsetOfDocs, BoundType

\* What the guard lets pass is within the bound.
LEMMA GuardBounds ==
  ASSUME TypeOK, InPass, Bounded, NEW x \in Drains, Guard(x)
  PROVE  Bounded'
<1> DEFINE n == Cardinality(Candidates(x))
<1>1. Candidates(x) \in SUBSET Docs
  BY DEF Candidates
<1>2. n \in Nat
  BY <1>1, SubsetOfDocs
<1>3. InScope(n) => n <= Bound
  BY <1>2, BoundType, DispatcherAssumption DEF InScope, Bound, TypeOK
<1>4. Items(x) = {}
  <2>1. \A d \in Docs : item[x][d] \in Item
    BY DEF TypeOK
  <2>2. \A d \in Docs : item[x][d].st \notin {"waiting", "running", "advanced"}
    BY DEF Guard, InPass
  <2> QED
    BY <2>1, <2>2 DEF Items, Item
<1>5. dpc'[x] \in Approved => InScope(n) /\ Held(x)' = Candidates(x)
  <2>1. dpc'[x] \in Approved => InScope(n) /\ dpc'[x] = "claim"
    BY DEF Guard, Approved, TypeOK
  <2>2. Items(x)' = Items(x) /\ Candidates(x)' = Candidates(x)
    BY DEF Guard, Items, Candidates
  <2> QED
    BY <1>4, <2>1, <2>2 DEF Held
<1>6. \A y \in Drains : y # x => dpc'[y] = dpc[y] /\ Held(y)' = Held(y)
  BY DEF Guard, Held, Items, Candidates, TypeOK
<1>7. Bound' = Bound
  BY DEF Guard, Bound
<1> QED
  BY <1>3, <1>5, <1>6, <1>7 DEF Bounded

\* A step that removes what it wants from the items and the snapshots.
LEMMA FewerHeld ==
  ASSUME TypeOK, Bounded, UNCHANGED <<dpc, expected>>,
         \A x \in Drains, d \in Docs :
           /\ item'[x][d].st # "none" => d \in Held(x)
           /\ dpc[x] = "claim" /\ snap'[x][d].status \in Ready => d \in Held(x)
  PROVE  Bounded'
<1>1. \A x \in Drains : Held(x)' \subseteq Held(x)
  BY DEF Held, Items, Candidates
<1> QED
  BY <1>1, HeldShrinks

LEMMA SameHeld ==
  ASSUME TypeOK, Bounded, UNCHANGED <<dpc, expected, item, snap>>
  PROVE  Bounded'
  BY FewerHeld DEF Held, Items, Candidates

LEMMA NextBounded == TypeOK /\ InPass /\ Bounded /\ [Next]_vars => Bounded'
<1> SUFFICES ASSUME TypeOK, InPass, Bounded, [Next]_vars
             PROVE  Bounded'
  OBVIOUS
<1>1. ASSUME NEW u \in Uploads, TriggerStep(u) \/ StartFails(u)
      PROVE  Bounded'
  <2>1. ASSUME NEW x \in Drains, StartExecution(u, x)
        PROVE  Bounded'
    <3>1. \A y \in Drains : dpc'[y] \in Approved => y # x /\ dpc'[y] = dpc[y]
      BY <2>1 DEF StartExecution, Approved, TypeOK
    <3>2. \A y \in Drains : dpc'[y] = dpc[y] => Held(y)' = Held(y)
      BY <2>1 DEF StartExecution, Held, Items, Candidates
    <3> QED
      BY <2>1, <3>1, <3>2, HeldShrinks DEF StartExecution
  <2>2. CASE Seed(u) \/ SeesRunning(u) \/ SeesNone(u) \/ StartFails(u)
    BY <2>2, SameHeld DEF Seed, SeesRunning, SeesNone, StartFails, drainVars
  <2> QED
    BY <1>1, <2>1, <2>2 DEF TriggerStep
<1>2. ASSUME NEW x \in Drains, DrainStep(x)
      PROVE  Bounded'
  <2>1. CASE Guard(x)
    BY <2>1, GuardBounds
  <2>2. CASE AnyPending(x) \/ Prepare(x)
    <3>1. \A y \in Drains : dpc'[y] \in Approved => dpc[y] \in Approved
      BY <2>2 DEF AnyPending, Prepare, Approved, TypeOK
    <3>2. \A y \in Drains : Held(y)' \subseteq Held(y)
      BY <2>2 DEF AnyPending, Prepare, Held, Items, Candidates, TypeOK
    <3> QED
      BY <2>2, <3>1, <3>2, HeldShrinks DEF AnyPending, Prepare
  <2>3. CASE FanOutEnds(x)
    <3>1. \A y \in Drains : dpc'[y] \in Approved => dpc[y] = dpc'[y]
      BY <2>3 DEF FanOutEnds, Approved, TypeOK
    <3>2. \A y \in Drains : dpc[y] = dpc'[y] => Held(y)' = Held(y)
      BY <2>3 DEF FanOutEnds, Held, Items, Candidates
    <3> QED
      BY <2>3, <3>1, <3>2, HeldShrinks DEF FanOutEnds
  <2>4. ASSUME NEW d \in Docs, Scan(x, d)
        PROVE  Bounded'
    <3>1. \A y \in Drains, e \in Docs : dpc[y] = "claim" => snap'[y] = snap[y]
      BY <2>4 DEF Scan, TypeOK
    <3> QED
      BY <2>4, <3>1, FewerHeld DEF Scan, Held, Items, Candidates
  <2>5. ASSUME NEW d \in Docs, ClaimLost(x, d)
        PROVE  Bounded'
    <3>1. \A y \in Drains, e \in Docs : snap'[y][e].status \in Ready => snap[y][e].status \in Ready
      BY <2>5 DEF ClaimLost, NoRecord, Ready, TypeOK
    <3> QED
      BY <2>5, <3>1, FewerHeld DEF ClaimLost, Held, Items, Candidates
  <2>6. ASSUME NEW d \in Docs, ClaimWon(x, d)
        PROVE  Bounded'
    <3>1. \A y \in Drains, e \in Docs : snap'[y][e].status \in Ready => snap[y][e].status \in Ready
      BY <2>6 DEF ClaimWon, NoRecord, Ready, TypeOK
    <3>2. \A y \in Drains, e \in Docs : y # x \/ e # d => item'[y][e] = item[y][e]
      BY <2>6 DEF ClaimWon, TypeOK
    <3>3. d \in Held(x)
      BY <2>6 DEF ClaimWon, Held
    <3>4. ASSUME NEW y \in Drains, NEW e \in Docs, item'[y][e].st # "none"
          PROVE  e \in Held(y)
      BY <3>2, <3>3, <3>4 DEF Held, Items
    <3>5. ASSUME NEW y \in Drains, NEW e \in Docs,
                 dpc[y] = "claim", snap'[y][e].status \in Ready
          PROVE  e \in Held(y)
      BY <3>1, <3>5 DEF Held, Candidates
    <3>6. UNCHANGED <<dpc, expected>>
      BY <2>6 DEF ClaimWon
    <3> QED
      BY <3>4, <3>5, <3>6, FewerHeld
  <2>7. ASSUME NEW d \in Docs, Launch(x, d) \/ Advance(x, d) \/ Park(x, d) \/ Exit(x, d)
        PROVE  Bounded'
    <3>1. \A y \in Drains, e \in Docs : item'[y][e].st # "none" => item[y][e].st # "none"
      <4>1. item[x][d].st # "none"
        BY <2>7 DEF Launch, Advance, Park, Exit, Items
      <4>2. \A y \in Drains, e \in Docs : y # x \/ e # d => item'[y][e] = item[y][e]
        BY <2>7 DEF Launch, Advance, Park, Exit, TypeOK
      <4> QED
        BY <4>1, <4>2
    <3>2. UNCHANGED <<dpc, expected, snap>>
      BY <2>7 DEF Launch, Advance, Park, Exit, drainVars
    <3> QED
      BY <3>1, <3>2, FewerHeld DEF Held, Items, Candidates
  <2> QED
    BY <1>2, <2>1, <2>2, <2>3, <2>4, <2>5, <2>6, <2>7 DEF DrainStep
<1>3. ASSUME NEW d \in Docs, NEW p \in InBatch, Retrieve(d, p) \/ RetrieveFails(d, p)
      PROVE  Bounded'
  BY <1>3, SameHeld DEF Retrieve, RetrieveFails, drainVars
<1>4. ASSUME NEW x \in Drains, DrainFails(x)
      PROVE  Bounded'
  <2>1. \A y \in Drains : dpc'[y] \in Approved => y # x /\ dpc'[y] = dpc[y]
    BY <1>4 DEF DrainFails, Approved, TypeOK
  <2>2. \A y \in Drains : y # x => Held(y)' = Held(y)
    BY <1>4 DEF DrainFails, Held, Items, Candidates, TypeOK
  <2> QED
    BY <1>4, <2>1, <2>2, HeldShrinks DEF DrainFails
<1>5. ASSUME NEW x \in Drains, NEW d \in Docs, AdvanceRaises(x, d) \/ TaskFails(x, d)
      PROVE  Bounded'
  <2>1. \A y \in Drains, e \in Docs : item'[y][e].st # "none" => item[y][e].st # "none"
    BY <1>5 DEF AdvanceRaises, TaskFails, NoItem, TypeOK
  <2>2. UNCHANGED <<dpc, expected, snap>>
    BY <1>5 DEF AdvanceRaises, TaskFails, drainVars
  <2> QED
    BY <2>1, <2>2, FewerHeld DEF Held, Items, Candidates
<1>6. CASE UNCHANGED vars
  BY <1>6, SameHeld DEF vars, drainVars
<1> QED
  BY <1>1, <1>2, <1>3, <1>4, <1>5, <1>6 DEF Next, Failure

LEMMA BoundedIsHeld == TypeOK /\ InPass /\ Bounded => ScopeHeld
<1> SUFFICES ASSUME TypeOK, InPass, Bounded, NEW x \in Drains
             PROVE  Cardinality(Items(x)) <= Bound
  BY DEF ScopeHeld, Bound
<1>1. CASE dpc[x] \in Approved
  <2>1. Items(x) \subseteq Held(x) /\ Held(x) \in SUBSET Docs
    BY DEF Held, Items, Candidates
  <2>2. Cardinality(Items(x)) <= Cardinality(Held(x))
    BY <2>1, SubsetOfDocs, FS_Subset
  <2>3. Items(x) \in SUBSET Docs
    BY <2>1
  <2> QED
    BY <1>1, <2>1, <2>2, <2>3, SubsetOfDocs, BoundType DEF Bounded
<1>2. CASE dpc[x] \notin Approved
  <2>1. Items(x) = {}
    BY <1>2 DEF InPass, Items, Approved, TypeOK, Item
  <2> QED
    BY <2>1, FS_EmptySet, BoundType
<1> QED
  BY <1>1, <1>2

\* "The dispatched set can never exceed the set the guard approved."
THEOREM DispatchIsBounded == Spec => []ScopeHeld
<1>1. Init => Bounded
  BY DEF Init, Bounded, Approved
<1>2. Init => InPass
  BY InitInPass
<1>3. TypeOK /\ InPass /\ Bounded /\ [Next]_vars => InPass' /\ Bounded'
  BY NextInPass, NextBounded
<1> QED
  BY <1>1, <1>2, <1>3, TypeCorrect, BoundedIsHeld, PTL DEF Spec

(***************************************************************************)
(* Nothing that a task has advanced is left behind.  Between the advance   *)
(* and the next pass its execution is in the fan-out; then it has still to *)
(* read the record, or holds the status it has read, which is that of the  *)
(* record as long as the record is READY by the hand of that execution.    *)
(***************************************************************************)

Waits(d) == doc[d].status \in Ready /\ driver[d] # NoDrain

\* A step that lets no document wait that did not, and which every execution
\* that sees a waiting document still sees.
LEMMA StillSeen ==
  ASSUME ProgressIsDriven,
         \A d \in Docs : Waits(d)' =>
           /\ Waits(d) /\ driver'[d] = driver[d]
           /\ Sees(driver[d], d) => Sees(driver[d], d)'
  PROVE  ProgressIsDriven'
  BY DEF ProgressIsDriven, Waits

LEMMA SameSeen ==
  ASSUME ProgressIsDriven, UNCHANGED <<doc, driver, dpc, todo, snap>>
  PROVE  ProgressIsDriven'
  BY StillSeen DEF Waits, Sees

\* A write whose author is no execution.
LEMMA WriteSeen ==
  ASSUME TypeOK, ProgressIsDriven, NEW d \in Docs, NEW r, NEW s, NEW W,
         doc' = [doc EXCEPT ![d] = r], Note(d, s, NoDrain, W), UNCHANGED drainVars
  PROVE  ProgressIsDriven'
<1>1. ~Waits(d)'
  BY DEF Waits, Note, TypeOK
<1>2. \A e \in Docs : e # d => doc'[e] = doc[e] /\ driver'[e] = driver[e]
  BY DEF Note, TypeOK
<1> QED
  BY <1>1, <1>2, StillSeen DEF Waits, Sees, drainVars

LEMMA AdvanceSeen ==
  ASSUME TypeOK, InPass, ProgressIsDriven, NEW x \in Drains, NEW d \in Docs, Advance(x, d)
  PROVE  ProgressIsDriven'
<1>1. PICK r \in Advanced(d, item[x][d].phase) :
        /\ doc' = [doc EXCEPT ![d] = r]
        /\ Note(d, r.status, x, Workers(d) \ {x})
  BY DEF Advance
<1>2. driver'[d] \in {x, NoDrain}
  BY <1>1 DEF Note, TypeOK
<1>3. UNCHANGED <<dpc, todo, snap>>
  BY DEF Advance, drainVars
<1>4. dpc'[x] = "fanout"
  BY <1>3 DEF Advance, InPass
<1>5. \A e \in Docs : e # d => doc'[e] = doc[e] /\ driver'[e] = driver[e]
  BY <1>1 DEF Note, TypeOK
<1>6. ASSUME NEW e \in Docs, e # d, Waits(e)'
      PROVE  Sees(driver[e], e)'
  <2>1. Sees(driver[e], e) /\ driver'[e] = driver[e] /\ driver[e] \in Drains
    BY <1>5, <1>6 DEF Waits, ProgressIsDriven, TypeOK
  <2> QED
    BY <1>3, <1>5, <1>6, <2>1 DEF Sees
<1>7. ASSUME Waits(d)'
      PROVE  Sees(driver[d], d)'
  BY <1>2, <1>4, <1>7 DEF Waits, Sees
<1> QED
  BY <1>6, <1>7 DEF ProgressIsDriven, Waits

\* A pass: each of its steps keeps what it has still to claim in sight.
LEMMA PassSeen ==
  ASSUME TypeOK, ProgressIsDriven, NEW x \in Drains,
         \/ Guard(x) \/ AnyPending(x) \/ Prepare(x) \/ FanOutEnds(x) \/ DrainFails(x)
  PROVE  ProgressIsDriven'
<1>1. UNCHANGED <<doc, driver>>
  BY DEF Guard, AnyPending, Prepare, FanOutEnds, DrainFails
<1>2. \A y \in Drains, d \in Docs : y # x /\ Sees(y, d) => Sees(y, d)'
  BY DEF Guard, AnyPending, Prepare, FanOutEnds, DrainFails, Sees, TypeOK
<1>3. ASSUME NEW d \in Docs, Sees(x, d), doc[d].status \in Ready
      PROVE  Sees(x, d)'
  <2>1. CASE Guard(x)
    BY <1>3, <2>1 DEF Guard, Sees, TypeOK
  <2>2. CASE AnyPending(x)
    BY <1>3, <2>2 DEF AnyPending, Sees, Candidates
  <2>3. CASE Prepare(x)
    BY <1>3, <2>3 DEF Prepare, Sees
  <2>4. CASE FanOutEnds(x)
    BY <1>3, <2>4 DEF FanOutEnds, Sees, TypeOK
  <2>5. CASE DrainFails(x)
    BY <1>3, <2>5 DEF DrainFails, Sees, TypeOK
  <2> QED
    BY <2>1, <2>2, <2>3, <2>4, <2>5
<1>4. ASSUME NEW d \in Docs, Waits(d)'
      PROVE  /\ Waits(d) /\ driver'[d] = driver[d]
             /\ Sees(driver[d], d) => Sees(driver[d], d)'
  <2>1. Waits(d) /\ driver'[d] = driver[d] /\ doc[d].status \in Ready
    BY <1>1, <1>4 DEF Waits
  <2>2. PICK y \in Drains : y = driver[d]
    BY <2>1 DEF Waits, TypeOK
  <2>3. Sees(y, d) => Sees(y, d)'
    BY <1>2, <1>3, <2>1
  <2>4. driver'[d] = y
    BY <2>1, <2>2
  <2> QED
    BY <2>1, <2>2, <2>3, <2>4 DEF Sees
<1> QED
  BY <1>4, StillSeen

LEMMA ClaimSeen ==
  ASSUME TypeOK, ProgressIsDriven, NEW x \in Drains, NEW d \in Docs,
         Scan(x, d) \/ ClaimWon(x, d) \/ ClaimLost(x, d)
  PROVE  ProgressIsDriven'
<1>1. CASE Scan(x, d)
  <2>1. UNCHANGED <<doc, driver, dpc>>
    BY <1>1 DEF Scan
  <2>2. \A y \in Drains, e \in Docs :
          y # x \/ e # d => snap'[y][e] = snap[y][e] /\ (e \in todo'[y] <=> e \in todo[y])
    BY <1>1 DEF Scan, TypeOK
  <2>3. doc[d].status \in Ready => snap'[x][d] = doc[d]
    BY <1>1 DEF Scan, TypeOK
  <2>4. ASSUME NEW y \in Drains, NEW e \in Docs, Sees(y, e), doc[e].status \in Ready
        PROVE  Sees(y, e)'
    BY <1>1, <2>1, <2>2, <2>3, <2>4 DEF Scan, Sees
  <2> QED
    BY <2>1, <2>4, StillSeen DEF Waits, TypeOK
<1>2. CASE ClaimWon(x, d)
  <2>1. doc'[d].status = "running" /\ \A e \in Docs : e # d => doc'[e] = doc[e]
    BY <1>2 DEF ClaimWon, TypeOK, Record
  <2>2. UNCHANGED <<driver, dpc, todo>>
    BY <1>2 DEF ClaimWon
  <2>3. \A y \in Drains, e \in Docs : e # d => snap'[y][e] = snap[y][e]
    BY <1>2 DEF ClaimWon, TypeOK
  <2>4. ~Waits(d)'
    BY <2>1 DEF Waits, Ready
  <2>5. \A y \in Drains, e \in Docs : e # d => Sees(y, e)' = Sees(y, e)
    BY <2>1, <2>2, <2>3 DEF Sees
  <2> QED
    BY <2>1, <2>2, <2>4, <2>5, StillSeen DEF Waits, TypeOK
<1>3. CASE ClaimLost(x, d)
  <2>1. UNCHANGED <<doc, driver, dpc, todo>>
    BY <1>3 DEF ClaimLost
  <2>2. \A y \in Drains, e \in Docs : y # x \/ e # d => snap'[y][e] = snap[y][e]
    BY <1>3 DEF ClaimLost, TypeOK
  <2>3. ~Sees(x, d)
    BY <1>3 DEF ClaimLost, Sees
  <2>4. \A y \in Drains, e \in Docs : Sees(y, e) => Sees(y, e)'
    BY <2>1, <2>2, <2>3 DEF Sees
  <2> QED
    BY <2>1, <2>4, StillSeen DEF Waits, TypeOK
<1> QED
  BY <1>1, <1>2, <1>3

LEMMA NextSeen == TypeOK /\ InPass /\ ProgressIsDriven /\ [Next]_vars => ProgressIsDriven'
<1> SUFFICES ASSUME TypeOK, InPass, ProgressIsDriven, [Next]_vars
             PROVE  ProgressIsDriven'
  OBVIOUS
<1>1. ASSUME NEW u \in Uploads, TriggerStep(u) \/ StartFails(u)
      PROVE  ProgressIsDriven'
  <2>1. CASE Seed(u)
    BY <2>1, WriteSeen DEF Seed, TypeOK, Upload
  <2>2. CASE SeesRunning(u) \/ SeesNone(u) \/ StartFails(u)
    BY <2>2, SameSeen DEF SeesRunning, SeesNone, StartFails, drainVars
  <2>3. ASSUME NEW x \in Drains, StartExecution(u, x)
        PROVE  ProgressIsDriven'
    <3>1. \A d \in Docs : ~Sees(x, d)
      BY <2>3 DEF StartExecution, Sees
    <3>2. \A y \in Drains, d \in Docs : y # x => Sees(y, d)' = Sees(y, d)
      BY <2>3 DEF StartExecution, Sees, TypeOK
    <3>3. UNCHANGED <<doc, driver>>
      BY <2>3 DEF StartExecution
    <3>4. \A y \in Drains, d \in Docs : Sees(y, d) => Sees(y, d)'
      BY <3>1, <3>2
    <3> QED
      BY <3>3, <3>4, StillSeen DEF Waits, TypeOK
  <2> QED
    BY <1>1, <2>1, <2>2, <2>3 DEF TriggerStep
<1>2. ASSUME NEW x \in Drains, DrainStep(x)
      PROVE  ProgressIsDriven'
  <2>1. ASSUME NEW d \in Docs, Launch(x, d) \/ Park(x, d) \/ Exit(x, d)
        PROVE  ProgressIsDriven'
    BY <2>1, SameSeen DEF Launch, Park, Exit, drainVars
  <2> QED
    BY <1>2, <2>1, PassSeen, ClaimSeen, AdvanceSeen DEF DrainStep
<1>3. ASSUME NEW d \in Docs, NEW p \in InBatch, Retrieve(d, p)
      PROVE  ProgressIsDriven'
  BY <1>3, WriteSeen DEF Retrieve
<1>4. ASSUME NEW d \in Docs, NEW p \in InBatch, RetrieveFails(d, p)
      PROVE  ProgressIsDriven'
  BY <1>4, SameSeen DEF RetrieveFails, drainVars
<1>5. ASSUME NEW x \in Drains, NEW d \in Docs, AdvanceRaises(x, d) \/ TaskFails(x, d)
      PROVE  ProgressIsDriven'
  BY <1>5, SameSeen DEF AdvanceRaises, TaskFails, drainVars
<1>6. ASSUME NEW x \in Drains, DrainFails(x)
      PROVE  ProgressIsDriven'
  BY <1>6, PassSeen
<1>7. CASE UNCHANGED vars
  BY <1>7, SameSeen DEF vars, drainVars
<1> QED
  BY <1>1, <1>2, <1>3, <1>4, <1>5, <1>6, <1>7 DEF Next, Failure

\* The execution of the task that has advanced a document finds it again.
THEOREM NoneLeftBehind == Spec => []ProgressIsDriven
<1>1. Init => ProgressIsDriven
  BY DEF Init, ProgressIsDriven
<1>2. TypeOK /\ InPass /\ ProgressIsDriven /\ [Next]_vars => ProgressIsDriven' /\ InPass'
  BY NextSeen, NextInPass
<1> QED
  BY <1>1, <1>2, InitInPass, TypeCorrect, PTL DEF Spec
=============================================================================
