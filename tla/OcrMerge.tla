------------------------------- MODULE OcrMerge -------------------------------
(***************************************************************************)
(* The hand-over from OCR to parsing, composed with the jobs of OcrJobs:    *)
(* every job that succeeds has its event delivered to the merge handler,    *)
(* which lists the output of the whole book and promotes what it has found. *)
(* Deliveries overlap, are repeated, and are tried again when they fail.    *)
(***************************************************************************)
EXTENDS OcrJobs

CONSTANT MergeTries  \* deliveries of an event to a handler that raises

ASSUME MergeAssumption == MergeTries \in Nat \ {0}

VARIABLES
  merge,    \* the event of each job and its handler; late (history) are the
            \* ranges uploaded since the handler has listed
  content,  \* the ranges in the promoted chapter1-content.md
  lost      \* history: ranges that a handler could not know of, gave up, or
            \* turned away to review with nothing but blank output

mergeVars == <<merge, content, lost>>
vars == <<jobVars, mergeVars>>

Merge == [at : {"none", "sent", "listed"}, tries : 0..MergeTries,
          keys : SUBSET Ranges, late : SUBSET Ranges]
NoMerge == [at |-> "none", tries |-> 0, keys |-> {}, late |-> {}]
Sent(tries) == [at |-> "sent", tries |-> tries, keys |-> {}, late |-> {}]

TypeOK ==
  /\ JobsTypeOK
  /\ merge \in [Jobs -> Merge]
  /\ content \subseteq output
  /\ lost \subseteq Ranges

Init ==
  /\ JobsInit
  /\ merge = [j \in Jobs |-> NoMerge]
  /\ content = {}
  /\ lost = {}

\* Output that appears after a handler has listed is unknown to it.
Store(j) ==
  /\ PutOutput(j)
  /\ merge' = [k \in Jobs |->
       IF merge[k].at = "listed"
       THEN [merge[k] EXCEPT !.late = merge[k].late \cup {Name(j)}] ELSE merge[k]]
  /\ UNCHANGED <<content, lost>>

\* Batch reports the success, of either queue.
Announce(j) ==
  /\ Succeed(j)
  /\ merge' = [merge EXCEPT ![j] = IF scope.merging THEN Sent(MergeTries) ELSE NoMerge]
  /\ UNCHANGED <<content, lost>>

\* The event is delivered once more than it was sent.
Repeat(j) ==
  /\ job[j] = "succeeded" /\ merge[j].at = "none" /\ scope.merging /\ Fault
  /\ merge' = [merge EXCEPT ![j] = Sent(MergeTries)]
  /\ UNCHANGED <<scope, claim, up, job, retried, waited, output, ctl, run, shaken,
                 content, lost>>

\* Mutant: a handler lists the output of its own job.
ListOwn(j) ==
  /\ merge[j].at = "sent"
  /\ merge' = [merge EXCEPT ![j].at = "listed", ![j].keys = {Name(j)} \cap output]
  /\ UNCHANGED <<jobVars, content, lost>>

\* All .../input/input.md under ocr-output/{book}/.
ListKeys(j) ==
  /\ merge[j].at = "sent"
  /\ merge' = [merge EXCEPT ![j].at = "listed", ![j].keys = output]
  /\ UNCHANGED <<jobVars, content, lost>>

\* The chapter is written over whatever was promoted before.
Promote(j) ==
  /\ merge[j].at = "listed" /\ ~(merge[j].keys \subseteq scope.blank)
  /\ content' = merge[j].keys
  /\ lost' = (lost \cup (content \cap merge[j].late)) \ merge[j].keys
  /\ merge' = [merge EXCEPT ![j] = NoMerge]
  /\ UNCHANGED jobVars

\* The text found is below the minimum: the book is handed to review, and what
\* was promoted before stays.
TurnAway(j) ==
  /\ merge[j].at = "listed" /\ merge[j].keys \subseteq scope.blank
  /\ lost' = lost \cup (merge[j].keys \ content)
  /\ merge' = [merge EXCEPT ![j] = NoMerge]
  /\ UNCHANGED <<jobVars, content>>

\* The handler raises or times out: the event is tried again, and dropped
\* after the last try.
MergeFails(j) ==
  /\ merge[j].at \in {"sent", "listed"} /\ Fault
  /\ LET last == merge[j].tries <= 1
     IN /\ merge' = [merge EXCEPT ![j] = IF last THEN NoMerge ELSE Sent(merge[j].tries - 1)]
        /\ lost' = IF last /\ Name(j) \notin content THEN lost \cup {Name(j)} ELSE lost
  /\ UNCHANGED <<scope, claim, up, job, retried, waited, output, ctl, run, shaken, content>>

Next ==
  \/ JobsStep /\ UNCHANGED mergeVars
  \/ \E j \in Jobs : \/ Store(j) \/ Announce(j) \/ Repeat(j) \/ ListKeys(j)
                     \/ Promote(j) \/ TurnAway(j) \/ MergeFails(j)

Spec == Init /\ [][Next]_vars

\* The hour comes, Lambda runs what it has started, a waiting job grows old
\* and so does a record.  Nothing makes an instance available.
Fairness ==
  /\ \A c \in Runs : WF_vars(RunStep(c) /\ UNCHANGED mergeVars)
  /\ WF_vars((\E j \in Jobs : Starve(j)) /\ UNCHANGED mergeVars)
  /\ WF_vars((\E r \in Ranges : Age(r)) /\ UNCHANGED mergeVars)

FairSpec == Spec /\ Fairness

-----------------------------------------------------------------------------
\* The output of every job that has succeeded is in the promoted chapter, or
\* its own event is on its way there, with a handler that has seen it, unless
\* a handler that had listed before it was uploaded has written over it, its
\* event was given up, or a handler found nothing but blank output.
WholeBook ==
  \A j \in Jobs : job[j] = "succeeded" /\ scope.merging =>
    \/ Name(j) \in content \cup lost
    \/ merge[j].at = "sent"
    \/ merge[j].at = "listed" /\ Name(j) \in merge[j].keys
=============================================================================
