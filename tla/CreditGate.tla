------------------------------ MODULE CreditGate ------------------------------
(***************************************************************************)
(* The credit gate of the Grok batches (src/utils/credit_gate.py) and the  *)
(* submit-only tasks that pass it (GrokClient.submit_batch): before a      *)
(* batch is sent its estimated cost is added to one counter, credit#spend, *)
(* on the condition that the budget holds it; when sending, waiting or     *)
(* fetching raises, the cost is taken off again.                           *)
(*                                                                         *)
(* Money is counted in whole units of estimated cost.                      *)
(***************************************************************************)
EXTENDS Integers, FiniteSets

CONSTANTS
  Submissions, \* the batches, each sent at most once, by a task of its own
  Gated,       \* those whose task has cost.credit_gating and a budget
  MaxCost,
  Cost,        \* estimate of each batch, _estimate_batch_cost
  Budget       \* GROK_BUDGET_USD or cost.budget_usd, the same for every task

ASSUME CreditAssumption ==
  /\ IsFiniteSet(Submissions)
  /\ Gated \subseteq Submissions
  /\ MaxCost \in Nat
  /\ Cost \in [Submissions -> 0..MaxCost]
  /\ Budget \in Nat

VARIABLES
  spend,    \* credit#spend
  stage     \* where the task of each batch is

gateVars == <<spend, stage>>

Stages == {"idle", "held", "reserved", "waiting", "releasing", "raised", "done", "live",
           "dead"}

GateTypeOK ==
  /\ spend \in Nat
  /\ stage \in [Submissions -> Stages]

GateInit ==
  /\ spend = 0
  /\ stage = [b \in Submissions |-> "idle"]

Proceed(b, from, to) ==
  /\ stage[b] = from
  /\ stage' = [stage EXCEPT ![b] = to]

-----------------------------------------------------------------------------
(* reserve: without the gate there is nothing to check or to count.        *)

Fits(b) == b \in Gated => spend + Cost[b] <= Budget

Charge(b) == spend' = IF b \in Gated THEN spend + Cost[b] ELSE spend

\* Mutant: what has been reserved already is left out of the condition.
ReserveAlone(b) ==
  /\ b \in Gated => Cost[b] <= Budget
  /\ Proceed(b, "idle", "reserved")
  /\ Charge(b)

\* The update and its condition are one DynamoDB request.
Reserve(b) ==
  /\ Fits(b)
  /\ Proceed(b, "idle", "reserved")
  /\ Charge(b)

\* Mutant: the raise of a refused batch is caught with those that follow.
RefuseAndRelease(b) ==
  /\ b \in Gated
  /\ Proceed(b, "idle", "releasing")
  /\ UNCHANGED spend

\* The condition fails, or any other error: submit_batch raises.
Refuse(b) ==
  /\ b \in Gated
  /\ Proceed(b, "idle", "held")
  /\ UNCHANGED spend

\* The update has been made and its reply is lost.
ReserveUnanswered(b) ==
  /\ b \in Gated /\ Fits(b)
  /\ Proceed(b, "idle", "held")
  /\ Charge(b)

-----------------------------------------------------------------------------
(* _submit_poll_retrieve                                                   *)

Send(b) ==
  /\ Proceed(b, "reserved", "waiting")
  /\ UNCHANGED spend

\* The upload or the creation of the batch raises.
SendRaises(b) ==
  /\ Proceed(b, "reserved", "releasing")
  /\ UNCHANGED spend

\* Five failed polls in a row, a cancelled batch, a failed fetch; Grok may go
\* on with the batch and bill it.
PollRaises(b) ==
  /\ Proceed(b, "waiting", "releasing")
  /\ UNCHANGED spend

ReturnResults(b) ==
  /\ Proceed(b, "waiting", "done")
  /\ UNCHANGED spend

\* release: unconditional; an error is only logged.
Release(b) ==
  /\ Proceed(b, "releasing", "raised")
  /\ spend' \in {spend, IF b \in Gated THEN spend - Cost[b] ELSE spend}

-----------------------------------------------------------------------------
(* The task.                                                               *)

\* run_submit_only: the phase has ended without a batch, whatever the
\* reason, and is run again without --batch, request by request.
RunLive(b) ==
  /\ Proceed(b, "held", "live") \/ Proceed(b, "raised", "live")
  /\ UNCHANGED spend

Die(b) ==
  /\ stage[b] \in {"reserved", "waiting", "releasing"}
  /\ stage' = [stage EXCEPT ![b] = "dead"]
  /\ UNCHANGED spend

GateNext ==
  \E b \in Submissions :
    \/ Reserve(b)
    \/ Refuse(b)
    \/ ReserveUnanswered(b)
    \/ Send(b)
    \/ SendRaises(b)
    \/ PollRaises(b)
    \/ ReturnResults(b)
    \/ Release(b)
    \/ RunLive(b)
    \/ Die(b)

GateSpec == GateInit /\ [][GateNext]_gateVars

-----------------------------------------------------------------------------
(* Properties.                                                             *)

\* The cost of a set of batches, counted unit by unit.
Units(S) == {u \in S \X (1..MaxCost) : u[2] <= Cost[u[1]]}
Total(S) == Cardinality(Units(S))

\* The gated batches that have passed reserve and whose submission has not
\* been given up.
Counted == {b \in Gated : stage[b] \in {"reserved", "waiting", "releasing", "done", "dead"}}

\* "N concurrent submitters cannot jointly overspend": whatever is refused,
\* given up, cut short or answered by an error, the submissions that stand
\* cost no more than the budget together.
JointlyWithinBudget == Total(Counted) <= Budget
===============================================================================
