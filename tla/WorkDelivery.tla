---------------------------- MODULE WorkDelivery ----------------------------
(***************************************************************************)
(* What the work queue promises: a message that was sent is worked on       *)
(* until its entity has been searched, or it is put aside after MaxReceive  *)
(* deliveries.  No message leaves the queue in any other way.               *)
(***************************************************************************)
EXTENDS Naturals

CONSTANTS Msgs, Entities, Of, MaxReceive

VARIABLES
  message,   \* where each message is
  tries,     \* how often it was delivered
  searched   \* entities that have been searched

Init ==
  /\ message = [m \in Msgs |-> "unsent"]
  /\ tries = [m \in Msgs |-> 0]
  /\ searched = {}

Send(m) ==
  /\ message[m] = "unsent"
  /\ message' = [message EXCEPT ![m] = "queued"]
  /\ UNCHANGED <<tries, searched>>

Deliver(m) ==
  /\ message[m] = "queued"
  /\ tries[m] < MaxReceive
  /\ tries' = [tries EXCEPT ![m] = @ + 1]
  /\ UNCHANGED <<message, searched>>

\* Only a delivered message has its entity searched.
Search(m) ==
  /\ tries[m] > 0
  /\ searched' = searched \cup {Of[m]}
  /\ UNCHANGED <<message, tries>>

Settle(m) ==
  /\ message[m] = "queued"
  /\ Of[m] \in searched
  /\ message' = [message EXCEPT ![m] = "done"]
  /\ UNCHANGED <<tries, searched>>

PutAside(m) ==
  /\ message[m] = "queued"
  /\ tries[m] = MaxReceive
  /\ message' = [message EXCEPT ![m] = "dead"]
  /\ UNCHANGED <<tries, searched>>

Next == \E m \in Msgs : Send(m) \/ Deliver(m) \/ Search(m) \/ Settle(m) \/ PutAside(m)

Spec == Init /\ [][Next]_<<message, tries, searched>>
=============================================================================
