---------------------------- MODULE ExclusiveWork ----------------------------
(***************************************************************************)
(* What a claim promises: an item is worked on by one worker at a time, and *)
(* never again once it is finished.  A worker may leave an item at any time *)
(* and for any reason, the lapse of its claim included; whoever finishes an *)
(* item need not be its worker.                                            *)
(***************************************************************************)
CONSTANTS Workers, Items

VARIABLES
  working,   \* pairs of a worker and an item it works on
  finished   \* items

Init ==
  /\ working = {}
  /\ finished = {}

Take(w, i) ==
  /\ i \notin finished
  /\ \A v \in Workers : <<v, i>> \notin working
  /\ working' = working \cup {<<w, i>>}
  /\ UNCHANGED finished

\* Workers leave items, some of which are finished.
Leave ==
  /\ working' \in SUBSET working
  /\ finished' \in SUBSET Items
  /\ finished \subseteq finished'

Next == Leave \/ \E w \in Workers, i \in Items : Take(w, i)

Spec == Init /\ [][Next]_<<working, finished>>
==============================================================================
