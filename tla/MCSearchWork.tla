----------------------------- MODULE MCSearchWork -----------------------------
(***************************************************************************)
(* Instances of SearchWork for TLC.                                        *)
(***************************************************************************)
EXTENDS SearchWork, TLC

CONSTANTS w1, w2, e1, e2, m1, m2, u, v

TwoWorkers == {w1, w2}
TwoEntities == {e1, e2}
TwoMsgs == {m1, m2}
TwoUrls == {u, v}

\* One message for each entity.
OneEach == (m1 :> e1) @@ (m2 :> e2)

\* One page for both, which may have moved to the other URL.
SharedPage == [e \in TwoEntities |-> {u}]
NoPages == [e \in TwoEntities |-> {}]
Moves == (u :> {u, v}) @@ (v :> {v})

\* The workers are alike; so are the messages, each with its entity.
SwapMsgs == (m1 :> m2) @@ (m2 :> m1) @@ (e1 :> e2) @@ (e2 :> e1)
Symmetry == Permutations(TwoWorkers) \cup {SwapMsgs}
=============================================================================
