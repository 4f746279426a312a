---------------------------- MODULE MCNatLifecycle ----------------------------
(***************************************************************************)
(* Instances of NatLifecycle for TLC.                                      *)
(***************************************************************************)
EXTENDS NatLifecycle, TLC

CONSTANTS t1, r1, w1

OneWorker == {t1}
OneRetriever == {r1}
OneWarmer == {w1}
None == {}

\* In the first only the gateway floor may be out of view, in the second every row.
SomeRows == {t1, r1, "job"}
NoRows == {}

OnlyDecider == {"decider"}
OnlyReaper == {"reaper"}
=============================================================================
