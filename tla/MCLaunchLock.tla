---------------------------- MODULE MCLaunchLock ----------------------------
(***************************************************************************)
(* Instances of LaunchLock for TLC.                                        *)
(***************************************************************************)
EXTENDS LaunchLock, TLC

CONSTANTS l1, l2, l3, r1, s1, b1, b2

TwoLaunchers == {l1, l2}
ThreeLaunchers == {l1, l2, l3}
OneRetriever == {r1}
OneSweeper == {s1}
OneBook == {b1}
TwoBooks == {b1, b2}
None == {}

\* Launchers are interchangeable, and so are books; sound for the runs
\* without liveness properties.
Symmetry == Permutations(Launchers) \cup Permutations(Book)
=============================================================================
