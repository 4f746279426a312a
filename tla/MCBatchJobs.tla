----------------------------- MODULE MCBatchJobs -----------------------------
(***************************************************************************)
(* Instances of BatchJobs for TLC.                                         *)
(***************************************************************************)
EXTENDS BatchJobs, TLC

CONSTANTS b1, p1, p2, r1, r2

OneBatch == {b1}
TwoPollers == {p1, p2}
TwoRetrievers == {r1, r2}
==============================================================================
