----------------------------- MODULE MCDispatcher -----------------------------
(***************************************************************************)
(* Instances of Dispatcher for TLC.                                        *)
(***************************************************************************)
EXTENDS Dispatcher, TLC

CONSTANTS a, b, u1, u2

TwoDocs == {a, b}
TwoUploads == {u1, u2}

\* Twice the same book, or two books; the other choices only rename these.
SameOrOther == {(u1 :> a) @@ (u2 :> d) : d \in TwoDocs}
Declarations == {NoCount, 2}
TwoTasks == {2}
Extraction == {2}
=============================================================================
