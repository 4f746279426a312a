----------------------------- MODULE MCGroupFiles -----------------------------
(***************************************************************************)
(* Instances of GroupFiles for TLC.                                        *)
(***************************************************************************)
EXTENDS GroupFiles, TLC

CONSTANTS w1, w2, w3, w4, n1, n2, p1, p2

\* Two threads of one process and two of another; three find the same group.
FourWriters == {w1, w2, w3, w4}
TwoNames == {n1, n2}
TwoProcesses == {p1, p2}
NameOf == (w1 :> n1) @@ (w2 :> n1) @@ (w3 :> n1) @@ (w4 :> n2)
ProcessOf == (w1 :> p1) @@ (w2 :> p1) @@ (w3 :> p2) @@ (w4 :> p2)
===============================================================================
