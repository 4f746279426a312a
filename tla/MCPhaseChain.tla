---------------------------- MODULE MCPhaseChain ----------------------------
(***************************************************************************)
(* Instances of PhaseChain for TLC.                                        *)
(***************************************************************************)
EXTENDS PhaseChain, TLC

CONSTANTS a, a1, a2, s1, s2

OneBook == {a}
SameBook == {a1, a2}
BooksOfSame == (a1 :> a) @@ (a2 :> a)
TwoTasks == {s1, s2}
Sym == {p @@ q : p \in Permutations(TwoTasks), q \in Permutations(SameBook)}
=============================================================================
