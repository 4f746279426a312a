------------------------------ MODULE MCOcrMerge ------------------------------
(***************************************************************************)
(* Instances of OcrMerge for TLC.  One run goes through several small ones, *)
(* each of which has what its properties need.                              *)
(***************************************************************************)
EXTENDS OcrMerge, TLC

CONSTANTS t1, t2, c1, c2

TwoTriggers == {t1, t2}
TwoRuns == {c1, c2}

\* Every page holds all there is, and no output is blank.
Part(triggers, runs, last, merging, most) ==
  [triggers |-> triggers, runs |-> runs, last |-> last, merging |-> merging,
   faults |-> most, shown |-> Jobs, paged |-> Ranges, blank |-> {}]

SmallScopes ==
  { \* Two uploads while the controller moves jobs.
    Part({t1, t2}, {c1}, 1, FALSE, 0),
    \* Two uploads of a book of two ranges.
    Part({t1, t2}, {}, 2, FALSE, 0),
    \* The same, with only its first range on the first pages.
    [Part({t1, t2}, {}, 2, FALSE, 0) EXCEPT !.shown = {j \in Jobs : Name(j) = 1}],
    \* Two uploads, one failure.
    Part({t1, t2}, {}, 1, FALSE, 1),
    \* Overlapping runs of the controller, one failure.
    Part({t1}, {c1, c2}, 1, FALSE, 1),
    \* Two ranges, of which the cap reads one.
    [Part({t1}, {c1}, 2, FALSE, 0) EXCEPT !.paged = {1}],
    \* Two ranges and their merges, two failures.
    Part({t1}, {}, 2, TRUE, 2),
    \* Two ranges, the first of them blank.
    [Part({t1}, {}, 2, TRUE, 1) EXCEPT !.blank = {1}],
    \* The merge of a job that the controller moves.
    Part({t1}, {c1}, 1, TRUE, 0) }
=============================================================================
