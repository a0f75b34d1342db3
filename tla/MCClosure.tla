----------------------------- MODULE MCClosure -----------------------------
(***************************************************************************)
(* Seven trees: two that are good but have different boundaries, one whose *)
(* tests fail and one whose tests do not load, one that reads the archive  *)
(* and does not repeat its probe, one that lacks what the clauses ask for, *)
(* and a good one without ffmpeg.                                          *)
(***************************************************************************)
EXTENDS Closure

CONSTANTS old, new

A(boundary, suite, quiet, shaped) ==
  [boundary |-> boundary, suite |-> suite, clean |-> quiet, stable |-> quiet,
   vocabulary |-> shaped, layout |-> shaped, renders |-> TRUE]

MCTrees ==
  { A(old, "passes", TRUE, TRUE), A(new, "passes", TRUE, TRUE),
    A(old, "fails", TRUE, TRUE), A(new, "does not load", TRUE, TRUE),
    A(old, "passes", FALSE, TRUE), A(old, "passes", TRUE, FALSE),
    [A(old, "passes", TRUE, TRUE) EXCEPT !.renders = FALSE] }
=============================================================================
