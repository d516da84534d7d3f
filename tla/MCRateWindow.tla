----------------------------- MODULE MCRateWindow -----------------------------
(* RateWindow for TLC: handlers are interchangeable, and so are identifiers. *)
EXTENDS RateWindow, TLC

RateSymmetry == Permutations(Worker) \cup Permutations(Identifier)
=============================================================================
