------------------------------- MODULE MCScanGate -------------------------------
(* ScanGate for TLC: sources are interchangeable.                             *)
EXTENDS ScanGate, TLC

ScanSymmetry == Permutations(Source)
=============================================================================
