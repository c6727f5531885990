-------------------------- MODULE MCSynthesizeFile --------------------------
(* Two processes over a few versions of the slice: two sound ones, and    *)
(* where an instance says so one the analyzer faults, one that does not     *)
(* parse and one whose change cannot be expressed.                          *)
EXTENDS SynthesizeFile, TLC

CONSTANTS p1, p2, one, two, flawed, malformed, refused

MCProc   == {p1, p2}
Symmetric == Permutations(MCProc)
=============================================================================
