------------------------------- MODULE MCCapture -------------------------------
(* Capture for TLC: threads are interchangeable. *)
EXTENDS Capture, TLC

Symmetry == Permutations(Threads)
=============================================================================
