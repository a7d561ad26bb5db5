------------------------------ MODULE MCSession ------------------------------
(* Session for TLC: its runs give the constants their values in the .cfg     *)
(* files.                                                                    *)
EXTENDS Session, TLC

\* Threads differ in nothing; sound for the safety run that uses it.
ThreadSymmetry == Permutations(Threads)
=============================================================================
