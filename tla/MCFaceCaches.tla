---------------------------- MODULE MCFaceCaches ----------------------------
(* A small instance of FaceCaches for TLC.                                 *)
EXTENDS FaceCaches, TLC

CONSTANTS t1, t2, t3, pin, pool

MCThreads == {t1, t2, t3}
MCEmails == {pin, pool}

(* Requests are interchangeable.                                           *)
ThreadSymmetry == Permutations(Threads)
=============================================================================
