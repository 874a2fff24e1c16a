--------------------------- MODULE MCAuthSessions ---------------------------
(***************************************************************************)
(* Small instances of AuthSessions for TLC.                                *)
(***************************************************************************)
EXTENDS AuthSessions, TLC

CONSTANTS root, guest, t1, t2, q1, q2

MCUsers == {root, guest}
MCJtis1 == {t1}
MCJtis2 == {t1, t2}
MCRequests == {q1, q2}

(* Requests are interchangeable; tokens are not: Init names one.           *)
RequestSymmetry == Permutations(Requests)
=============================================================================
