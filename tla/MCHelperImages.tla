--------------------------- MODULE MCHelperImages ---------------------------
(***************************************************************************)
(* Small instances of HelperImages for TLC.                                *)
(***************************************************************************)
EXTENDS HelperImages, TLC

CONSTANTS j1, j2, j3, j4, e1, e2

MCJobs3 == {j1, j2, j3}
MCJobs4 == {j1, j2, j3, j4}
MCEmails2 == {e1, e2}

(* Jobs are interchangeable, and so are the accounts.                      *)
JobSymmetry == Permutations(Jobs) \cup Permutations(Emails)
=============================================================================
