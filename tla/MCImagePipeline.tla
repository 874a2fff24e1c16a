-------------------------- MODULE MCImagePipeline --------------------------
(***************************************************************************)
(* Small instances of ImagePipeline for TLC.                               *)
(***************************************************************************)
EXTENDS ImagePipeline, TLC

CONSTANTS j1, j2, j3, e1, e2

MCJobs3 == {j1, j2, j3}
MCEmails2 == {e1, e2}
MCOneImage == [k \in Keys |-> 1]

(* Jobs are interchangeable, and so are the accounts.                      *)
JobSymmetry == Permutations(Jobs) \cup Permutations(Emails)
=============================================================================
