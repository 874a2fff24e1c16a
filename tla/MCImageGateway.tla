--------------------------- MODULE MCImageGateway ---------------------------
(***************************************************************************)
(* Small instances of ImageGateway for TLC.  E-mail 2 is the pin, so that  *)
(* sorting puts a pool account on either side of it.                       *)
(***************************************************************************)
EXTENDS ImageGateway

CONSTANTS r1, r2, r3

MCRequests3 == {r1, r2, r3}
MCRequests2 == {r1, r2}
MCEmails == {1, 2, 3}
=============================================================================
