---------------------------- MODULE MCTicketPool ----------------------------
(* Two tickets of one account fill its list, a third competes with them,   *)
(* and another account has one of its own.                                 *)
EXTENDS TicketPool, TLC

CONSTANTS t1, t2, t3, u1, alice, bob

MCTickets == {t1, t2, t3, u1}
MCAccounts == {alice, bob}
MCAccountOf == [t \in MCTickets |-> IF t = u1 THEN bob ELSE alice]
MCSymmetry == Permutations({t1, t2, t3})
=============================================================================
