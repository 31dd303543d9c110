----------------------------- MODULE MCListeners -----------------------------
(* A small instance of Listeners for TLC: one packet begins with a message *)
(* for nobody and goes on with one for two domains; the other packet has a *)
(* single message for a single domain.                                     *)
EXTENDS Listeners

CONSTANTS c1, c2, e1, e2, e3

MCPacket == [c \in Conn |-> IF c = c1 THEN <<{}, {e1, e2}>> ELSE <<{e3}>>]
=============================================================================
