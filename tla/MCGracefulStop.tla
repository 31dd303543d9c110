---------------------------- MODULE MCGracefulStop ----------------------------
(* A small instance of GracefulStop for TLC: one message over SMTP and one *)
(* over TCP for two domains, so that with one slot there is an entry for   *)
(* the sender, one for the cloner's hand and one for the queue.            *)
EXTENDS GracefulStop

CONSTANTS c1, e1, e2

MCPacket == [c \in Conn |-> <<{e1, e2}>>]

(* What tells states apart: all but the histories (fate, tried, answer,    *)
(* settled, late, and stop, which follows stopPc), the counters the sets   *)
(* they count determine, and a queue length that is not looked at again.   *)
(* The one guard that reads a history, fate[i] = "new" of Accept, asks     *)
(* whether a listener may push an entry a second time, and the listeners   *)
(* forget what they have pushed.                                           *)
WithoutHistory ==
  <<mailCh, errCh, cloner, sending, deferring, exiting, handler, flushPc, flusher,
    started, loopPc, loopConn, connTokens, handTokens, conn, messages, entries,
    acceptLoop, stopped, session, slots, stopPc, drainPc,
    IF drainPc = "readError" THEN seen ELSE 0>>
=============================================================================
