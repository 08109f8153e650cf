---------------------------- MODULE MCInterrupts ----------------------------
(* Three threads; calls nest four deep in client code, and three deep in   *)
(* the thread_yield of the handler.                                        *)
EXTENDS Interrupts

CONSTANTS t1, t2, t3

Threads3 == {t1, t2, t3}
=============================================================================
