-------------------------- MODULE MC_BackfillProofs --------------------------
(* Small instance for the inductive invariant of BackfillProofs: two       *)
(* threads, so that events of one thread are chained past events of the    *)
(* other, two timestamps, and up to two messages of up to two parts each.  *)
EXTENDS BackfillProofs

CONSTANTS t1, t2

MCTimes == {1, 2}
MCThreads == {t1, t2}
=============================================================================
