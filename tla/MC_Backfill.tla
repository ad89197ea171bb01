---------------------------- MODULE MC_Backfill ----------------------------
(* Small instance of the forward backfill: three timestamps around the     *)
(* last bridged message, one thread, up to two messages of up to two        *)
(* parts each.                                                             *)
EXTENDS Backfill

CONSTANTS t1

MCTimes == {1, 2, 3}
MCThreads == {t1}
=============================================================================
