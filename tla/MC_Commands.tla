---------------------------- MODULE MC_Commands ----------------------------
(* One command, routed to any FullHandler, with power levels 0, 50 and   *)
(* 100 for the user and for the required event level.                     *)
EXTENDS Commands

CONSTANTS k1

MCCmds == {k1}
MCLevels == {0, 50, 100}
=============================================================================
