------------------------------ MODULE MC_HiSend ------------------------------
(* Two concurrent calls; an encrypted room, a plaintext room, an unknown   *)
(* room.                                                                   *)
EXTENDS HiSend, TLC

CONSTANTS c1, c2, r1, r2, r3

MCCalls == {c1, c2}
MCRooms == {r1, r2, r3}
MCKnownRooms == {r1, r2}
MCEncryptedRooms == {r1}

MCSymmetry == Permutations(MCCalls)
=============================================================================
