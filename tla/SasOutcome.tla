----------------------------- MODULE SasOutcome -----------------------------
(***************************************************************************)
(* What one SAS verification transaction promises its two devices          *)
(* (spec.md sections 4.3, 5 and 8), without the protocol: each side ends   *)
(* at most once, in Done or in Cancelled, and a side that ends in Done     *)
(* has marked as verified exactly the keys its peer really owns.  Nothing  *)
(* is trusted by a side that is pending or cancelled.                      *)
(***************************************************************************)
CONSTANTS
    Sides,       \* the two devices taking part in the transaction
    PeerKeys     \* PeerKeys[s]: the keys that s's peer really owns

VARIABLES
    outcome,     \* "pending", "done" or "cancelled", per side
    verified     \* the keys a side has marked verified, per side

vars == <<outcome, verified>>

Init ==
    /\ outcome = [s \in Sides |-> "pending"]
    /\ verified = [s \in Sides |-> {}]

\* Side s completes: it verifies its peer's keys, all of them and no other.
Complete(s) ==
    /\ outcome[s] = "pending"
    /\ outcome' = [outcome EXCEPT ![s] = "done"]
    /\ verified' = [verified EXCEPT ![s] = PeerKeys[s]]

\* Side s gives up, for whatever reason, and verifies nothing.
Abandon(s) ==
    /\ outcome[s] = "pending"
    /\ outcome' = [outcome EXCEPT ![s] = "cancelled"]
    /\ UNCHANGED verified

Next == \E s \in Sides : Complete(s) \/ Abandon(s)

Spec == Init /\ [][Next]_vars

=============================================================================
