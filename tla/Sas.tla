--------------------------------- MODULE Sas ---------------------------------
(***************************************************************************)
(* One SAS device-verification transaction between two devices, as        *)
(* spec.md section 4.3 defines its state machine (the implementation is    *)
(* not under src/; src/unnamed/part_001 lines 16-292 is the test that      *)
(* drives it).  Each side runs its own instance; every mutation of a side  *)
(* is one atomic step (section 5: one active mutation per transaction).    *)
(*                                                                         *)
(* Cryptography is abstracted to what the checks tell apart: an ephemeral  *)
(* key is <<"ephemeral", p>>, the shared secret a side derives is the set  *)
(* of the two ephemeral keys it combined (the info string orders them the  *)
(* same on both sides), a commitment is the key it commits to, and a MAC   *)
(* verifies exactly when it was made with the receiver's own secret.       *)
(* Each device has an inbox, a FIFO queue (the test harness's DeviceInbox, *)
(* the queue of section 9); when Lossy the transport may drop any event.   *)
(* When Attacker holds, Mallory sits on the transport:                     *)
(* it replaces the key in `key` events with its own and sends MACs made    *)
(* with the secrets it shares with either side.                            *)
(***************************************************************************)
EXTENDS Naturals, Sequences

CONSTANTS
    SendingDevice,    \* the device that sends the request
    ReceivingDevice,  \* the device that accepts it
    Mallory,          \* the man in the middle
    CrossSigning,     \* the sides that generated cross-signing keys
    Attacker,         \* whether Mallory is on the transport
    Lossy             \* whether the transport may drop events

Sides == {SendingDevice, ReceivingDevice}

ASSUME SasAssumption ==
    /\ SendingDevice # ReceivingDevice
    /\ Mallory \notin Sides
    /\ CrossSigning \subseteq Sides
    /\ Attacker \in BOOLEAN /\ Lossy \in BOOLEAN

Other(s) == IF s = SendingDevice THEN ReceivingDevice ELSE SendingDevice

Parties == Sides \cup {Mallory}
EphKey(p) == <<"ephemeral", p>>
DeviceKey(p) == <<"device", p>>
MasterKey(p) == <<"master", p>>
NoKey == <<"none", "none">>
Keys == {EphKey(p) : p \in Parties}
Attestable == {DeviceKey(p) : p \in Parties} \cup {MasterKey(p) : p \in Sides}

\* A mutant of OwnKeys that attests the ephemeral key instead of the
\* device key.
OwnKeysEphemeral(p) == {EphKey(p)} \cup {MasterKey(q) : q \in CrossSigning \cap {p}}

\* The keys a side attests in its `mac` event: its device key, and its
\* master key when it generated cross-signing keys.
OwnKeys(p) == {DeviceKey(p)} \cup {MasterKey(q) : q \in CrossSigning \cap {p}}

States == {"None", "Requested", "Ready", "Started", "KeySent", "SasShown",
           "MacSent", "Done", "Cancelled"}
Terminal == {"Done", "Cancelled"}
Shown == {"SasShown", "MacSent", "Done"}
Codes == {"none", "user", "timeout", "mismatched_sas", "mismatched_commitment",
          "mismatched_keys", "unexpected_message", "peer"}

\* An event on the to-device transport; unused fields keep their default.
MsgTypes == {"request", "ready", "start", "accept", "key", "mac", "cancel"}
Msgs == [type : MsgTypes, from : Parties, to : Sides, key : Keys \cup {NoKey},
         secret : SUBSET (Keys \cup {NoKey}), keys : SUBSET Attestable]
Evt(t, from, to, k, sec, ks) ==
    [type |-> t, from |-> from, to |-> to, key |-> k, secret |-> sec, keys |-> ks]
Msg(t, from, to) == Evt(t, from, to, NoKey, {}, {})

VARIABLES
    st,           \* the transaction's state, per side
    role,         \* "none", "initiator" (sent start) or "responder"
    commitment,   \* the commitment an initiator received in `accept`
    theirKey,     \* the peer's ephemeral key a side accepted
    confirmed,    \* confirmed_locally
    macReceived,  \* mac_received
    trusted,      \* the keys a side marked verified in the trust store
    signed,       \* the keys a side signed with its master key
    code,         \* the cancellation reason a side reported
    inbox         \* the events queued for each device

vars == <<st, role, commitment, theirKey, confirmed, macReceived, trusted,
          signed, code, inbox>>

\* The shared secret side s derived, from which its SAS and MAC key come.
Secret(s) == {EphKey(s), theirKey[s]}

TypeOK ==
    /\ st \in [Sides -> States]
    /\ role \in [Sides -> {"none", "initiator", "responder"}]
    /\ commitment \in [Sides -> Keys \cup {NoKey}]
    /\ theirKey \in [Sides -> Keys \cup {NoKey}]
    /\ confirmed \in [Sides -> BOOLEAN]
    /\ macReceived \in [Sides -> BOOLEAN]
    /\ trusted \in [Sides -> SUBSET Attestable]
    /\ signed \in [Sides -> SUBSET Attestable]
    /\ code \in [Sides -> Codes]
    /\ inbox \in [Sides -> Seq(Msgs)]

keyVars == <<role, commitment, theirKey>>
macVars == <<confirmed, macReceived, trusted, signed>>

Init ==
    /\ st = [s \in Sides |-> IF s = SendingDevice THEN "Requested" ELSE "None"]
    /\ role = [s \in Sides |-> "none"]
    /\ commitment = [s \in Sides |-> NoKey]
    /\ theirKey = [s \in Sides |-> NoKey]
    /\ confirmed = [s \in Sides |-> FALSE]
    /\ macReceived = [s \in Sides |-> FALSE]
    /\ trusted = [s \in Sides |-> {}]
    /\ signed = [s \in Sides |-> {}]
    /\ code = [s \in Sides |-> "none"]
    /\ inbox = [s \in Sides |-> IF s = ReceivingDevice
                     THEN <<Msg("request", SendingDevice, s)>> ELSE <<>>]

\* Side s enters Cancelled, reporting why.
CancelSide(s, why) ==
    /\ st' = [st EXCEPT ![s] = "Cancelled"]
    /\ code' = [code EXCEPT ![s] = why]

\* Side s enters Done (step 8): with cross-signing keys it signs the keys it
\* has verified.
Finish(s, keys) ==
    /\ st' = [st EXCEPT ![s] = "Done"]
    /\ signed' = [signed EXCEPT ![s] = IF s \in CrossSigning THEN keys ELSE {}]

\* Side s sends event m to its peer.
Post(s, m) == inbox' = [inbox EXCEPT ![Other(s)] = Append(@, m)]

\* The mac event s sends after confirming (step 6).
MacEvt(s) == Evt("mac", s, Other(s), NoKey, Secret(s), OwnKeys(s))

\* The event s's cancellation sends to its peer.
CancelEvt(s) == Msg("cancel", s, Other(s))

\* accept_verification: the receiving side answers the request with ready.
AcceptVerification(s) ==
    /\ s = ReceivingDevice /\ st[s] = "Requested"
    /\ st' = [st EXCEPT ![s] = "Ready"]
    /\ Post(s, Msg("ready", s, Other(s)))
    /\ UNCHANGED <<keyVars, macVars, code>>

\* start_sas (step 2): this side becomes the initiator.
StartSAS(s) ==
    /\ st[s] = "Ready"
    /\ st' = [st EXCEPT ![s] = "Started"]
    /\ role' = [role EXCEPT ![s] = "initiator"]
    /\ Post(s, Msg("start", s, Other(s)))
    /\ UNCHANGED <<commitment, theirKey, macVars, code>>

\* A mutant of ConfirmSAS that always waits in MacSent for the peer's mac,
\* even when that mac was already received.
ConfirmSASAlwaysWaits(s) ==
    /\ st[s] = "SasShown"
    /\ st[Other(s)] \in Shown /\ Secret(s) = Secret(Other(s))
    /\ confirmed' = [confirmed EXCEPT ![s] = TRUE]
    /\ Post(s, MacEvt(s))
    /\ st' = [st EXCEPT ![s] = "MacSent"]
    /\ UNCHANGED <<keyVars, macReceived, trusted, signed, code>>

\* confirm_sas (step 6), called by a user who compared both screens and
\* found the codes equal: send the mac; Done if the peer's mac came first.
ConfirmSAS(s) ==
    /\ st[s] = "SasShown"
    /\ st[Other(s)] \in Shown /\ Secret(s) = Secret(Other(s))
    /\ confirmed' = [confirmed EXCEPT ![s] = TRUE]
    /\ Post(s, MacEvt(s))
    /\ \/ macReceived[s] /\ Finish(s, trusted[s])
       \/ ~macReceived[s] /\ st' = [st EXCEPT ![s] = "MacSent"]
                          /\ UNCHANGED signed
    /\ UNCHANGED <<keyVars, macReceived, trusted, code>>

\* cancel_verification by a user who found the codes different.
RejectSAS(s) ==
    /\ st[s] = "SasShown"
    /\ st[Other(s)] \in Shown /\ Secret(s) # Secret(Other(s))
    /\ CancelSide(s, "mismatched_sas")
    /\ Post(s, CancelEvt(s))
    /\ UNCHANGED <<keyVars, macVars>>

\* cancel_verification by the user, or the expiry check (step 9).
Cancel(s, why) ==
    /\ st[s] \notin Terminal \cup {"None"}
    /\ CancelSide(s, why)
    /\ Post(s, CancelEvt(s))
    /\ UNCHANGED <<keyVars, macVars>>

\* The events side s acts on in its current state (steps 1-7); any other
\* event is a protocol violation, except a cancel.
Expected(s, t) ==
    \/ t = "ready"  /\ st[s] = "Requested" /\ s = SendingDevice
    \/ t = "start"  /\ st[s] = "Ready"
    \/ t = "accept" /\ st[s] = "Started" /\ role[s] = "initiator"
    \/ t = "key"    /\ st[s] = "Started" /\ role[s] = "responder"
    \/ t = "key"    /\ st[s] = "KeySent"
    \/ t = "mac"    /\ st[s] \in {"SasShown", "MacSent"} /\ ~macReceived[s]
    \/ t = "cancel"

\* Side s consumes the event at the head of its inbox and sends the
\* sequence of events out to its peer.
Consume(s, out) ==
    inbox' = [inbox EXCEPT ![s] = Tail(@), ![Other(s)] = @ \o out]

\* dispatch of a request: the transaction now exists on this side.
RecvRequest(s, m) ==
    /\ m.type = "request" /\ st[s] = "None"
    /\ st' = [st EXCEPT ![s] = "Requested"]
    /\ Consume(s, <<>>)
    /\ UNCHANGED <<keyVars, macVars, code>>

\* Step 1: the requester receives ready.
RecvReady(s, m) ==
    /\ m.type = "ready" /\ Expected(s, "ready")
    /\ st' = [st EXCEPT ![s] = "Ready"]
    /\ Consume(s, <<>>)
    /\ UNCHANGED <<keyVars, macVars, code>>

\* Step 2, responder: commit to its own ephemeral key and send accept.
RecvStart(s, m) ==
    /\ m.type = "start" /\ Expected(s, "start")
    /\ st' = [st EXCEPT ![s] = "Started"]
    /\ role' = [role EXCEPT ![s] = "responder"]
    /\ Consume(s, <<Evt("accept", s, Other(s), EphKey(s), {}, {})>>)
    /\ UNCHANGED <<commitment, theirKey, macVars, code>>

\* Step 3: the initiator keeps the commitment and reveals its key.
RecvAccept(s, m) ==
    /\ m.type = "accept" /\ Expected(s, "accept")
    /\ st' = [st EXCEPT ![s] = "KeySent"]
    /\ commitment' = [commitment EXCEPT ![s] = m.key]
    /\ Consume(s, <<Evt("key", s, Other(s), EphKey(s), {}, {})>>)
    /\ UNCHANGED <<role, theirKey, macVars, code>>

\* A mutant of RecvKey in which the initiator does not check the revealed
\* key against the commitment.
RecvKeyUnchecked(s, m) ==
    /\ m.type = "key" /\ Expected(s, "key")
    /\ \/ /\ role[s] = "responder"
          /\ Consume(s, <<Evt("key", s, Other(s), EphKey(s), {}, {})>>)
       \/ role[s] = "initiator" /\ Consume(s, <<>>)
    /\ st' = [st EXCEPT ![s] = "SasShown"]
    /\ theirKey' = [theirKey EXCEPT ![s] = m.key]
    /\ UNCHANGED <<role, commitment, macVars, code>>

\* Steps 4 and 5: the responder answers with its key; the initiator checks
\* the revealed key against the commitment.  Either then shows the SAS.
RecvKey(s, m) ==
    /\ m.type = "key" /\ Expected(s, "key")
    /\ \/ /\ role[s] = "responder"
          /\ Consume(s, <<Evt("key", s, Other(s), EphKey(s), {}, {})>>)
       \/ role[s] = "initiator" /\ m.key = commitment[s] /\ Consume(s, <<>>)
    /\ st' = [st EXCEPT ![s] = "SasShown"]
    /\ theirKey' = [theirKey EXCEPT ![s] = m.key]
    /\ UNCHANGED <<role, commitment, macVars, code>>

RecvKeyMismatch(s, m) ==
    /\ m.type = "key" /\ Expected(s, "key")
    /\ role[s] = "initiator" /\ m.key # commitment[s]
    /\ CancelSide(s, "mismatched_commitment")
    /\ Consume(s, <<CancelEvt(s)>>)
    /\ UNCHANGED <<keyVars, macVars>>

\* A mutant of RecvMac that accepts a mac without verifying it.
RecvMacUnverified(s, m) ==
    /\ m.type = "mac" /\ Expected(s, "mac")
    /\ trusted' = [trusted EXCEPT ![s] = m.keys]
    /\ macReceived' = [macReceived EXCEPT ![s] = TRUE]
    /\ \/ confirmed[s] /\ Finish(s, m.keys)
       \/ ~confirmed[s] /\ UNCHANGED <<st, signed>>
    /\ Consume(s, <<>>)
    /\ UNCHANGED <<keyVars, confirmed, code>>

\* Step 7: a MAC made with this side's secret marks the attested keys
\* verified; the side is Done once it has also confirmed.
RecvMac(s, m) ==
    /\ m.type = "mac" /\ Expected(s, "mac")
    /\ m.secret = Secret(s)
    /\ trusted' = [trusted EXCEPT ![s] = m.keys]
    /\ macReceived' = [macReceived EXCEPT ![s] = TRUE]
    /\ \/ confirmed[s] /\ Finish(s, m.keys)
       \/ ~confirmed[s] /\ UNCHANGED <<st, signed>>
    /\ Consume(s, <<>>)
    /\ UNCHANGED <<keyVars, confirmed, code>>

RecvMacMismatch(s, m) ==
    /\ m.type = "mac" /\ Expected(s, "mac")
    /\ m.secret # Secret(s)
    /\ CancelSide(s, "mismatched_keys")
    /\ Consume(s, <<CancelEvt(s)>>)
    /\ UNCHANGED <<keyVars, macVars>>

\* Step 9: the peer's cancel ends the transaction without an answer.
RecvCancel(s, m) ==
    /\ m.type = "cancel" /\ st[s] \notin Terminal \cup {"None"}
    /\ CancelSide(s, "peer")
    /\ Consume(s, <<>>)
    /\ UNCHANGED <<keyVars, macVars>>

\* Step 9: an event this side does not expect cancels the transaction.
RecvUnexpected(s, m) ==
    /\ st[s] \notin Terminal \cup {"None"} /\ ~Expected(s, m.type)
    /\ CancelSide(s, "unexpected_message")
    /\ Consume(s, <<CancelEvt(s)>>)
    /\ UNCHANGED <<keyVars, macVars>>

\* An event for a transaction this side does not know, or one that has
\* ended, is dropped without effect (section 4.4, section 5).
RecvIgnored(s, m) ==
    /\ \/ st[s] \in Terminal
       \/ st[s] = "None" /\ m.type # "request"
    /\ Consume(s, <<>>)
    /\ UNCHANGED <<st, keyVars, macVars, code>>

\* dispatch: one event addressed to s is handled.
Dispatch(s) ==
    /\ inbox[s] # <<>>
    /\ LET m == Head(inbox[s]) IN
           \/ RecvRequest(s, m) \/ RecvReady(s, m) \/ RecvStart(s, m)
           \/ RecvAccept(s, m) \/ RecvKey(s, m) \/ RecvKeyMismatch(s, m)
           \/ RecvMac(s, m) \/ RecvMacMismatch(s, m) \/ RecvCancel(s, m)
           \/ RecvUnexpected(s, m) \/ RecvIgnored(s, m)

\* Mallory replaces the revealed key in the i-th event queued for s with
\* its own.
TamperKey(s, i) ==
    /\ Attacker /\ i \in 1..Len(inbox[s])
    /\ inbox[s][i].type = "key" /\ inbox[s][i].key # EphKey(Mallory)
    /\ inbox' = [inbox EXCEPT ![s][i] = Evt(@.type, @.from, @.to, EphKey(Mallory),
                                          @.secret, @.keys)]
    /\ UNCHANGED <<st, keyVars, macVars, code>>

\* Mallory sends s a MAC made with the secret it would share with s.
ForgeMac(s) ==
    LET forged == Evt("mac", Mallory, s, NoKey, {EphKey(s), EphKey(Mallory)},
                      {DeviceKey(Mallory)})
    IN  /\ Attacker /\ st[s] \notin Terminal
        /\ \A i \in 1..Len(inbox[s]) : inbox[s][i] # forged
        /\ inbox' = [inbox EXCEPT ![s] = Append(@, forged)]
        /\ UNCHANGED <<st, keyVars, macVars, code>>

\* The transport drops the i-th event queued for s.
Lose(s, i) ==
    /\ Lossy /\ i \in 1..Len(inbox[s])
    /\ inbox' = [inbox EXCEPT ![s] = SubSeq(@, 1, i - 1) \o SubSeq(@, i + 1, Len(@))]
    /\ UNCHANGED <<st, keyVars, macVars, code>>

\* Both sides have ended and nothing is in flight.
Finished ==
    /\ \A s \in Sides : st[s] \in Terminal
    /\ \A s \in Sides : inbox[s] = <<>>
    /\ UNCHANGED vars

Next ==
    \/ \E s \in Sides :
          \/ AcceptVerification(s) \/ StartSAS(s) \/ ConfirmSAS(s)
          \/ RejectSAS(s) \/ Dispatch(s) \/ ForgeMac(s)
          \/ \E why \in {"user", "timeout"} : Cancel(s, why)
          \/ \E i \in 1..Len(inbox[s]) : TamperKey(s, i) \/ Lose(s, i)
    \/ Finished

\* The transport delivers every event it keeps, the receiving user accepts
\* the request, some user starts SAS, and each user compares the codes.
\* Cancellation, expiry, loss and Mallory are never required to act.
Fairness ==
    /\ WF_vars(AcceptVerification(ReceivingDevice))
    /\ WF_vars(\E s \in Sides : StartSAS(s))
    /\ \A s \in Sides : WF_vars(Dispatch(s))
    /\ \A s \in Sides : WF_vars(ConfirmSAS(s) \/ RejectSAS(s))

Spec == Init /\ [][Next]_vars /\ Fairness

-----------------------------------------------------------------------------
(***************************************************************************)
(* The commitment (steps 2, 3 and 5): an initiator that shows the SAS has  *)
(* the responder's real ephemeral key, however Mallory rewrote the key     *)
(* events after the responder committed (section 8).                       *)
(***************************************************************************)
CommitmentDetectsTamper ==
    \A s \in Sides :
        role[s] = "initiator" /\ st[s] \in Shown => theirKey[s] = EphKey(Other(s))

(***************************************************************************)
(* Section 5 and step 7: the trust store only ever holds keys the peer     *)
(* really owns, whatever Mallory sends and whenever the users answer.      *)
(***************************************************************************)
PeerKeysOnlyTrusted ==
    \A s \in Sides : trusted[s] \subseteq OwnKeys(Other(s))

(***************************************************************************)
(* The outcome a side reports: pending until Done or Cancelled; the keys   *)
(* it has verified are those in the trust store once it is Done.           *)
(***************************************************************************)
Outcome == INSTANCE SasOutcome WITH
    outcome <- [s \in Sides |-> IF st[s] = "Done" THEN "done"
                                ELSE IF st[s] = "Cancelled" THEN "cancelled"
                                ELSE "pending"],
    verified <- [s \in Sides |-> IF st[s] = "Done" THEN trusted[s] ELSE {}],
    PeerKeys <- [s \in Sides |-> OwnKeys(Other(s))]

(***************************************************************************)
(* The protocol implements SasOutcome: each side ends once, and a side     *)
(* that reaches Done has verified all of its peer's keys and no other,     *)
(* with or without Mallory, lost events and cancellations racing the       *)
(* exchange (steps 6-9).                                                   *)
(***************************************************************************)
ImplementsOutcome == Outcome!Spec

(***************************************************************************)
(* Step 7 and the dispatch note of section 4.3: with a reliable transport  *)
(* both sides end, in whichever order the users start and confirm and the *)
(* MACs arrive; a side holding the peer's MAC is not left waiting.         *)
(***************************************************************************)
BothSidesEnd == <>(\A s \in Sides : st[s] \in Terminal)

=============================================================================
