------------------------------ MODULE SasProofs ------------------------------
(***************************************************************************)
(* Proofs about the SAS transaction of module Sas, for any two devices, any *)
(* cross-signing choice, with or without Mallory and a lossy transport:    *)
(* the initiator's commitment check (CommitmentDetectsTamper) and the      *)
(* refinement of SasOutcome (a side that reaches Done has verified exactly *)
(* its peer's keys).                                                       *)
(*                                                                         *)
(* Neither is inductive alone.  Their induction rests on three facts:      *)
(*  - the events in flight are well formed: an accept carries the          *)
(*    committing peer's ephemeral key (Mallory only rewrites key events),  *)
(*    and a mac either attests the peer's own keys or was made with the   *)
(*    secret Mallory shares with the receiver;                             *)
(*  - a side that confirmed holds its peer's real key, since the user saw  *)
(*    equal codes and the two secrets are then equal; that key no longer   *)
(*    changes, because RecvKey only runs before the SAS is shown;          *)
(*  - a side that accepted a mac trusts its peer's keys, unless it holds   *)
(*    Mallory's key, which by the previous fact it never confirms.         *)
(***************************************************************************)
EXTENDS Sas, TLAPS

\* What an event queued for side s may carry.
GoodMsg(s, m) ==
    /\ m.type = "accept" => m.key = EphKey(Other(s))
    /\ m.type = "mac" =>
          \/ m.keys = OwnKeys(Other(s))
          \/ m.secret = {EphKey(s), EphKey(Mallory)}

GoodMsgs(s) == {m \in Msgs : GoodMsg(s, m)}

\* An initiator past accept holds the commitment to its peer's real key.
CommitInv(s) ==
    role[s] = "initiator" /\ st[s] \in {"KeySent"} \cup Shown
        => commitment[s] = EphKey(Other(s))

\* A side that confirmed holds its peer's real key, and its SAS is gone.
ConfirmInv(s) ==
    confirmed[s] =>
        /\ theirKey[s] = EphKey(Other(s))
        /\ st[s] \in {"MacSent", "Done", "Cancelled"}

\* A side that accepted a mac trusts its peer's keys or holds Mallory's key.
ReceivedInv(s) ==
    macReceived[s] =>
        /\ trusted[s] = OwnKeys(Other(s)) \/ theirKey[s] = EphKey(Mallory)
        /\ st[s] \in {"SasShown", "MacSent", "Done", "Cancelled"}

\* A Done side trusts exactly its peer's keys.
DoneInv(s) == st[s] = "Done" => trusted[s] = OwnKeys(Other(s))

SInv ==
    /\ TypeOK
    /\ \A s \in Sides : inbox[s] \in Seq(GoodMsgs(s))
    /\ \A s \in Sides : /\ CommitInv(s) /\ ConfirmInv(s)
                        /\ ReceivedInv(s) /\ DoneInv(s)
    /\ CommitmentDetectsTamper

-----------------------------------------------------------------------------
(* Facts about the queue operations the transport uses.                   *)

LEMMA TailInSeq ==
    ASSUME NEW S, NEW q \in Seq(S), q # <<>>
    PROVE  Head(q) \in S /\ Tail(q) \in Seq(S)
OBVIOUS

LEMMA ConcatInSeq ==
    ASSUME NEW S, NEW q \in Seq(S), NEW r \in Seq(S)
    PROVE  q \o r \in Seq(S)
OBVIOUS

LEMMA AppendInSeq ==
    ASSUME NEW S, NEW q \in Seq(S), NEW e \in S
    PROVE  Append(q, e) \in Seq(S)
OBVIOUS

LEMMA RemoveInSeq ==
    ASSUME NEW S, NEW q \in Seq(S), NEW i \in 1..Len(q)
    PROVE  SubSeq(q, 1, i - 1) \o SubSeq(q, i + 1, Len(q)) \in Seq(S)
OBVIOUS

LEMMA ExceptInSeq ==
    ASSUME NEW S, NEW q \in Seq(S), NEW i \in 1..Len(q), NEW e \in S
    PROVE  [q EXCEPT ![i] = e] \in Seq(S)
OBVIOUS

\* The two devices, their peers and their keys.
LEMMA SidesFacts ==
    ASSUME NEW s \in Sides
    PROVE  /\ Other(s) \in Sides /\ Other(s) # s /\ Other(Other(s)) = s
           /\ s # Mallory /\ Other(s) # Mallory
           /\ EphKey(s) # EphKey(Other(s)) /\ EphKey(s) # EphKey(Mallory)
           /\ EphKey(Other(s)) # EphKey(Mallory)
BY SasAssumption DEF Sides, Other, EphKey

\* The fields of an event, and the events the protocol builds.
LEMMA MsgFields ==
    ASSUME NEW m \in Msgs
    PROVE  /\ m.type \in MsgTypes /\ m.from \in Parties /\ m.to \in Sides
           /\ m.key \in Keys \cup {NoKey} /\ m.secret \subseteq Keys \cup {NoKey}
           /\ m.keys \subseteq Attestable
BY DEF Msgs

LEMMA MsgBuild ==
    ASSUME NEW t \in MsgTypes, NEW f \in Parties, NEW to \in Sides,
           NEW k \in Keys \cup {NoKey}, NEW sec \in SUBSET (Keys \cup {NoKey}),
           NEW ks \in SUBSET Attestable
    PROVE  [type |-> t, from |-> f, to |-> to, key |-> k, secret |-> sec,
            keys |-> ks] \in Msgs
BY DEF Msgs

LEMMA SeqMono ==
    ASSUME NEW S, NEW T, S \subseteq T, NEW q \in Seq(S)
    PROVE  q \in Seq(T)
OBVIOUS

LEMMA OwnKeysAttestable ==
    ASSUME NEW p \in Sides
    PROVE  OwnKeys(p) \subseteq Attestable
BY SasAssumption DEF OwnKeys, Attestable, Parties

\* The queues keep their events well formed when a side posts an event.
LEMMA PostGood ==
    ASSUME NEW s \in Sides, NEW m \in GoodMsgs(Other(s)),
           \A d \in Sides : inbox[d] \in Seq(GoodMsgs(d)),
           inbox \in [Sides -> Seq(Msgs)], Post(s, m)
    PROVE  /\ inbox' \in [Sides -> Seq(Msgs)]
           /\ \A d \in Sides : inbox'[d] \in Seq(GoodMsgs(d))
<1>1. Append(inbox[Other(s)], m) \in Seq(GoodMsgs(Other(s)))
  BY SidesFacts, AppendInSeq
<1>2. \A d \in Sides : inbox'[d] \in Seq(GoodMsgs(d))
  BY <1>1, SidesFacts DEF Post
<1>3. QED
  BY <1>2, SeqMono DEF Post, GoodMsgs

\* ... and when a side consumes the head of its queue and answers.
LEMMA ConsumeGood ==
    ASSUME NEW s \in Sides, inbox[s] # <<>>,
           NEW out \in Seq(GoodMsgs(Other(s))),
           \A d \in Sides : inbox[d] \in Seq(GoodMsgs(d)),
           inbox \in [Sides -> Seq(Msgs)], Consume(s, out)
    PROVE  /\ inbox' \in [Sides -> Seq(Msgs)]
           /\ \A d \in Sides : inbox'[d] \in Seq(GoodMsgs(d))
           /\ Head(inbox[s]) \in GoodMsgs(s)
<1>1. Tail(inbox[s]) \in Seq(GoodMsgs(s)) /\ Head(inbox[s]) \in GoodMsgs(s)
  BY TailInSeq
<1>2. inbox[Other(s)] \o out \in Seq(GoodMsgs(Other(s)))
  BY SidesFacts, ConcatInSeq
<1>3. \A d \in Sides : inbox'[d] \in Seq(GoodMsgs(d))
  BY <1>1, <1>2, SidesFacts DEF Consume
<1>4. QED
  BY <1>1, <1>3, SeqMono DEF Consume, GoodMsgs

-----------------------------------------------------------------------------
(* SInv holds initially and after each action.                            *)

LEMMA InitSInv == Init => SInv
<1> SUFFICES ASSUME Init PROVE SInv
  OBVIOUS
<1>1. Msg("request", SendingDevice, ReceivingDevice) \in GoodMsgs(ReceivingDevice)
  BY SasAssumption, MsgBuild DEF Msg, Evt, GoodMsgs, GoodMsg, MsgTypes, Parties, Sides
<1>2. \A d \in Sides : inbox[d] \in Seq(GoodMsgs(d))
  BY <1>1 DEF Init
<1>3. QED
  BY <1>2, SeqMono DEF SInv, Init, TypeOK, GoodMsgs, States, Codes, CommitInv,
     ConfirmInv, ReceivedInv, DoneInv, CommitmentDetectsTamper, Shown

\* The events a side posts on its own are well formed for its peer.
LEMMA PlainMsgGood ==
    ASSUME NEW s \in Sides, NEW t \in {"ready", "start", "cancel"}
    PROVE  Msg(t, s, Other(s)) \in GoodMsgs(Other(s))
BY SidesFacts, MsgBuild DEF Msg, Evt, GoodMsgs, GoodMsg, MsgTypes, Parties

LEMMA AcceptVerificationStep ==
    ASSUME SInv, NEW s \in Sides, AcceptVerification(s)
    PROVE  SInv'
<1>1. /\ inbox' \in [Sides -> Seq(Msgs)]
      /\ \A d \in Sides : inbox'[d] \in Seq(GoodMsgs(d))
  BY PlainMsgGood, PostGood DEF AcceptVerification, SInv, TypeOK
<1>2. QED
  BY <1>1 DEF SInv, AcceptVerification, keyVars, macVars, TypeOK, States,
     CommitInv, ConfirmInv,
     ReceivedInv, DoneInv, CommitmentDetectsTamper, Shown

LEMMA StartSASStep ==
    ASSUME SInv, NEW s \in Sides, StartSAS(s)
    PROVE  SInv'
<1>1. /\ inbox' \in [Sides -> Seq(Msgs)]
      /\ \A d \in Sides : inbox'[d] \in Seq(GoodMsgs(d))
  BY PlainMsgGood, PostGood DEF StartSAS, SInv, TypeOK
<1>2. QED
  BY <1>1 DEF SInv, StartSAS, macVars, TypeOK, States, CommitInv, ConfirmInv,
     ReceivedInv, DoneInv, CommitmentDetectsTamper, Shown

\* A cancellation by the side itself: the user, the expiry check, or the
\* user rejecting different codes.
LEMMA CancelStep ==
    ASSUME SInv, NEW s \in Sides,
           \/ \E why \in {"user", "timeout"} : Cancel(s, why)
           \/ RejectSAS(s)
    PROVE  SInv'
<1>1. PICK why \in Codes :
         /\ CancelSide(s, why) /\ Post(s, CancelEvt(s))
         /\ UNCHANGED <<keyVars, macVars>>
  BY DEF Cancel, RejectSAS, Codes
<1>2. /\ inbox' \in [Sides -> Seq(Msgs)]
      /\ \A d \in Sides : inbox'[d] \in Seq(GoodMsgs(d))
  BY <1>1, PlainMsgGood, PostGood DEF CancelEvt, SInv, TypeOK
<1>3. QED
  BY <1>1, <1>2 DEF SInv, CancelSide, keyVars, macVars, TypeOK, States,
     CommitInv, ConfirmInv, ReceivedInv, DoneInv, CommitmentDetectsTamper, Shown

\* Equal codes mean equal secrets, so the confirming side holds its peer's
\* real ephemeral key.
LEMMA EqualSecrets ==
    ASSUME NEW s \in Sides, theirKey \in [Sides -> Keys \cup {NoKey}],
           Secret(s) = Secret(Other(s))
    PROVE  theirKey[s] = EphKey(Other(s))
<1>1. EphKey(Other(s)) \in Secret(s)
  BY DEF Secret
<1>2. QED
  BY <1>1, SidesFacts DEF Secret

LEMMA ConfirmSASStep ==
    ASSUME SInv, NEW s \in Sides, ConfirmSAS(s)
    PROVE  SInv'
<1>1. theirKey[s] = EphKey(Other(s))
  BY EqualSecrets DEF ConfirmSAS, SInv, TypeOK
<1>2. MacEvt(s) \in GoodMsgs(Other(s))
  <2>1. Secret(s) \subseteq Keys \cup {NoKey}
    BY DEF Secret, SInv, TypeOK, Keys, Parties
  <2>2. MacEvt(s) = [type |-> "mac", from |-> s, to |-> Other(s), key |-> NoKey,
               secret |-> Secret(s), keys |-> OwnKeys(s)]
    BY DEF MacEvt, Evt
  <2>3. MacEvt(s) \in Msgs
    BY <2>1, <2>2, OwnKeysAttestable, SidesFacts, MsgBuild DEF MsgTypes, Parties
  <2>4. QED
    BY <2>2, <2>3, SidesFacts DEF GoodMsgs, GoodMsg
<1>3. /\ inbox' \in [Sides -> Seq(Msgs)]
      /\ \A d \in Sides : inbox'[d] \in Seq(GoodMsgs(d))
  BY <1>2, PostGood DEF ConfirmSAS, SInv, TypeOK
<1>4. macReceived[s] => trusted[s] = OwnKeys(Other(s))
  BY <1>1, SidesFacts DEF SInv, ReceivedInv
<1>5. /\ st[s] = "SasShown"
      /\ confirmed' = [confirmed EXCEPT ![s] = TRUE]
      /\ UNCHANGED <<role, commitment, theirKey, macReceived, trusted, code>>
      /\ \/ macReceived[s] /\ st' = [st EXCEPT ![s] = "Done"]
            /\ signed' = [signed EXCEPT ![s] = IF s \in CrossSigning
                                                THEN trusted[s] ELSE {}]
         \/ ~macReceived[s] /\ st' = [st EXCEPT ![s] = "MacSent"]
            /\ signed' = signed
  BY DEF ConfirmSAS, Finish, keyVars
<1>6. TypeOK'
  <2>1. st' \in [Sides -> States]
    BY <1>5 DEF SInv, TypeOK, States
  <2>2. signed' \in [Sides -> SUBSET Attestable]
    BY <1>5 DEF SInv, TypeOK
  <2>3. confirmed' \in [Sides -> BOOLEAN]
    BY <1>5 DEF SInv, TypeOK
  <2>4. QED
    BY <1>3, <1>5, <2>1, <2>2, <2>3 DEF SInv, TypeOK
<1>7. \A d \in Sides : (CommitInv(d) /\ ConfirmInv(d) /\ ReceivedInv(d)
                        /\ DoneInv(d))'
  BY <1>1, <1>4, <1>5 DEF SInv, TypeOK, CommitInv, ConfirmInv, ReceivedInv,
     DoneInv, Shown
<1>8. CommitmentDetectsTamper'
  BY <1>5 DEF SInv, TypeOK, CommitmentDetectsTamper, Shown
<1>9. QED
  BY <1>3, <1>6, <1>7, <1>8 DEF SInv

\* The answers a handler of side s sends are well formed for its peer.
LEMMA AnswersGood ==
    ASSUME NEW s \in Sides
    PROVE  /\ <<>> \in Seq(GoodMsgs(Other(s)))
           /\ <<CancelEvt(s)>> \in Seq(GoodMsgs(Other(s)))
           /\ <<Evt("accept", s, Other(s), EphKey(s), {}, {})>>
                 \in Seq(GoodMsgs(Other(s)))
           /\ <<Evt("key", s, Other(s), EphKey(s), {}, {})>>
                 \in Seq(GoodMsgs(Other(s)))
<1>1. CancelEvt(s) \in GoodMsgs(Other(s))
  BY PlainMsgGood DEF CancelEvt
<1>2. /\ Evt("accept", s, Other(s), EphKey(s), {}, {}) \in GoodMsgs(Other(s))
      /\ Evt("key", s, Other(s), EphKey(s), {}, {}) \in GoodMsgs(Other(s))
  BY SidesFacts, MsgBuild DEF Evt, GoodMsgs, GoodMsg, MsgTypes, Parties, Keys
<1>3. QED
  BY <1>1, <1>2

\* A handler that consumes the head event and cancels the transaction.
LEMMA ConsumeCancelStep ==
    ASSUME SInv, NEW s \in Sides, inbox[s] # <<>>,
           NEW why \in Codes, CancelSide(s, why),
           NEW out \in {<<>>, <<CancelEvt(s)>>}, Consume(s, out),
           UNCHANGED <<keyVars, macVars>>
    PROVE  SInv'
<1>1. /\ inbox' \in [Sides -> Seq(Msgs)]
      /\ \A d \in Sides : inbox'[d] \in Seq(GoodMsgs(d))
  BY AnswersGood, ConsumeGood DEF SInv, TypeOK
<1>2. QED
  BY <1>1 DEF SInv, CancelSide, keyVars, macVars, TypeOK, States,
     CommitInv, ConfirmInv, ReceivedInv, DoneInv, CommitmentDetectsTamper, Shown

LEMMA CancellingRecvStep ==
    ASSUME SInv, NEW s \in Sides, inbox[s] # <<>>,
           \/ RecvKeyMismatch(s, Head(inbox[s]))
           \/ RecvMacMismatch(s, Head(inbox[s]))
           \/ RecvCancel(s, Head(inbox[s]))
           \/ RecvUnexpected(s, Head(inbox[s]))
    PROVE  SInv'
<1>1. \E why \in Codes, out \in {<<>>, <<CancelEvt(s)>>} :
         /\ CancelSide(s, why) /\ Consume(s, out)
         /\ UNCHANGED <<keyVars, macVars>>
  BY DEF RecvKeyMismatch, RecvMacMismatch, RecvCancel, RecvUnexpected, Codes
<1>2. QED
  BY <1>1, ConsumeCancelStep

\* Handlers that only move a side forward before any key is exchanged.
LEMMA EarlyRecvStep ==
    ASSUME SInv, NEW s \in Sides, inbox[s] # <<>>,
           \/ RecvRequest(s, Head(inbox[s]))
           \/ RecvReady(s, Head(inbox[s]))
           \/ RecvStart(s, Head(inbox[s]))
           \/ RecvIgnored(s, Head(inbox[s]))
    PROVE  SInv'
<1>1. /\ inbox' \in [Sides -> Seq(Msgs)]
      /\ \A d \in Sides : inbox'[d] \in Seq(GoodMsgs(d))
  BY AnswersGood, ConsumeGood DEF SInv, TypeOK, RecvRequest, RecvReady,
     RecvStart, RecvIgnored
<1>2. st[s] \in {"None", "Requested", "Ready"} \/ RecvIgnored(s, Head(inbox[s]))
  BY DEF RecvRequest, RecvReady, RecvStart, Expected
<1>2a. UNCHANGED <<commitment, theirKey, confirmed, macReceived, trusted,
                   signed, code>>
  BY DEF RecvRequest, RecvReady, RecvStart, RecvIgnored, keyVars, macVars
<1>3. TypeOK'
  BY <1>1, <1>2a DEF SInv, TypeOK, RecvRequest, RecvReady, RecvStart,
     RecvIgnored, keyVars, States
\* An ignored event changes nothing the invariants read.
<1>4. CASE RecvIgnored(s, Head(inbox[s]))
  <2>1. UNCHANGED <<st, role>>
    BY <1>4 DEF RecvIgnored, keyVars
  <2>2. QED
    BY <1>1, <1>2a, <1>3, <2>1 DEF SInv, CommitInv, ConfirmInv, ReceivedInv,
       DoneInv, CommitmentDetectsTamper
\* Otherwise only s moves, from before the key exchange to a state before it.
<1>5. CASE ~RecvIgnored(s, Head(inbox[s]))
  <2>1. st[s] \in {"None", "Requested", "Ready"}
    BY <1>2, <1>5
  <2>2. ~confirmed[s] /\ ~macReceived[s]
    BY <2>1 DEF SInv, ConfirmInv, ReceivedInv
  <2>3. /\ \E x \in {"Requested", "Ready", "Started"} : st' = [st EXCEPT ![s] = x]
        /\ role' = role \/ role' = [role EXCEPT ![s] = "responder"]
    BY <1>5 DEF RecvRequest, RecvReady, RecvStart, keyVars
  <2>4. \A d \in Sides : /\ CommitInv(d)' /\ ConfirmInv(d)'
                        /\ ReceivedInv(d)' /\ DoneInv(d)'
    BY <1>2a, <2>1, <2>2, <2>3 DEF SInv, TypeOK, CommitInv, ConfirmInv,
       ReceivedInv, DoneInv, Shown
  <2>5. CommitmentDetectsTamper'
    BY <1>2a, <2>1, <2>3 DEF SInv, TypeOK, CommitmentDetectsTamper, Shown
  <2>6. QED
    BY <1>1, <1>3, <2>4, <2>5 DEF SInv
<1>6. QED
  BY <1>4, <1>5

\* Step 3: the commitment the initiator keeps is its peer's real key.
LEMMA RecvAcceptStep ==
    ASSUME SInv, NEW s \in Sides, inbox[s] # <<>>,
           RecvAccept(s, Head(inbox[s]))
    PROVE  SInv'
<1> DEFINE m == Head(inbox[s])
<1>1. /\ inbox' \in [Sides -> Seq(Msgs)]
      /\ \A d \in Sides : inbox'[d] \in Seq(GoodMsgs(d))
      /\ m \in GoodMsgs(s)
  BY AnswersGood, ConsumeGood DEF SInv, TypeOK, RecvAccept
<1>2. m.key = EphKey(Other(s)) /\ m.key \in Keys \cup {NoKey}
  BY <1>1, MsgFields DEF GoodMsgs, GoodMsg, RecvAccept
<1>3. st[s] = "Started" /\ role[s] = "initiator"
  BY DEF RecvAccept, Expected
<1>4. QED
  BY <1>1, <1>2, <1>3 DEF SInv, RecvAccept, macVars, TypeOK, States,
     CommitInv, ConfirmInv, ReceivedInv, DoneInv, CommitmentDetectsTamper, Shown

\* Steps 4 and 5: a side takes its peer's key before it can confirm or
\* accept a mac, and an initiator only takes the committed key.
LEMMA RecvKeyStep ==
    ASSUME SInv, NEW s \in Sides, inbox[s] # <<>>,
           RecvKey(s, Head(inbox[s]))
    PROVE  SInv'
<1> DEFINE m == Head(inbox[s])
<1>1. /\ inbox' \in [Sides -> Seq(Msgs)]
      /\ \A d \in Sides : inbox'[d] \in Seq(GoodMsgs(d))
      /\ m \in GoodMsgs(s)
  <2>1. \E out \in {<<>>, <<Evt("key", s, Other(s), EphKey(s), {}, {})>>} :
           Consume(s, out)
    BY DEF RecvKey
  <2>2. QED
    BY <2>1, AnswersGood, ConsumeGood DEF SInv, TypeOK
<1>2. m.key \in Keys \cup {NoKey}
  BY <1>1, MsgFields DEF GoodMsgs
<1>3. st[s] \in {"Started", "KeySent"} /\ ~confirmed[s] /\ ~macReceived[s]
  BY DEF RecvKey, Expected, SInv, ConfirmInv, ReceivedInv
<1>4. role[s] = "initiator" => m.key = EphKey(Other(s))
  BY <1>3 DEF RecvKey, Expected, SInv, CommitInv, Shown
<1>5. TypeOK'
  BY <1>1, <1>2 DEF SInv, RecvKey, TypeOK, States, macVars
<1>6. QED
  BY <1>1, <1>3, <1>4, <1>5 DEF SInv, RecvKey, macVars, TypeOK, CommitInv,
     ConfirmInv, ReceivedInv, DoneInv, CommitmentDetectsTamper, Shown

\* Step 7: a mac that verifies attests the peer's keys, unless the side
\* holds Mallory's key, which a confirmed side does not.
LEMMA RecvMacStep ==
    ASSUME SInv, NEW s \in Sides, inbox[s] # <<>>,
           RecvMac(s, Head(inbox[s]))
    PROVE  SInv'
<1> DEFINE m == Head(inbox[s])
<1>1. /\ inbox' \in [Sides -> Seq(Msgs)]
      /\ \A d \in Sides : inbox'[d] \in Seq(GoodMsgs(d))
      /\ m \in GoodMsgs(s)
  BY AnswersGood, ConsumeGood DEF SInv, TypeOK, RecvMac
<1>2. m.keys \subseteq Attestable /\ m.type = "mac" /\ m.secret = Secret(s)
  BY <1>1, MsgFields DEF GoodMsgs, RecvMac
<1>3. m.keys = OwnKeys(Other(s)) \/ theirKey[s] = EphKey(Mallory)
  <2>1. CASE m.keys # OwnKeys(Other(s))
    <3>1. Secret(s) = {EphKey(s), EphKey(Mallory)}
      BY <1>1, <1>2, <2>1 DEF GoodMsgs, GoodMsg
    <3>2. QED
      BY <3>1, SidesFacts DEF Secret
  <2>2. QED
    BY <2>1
<1>4. confirmed[s] => m.keys = OwnKeys(Other(s))
  BY <1>3, SidesFacts DEF SInv, ConfirmInv
<1>5. st[s] \in {"SasShown", "MacSent"}
  BY DEF RecvMac, Expected
<1>6. /\ trusted' = [trusted EXCEPT ![s] = m.keys]
      /\ macReceived' = [macReceived EXCEPT ![s] = TRUE]
      /\ UNCHANGED <<role, commitment, theirKey, confirmed, code>>
      /\ \/ confirmed[s] /\ st' = [st EXCEPT ![s] = "Done"]
            /\ signed' = [signed EXCEPT ![s] = IF s \in CrossSigning
                                                THEN m.keys ELSE {}]
         \/ ~confirmed[s] /\ st' = st /\ signed' = signed
  BY DEF RecvMac, Finish, keyVars
<1>7. TypeOK'
  BY <1>1, <1>2, <1>6 DEF SInv, TypeOK, States
<1>8. QED
  BY <1>1, <1>3, <1>4, <1>5, <1>6, <1>7 DEF SInv, TypeOK, CommitInv,
     ConfirmInv, ReceivedInv, DoneInv, CommitmentDetectsTamper, Shown

-----------------------------------------------------------------------------
(* Mallory and the transport only touch the queues.                       *)

\* A step that changes only the queues, and keeps them well formed, keeps SInv.
LEMMA InboxOnlyStep ==
    ASSUME SInv, UNCHANGED <<st, keyVars, macVars, code>>,
           inbox' \in [Sides -> Seq(Msgs)],
           \A d \in Sides : inbox'[d] \in Seq(GoodMsgs(d))
    PROVE  SInv'
BY DEF SInv, keyVars, macVars, TypeOK, CommitInv, ConfirmInv, ReceivedInv,
   DoneInv, CommitmentDetectsTamper

\* Rewriting the key of a key event leaves it well formed: GoodMsg says
\* nothing of key events, which is why the commitment is needed at all.
LEMMA TamperKeyStep ==
    ASSUME SInv, NEW s \in Sides, NEW i \in 1..Len(inbox[s]), TamperKey(s, i)
    PROVE  SInv'
<1> DEFINE q == inbox[s]
           e == Evt(q[i].type, q[i].from, q[i].to, EphKey(Mallory),
                    q[i].secret, q[i].keys)
<1>1. q \in Seq(GoodMsgs(s)) /\ q[i] \in GoodMsgs(s)
  BY DEF SInv
<1>2. e \in Msgs
  BY <1>1, MsgFields, MsgBuild, SasAssumption DEF GoodMsgs, Evt, Keys, Parties
<1>3. e \in GoodMsgs(s)
  BY <1>2 DEF TamperKey, Evt, GoodMsgs, GoodMsg
<1>4. [q EXCEPT ![i] = e] \in Seq(GoodMsgs(s))
  BY <1>1, <1>3, ExceptInSeq
<1>5. inbox' = [inbox EXCEPT ![s] = [q EXCEPT ![i] = e]]
  BY DEF TamperKey
<1>6. \A d \in Sides : inbox'[d] \in Seq(GoodMsgs(d))
  BY <1>4, <1>5 DEF SInv, TypeOK
<1>7. QED
  BY <1>6, SeqMono, InboxOnlyStep DEF TamperKey, SInv, TypeOK, GoodMsgs

\* A forged mac is made with the secret Mallory shares with the receiver.
LEMMA ForgeMacStep ==
    ASSUME SInv, NEW s \in Sides, ForgeMac(s)
    PROVE  SInv'
<1> DEFINE forged == Evt("mac", Mallory, s, NoKey, {EphKey(s), EphKey(Mallory)},
                         {DeviceKey(Mallory)})
<1>1. forged \in GoodMsgs(s)
  BY SasAssumption, MsgBuild DEF Evt, GoodMsgs, GoodMsg, MsgTypes, Parties,
     Keys, Attestable
<1>2. Append(inbox[s], forged) \in Seq(GoodMsgs(s))
  BY <1>1, AppendInSeq DEF SInv
<1>3. \A d \in Sides : inbox'[d] \in Seq(GoodMsgs(d))
  BY <1>2 DEF ForgeMac, SInv, TypeOK
<1>4. QED
  BY <1>3, SeqMono, InboxOnlyStep DEF ForgeMac, SInv, TypeOK, GoodMsgs

\* Dropping an event leaves the rest of the queue well formed.
LEMMA LoseStep ==
    ASSUME SInv, NEW s \in Sides, NEW i \in 1..Len(inbox[s]), Lose(s, i)
    PROVE  SInv'
<1> DEFINE q == inbox[s]
<1>1. SubSeq(q, 1, i - 1) \o SubSeq(q, i + 1, Len(q)) \in Seq(GoodMsgs(s))
  BY RemoveInSeq DEF SInv
<1>2. \A d \in Sides : inbox'[d] \in Seq(GoodMsgs(d))
  BY <1>1 DEF Lose, SInv, TypeOK
<1>3. QED
  BY <1>2, SeqMono, InboxOnlyStep DEF Lose, SInv, TypeOK, GoodMsgs

-----------------------------------------------------------------------------
(* SInv is an invariant, and with it the commitment check holds.          *)

LEMMA DispatchStep ==
    ASSUME SInv, NEW s \in Sides, Dispatch(s)
    PROVE  SInv'
BY EarlyRecvStep, RecvAcceptStep, RecvKeyStep, RecvMacStep, CancellingRecvStep
   DEF Dispatch

LEMMA StepSInv == SInv /\ [Next]_vars => SInv'
<1> SUFFICES ASSUME SInv, [Next]_vars PROVE SInv'
  OBVIOUS
<1>1. CASE \E s \in Sides :
          \/ AcceptVerification(s) \/ StartSAS(s) \/ ConfirmSAS(s)
          \/ RejectSAS(s) \/ Dispatch(s) \/ ForgeMac(s)
          \/ \E why \in {"user", "timeout"} : Cancel(s, why)
          \/ \E i \in 1..Len(inbox[s]) : TamperKey(s, i) \/ Lose(s, i)
  BY <1>1, AcceptVerificationStep, StartSASStep, ConfirmSASStep, CancelStep,
     DispatchStep, ForgeMacStep, TamperKeyStep, LoseStep
<1>2. CASE Finished \/ UNCHANGED vars
  BY <1>2 DEF Finished, vars, SInv, TypeOK, CommitInv, ConfirmInv, ReceivedInv,
     DoneInv, CommitmentDetectsTamper
<1>3. QED
  BY <1>1, <1>2 DEF Next

\* SInv holds in every reachable state, whatever the fairness.
LEMMA AlwaysSInv == Init /\ [][Next]_vars => []SInv
BY InitSInv, StepSInv, PTL

(***************************************************************************)
(* Every reachable state of the transaction is well typed: each handler    *)
(* and each action of Mallory and the transport builds only events of Msgs *)
(* and keeps the per-side state within its range, for any devices.         *)
(***************************************************************************)
THEOREM SasTypeCorrect == Spec => []TypeOK
<1>1. SInv => TypeOK
  BY DEF SInv
<1>2. QED
  BY <1>1, AlwaysSInv, PTL DEF Spec

(***************************************************************************)
(* Step 5 of section 4.3, for any devices, cross-signing and attacker:     *)
(* an initiator that shows the SAS holds the key its peer committed to in  *)
(* the accept, so Mallory's rewriting of the key event is always caught    *)
(* by the commitment check of RecvKey before the codes are compared.       *)
(***************************************************************************)
THEOREM CommitmentProtects == Spec => []CommitmentDetectsTamper
<1>1. SInv => CommitmentDetectsTamper
  BY DEF SInv
<1>2. QED
  BY <1>1, AlwaysSInv, PTL DEF Spec

-----------------------------------------------------------------------------
(* The refinement of SasOutcome.  Every step moves at most one side, and a *)
(* side that has ended never moves again; with DoneInv in the next state   *)
(* that is all a step of SasOutcome, or a stutter, needs.                  *)

\* A step of side s: no other side's state or trust changes, and an ended
\* side keeps both.
SideStep(s) ==
    /\ \A d \in Sides \ {s} : st'[d] = st[d] /\ trusted'[d] = trusted[d]
    /\ st[s] \in Terminal => st'[s] = st[s] /\ trusted'[s] = trusted[s]

LEMMA LocalSideStep ==
    ASSUME SInv, NEW s \in Sides,
           \/ AcceptVerification(s) \/ StartSAS(s) \/ ConfirmSAS(s)
           \/ RejectSAS(s) \/ \E why \in {"user", "timeout"} : Cancel(s, why)
    PROVE  SideStep(s)
BY DEF SideStep, SInv, TypeOK, AcceptVerification, StartSAS, ConfirmSAS,
   RejectSAS, Cancel, CancelSide, Finish, macVars, Terminal

LEMMA DispatchSideStep ==
    ASSUME SInv, NEW s \in Sides, Dispatch(s)
    PROVE  SideStep(s)
<1> DEFINE m == Head(inbox[s])
<1>1. CASE RecvRequest(s, m) \/ RecvReady(s, m) \/ RecvStart(s, m)
           \/ RecvAccept(s, m) \/ RecvKey(s, m)
  BY <1>1 DEF SideStep, SInv, TypeOK, RecvRequest, RecvReady, RecvStart,
     RecvAccept, RecvKey, Expected, macVars, Terminal
<1>2. CASE RecvKeyMismatch(s, m) \/ RecvMacMismatch(s, m) \/ RecvCancel(s, m)
           \/ RecvUnexpected(s, m) \/ RecvIgnored(s, m)
  BY <1>2 DEF SideStep, SInv, TypeOK, RecvKeyMismatch, RecvMacMismatch,
     RecvCancel, RecvUnexpected, RecvIgnored, Expected, CancelSide, macVars,
     Terminal
<1>3. CASE RecvMac(s, m)
  BY <1>3 DEF SideStep, SInv, TypeOK, RecvMac, Expected, Finish, Terminal
<1>4. QED
  BY <1>1, <1>2, <1>3 DEF Dispatch

LEMMA NextSideStep ==
    ASSUME SInv, [Next]_vars
    PROVE  UNCHANGED <<st, trusted>> \/ \E s \in Sides : SideStep(s)
<1>1. CASE \E s \in Sides :
          \/ AcceptVerification(s) \/ StartSAS(s) \/ ConfirmSAS(s)
          \/ RejectSAS(s) \/ \E why \in {"user", "timeout"} : Cancel(s, why)
  BY <1>1, LocalSideStep
<1>2. CASE \E s \in Sides : Dispatch(s)
  BY <1>2, DispatchSideStep
<1>3. CASE \E s \in Sides :
          \/ ForgeMac(s)
          \/ \E i \in 1..Len(inbox[s]) : TamperKey(s, i) \/ Lose(s, i)
  BY <1>3 DEF ForgeMac, TamperKey, Lose, macVars
<1>4. CASE Finished \/ UNCHANGED vars
  BY <1>4 DEF Finished, vars
<1>5. QED
  BY <1>1, <1>2, <1>3, <1>4 DEF Next

\* The images of the state under the refinement mapping.
OutcomeOf == [d \in Sides |-> IF st[d] = "Done" THEN "done"
                              ELSE IF st[d] = "Cancelled" THEN "cancelled"
                              ELSE "pending"]
VerifiedOf == [d \in Sides |-> IF st[d] = "Done" THEN trusted[d] ELSE {}]

LEMMA MappedStep ==
    ASSUME SInv, SInv', NEW s \in Sides, SideStep(s)
    PROVE  [Outcome!Next]_Outcome!vars
<1> USE DEF Outcome!Next, Outcome!vars, Outcome!Complete, Outcome!Abandon
<1>1. /\ \A d \in Sides \ {s} : OutcomeOf'[d] = OutcomeOf[d]
                              /\ VerifiedOf'[d] = VerifiedOf[d]
      /\ OutcomeOf \in [Sides -> {"done", "cancelled", "pending"}]
      /\ OutcomeOf' \in [Sides -> {"done", "cancelled", "pending"}]
  BY DEF SideStep, OutcomeOf, VerifiedOf
<1>2. CASE st[s] \in Terminal \/ st'[s] \notin Terminal
  <2>1. OutcomeOf'[s] = OutcomeOf[s] /\ VerifiedOf'[s] = VerifiedOf[s]
    BY <1>2 DEF SideStep, OutcomeOf, VerifiedOf, Terminal
  <2>2. OutcomeOf' = OutcomeOf /\ VerifiedOf' = VerifiedOf
    BY <1>1, <2>1 DEF OutcomeOf, VerifiedOf
  <2>3. QED
    BY <2>2 DEF OutcomeOf, VerifiedOf
<1>3. CASE st[s] \notin Terminal /\ st'[s] = "Done"
  <2>1. trusted'[s] = OwnKeys(Other(s))
    BY <1>3 DEF SInv, DoneInv
  <2>2. /\ OutcomeOf[s] = "pending"
        /\ OutcomeOf' = [OutcomeOf EXCEPT ![s] = "done"]
        /\ VerifiedOf' = [VerifiedOf EXCEPT ![s] = OwnKeys(Other(s))]
    BY <1>1, <1>3, <2>1 DEF OutcomeOf, VerifiedOf, Terminal
  <2>3. Outcome!Complete(s)
    BY <2>2 DEF OutcomeOf, VerifiedOf
  <2>4. QED
    BY <2>3
<1>4. CASE st[s] \notin Terminal /\ st'[s] = "Cancelled"
  <2>1. /\ OutcomeOf[s] = "pending"
        /\ OutcomeOf' = [OutcomeOf EXCEPT ![s] = "cancelled"]
        /\ VerifiedOf' = VerifiedOf
    BY <1>1, <1>4 DEF OutcomeOf, VerifiedOf, Terminal
  <2>2. Outcome!Abandon(s)
    BY <2>1 DEF OutcomeOf, VerifiedOf
  <2>3. QED
    BY <2>2
<1>5. QED
  BY <1>2, <1>3, <1>4 DEF Terminal

(***************************************************************************)
(* Sections 4.3 and 5, for any devices, cross-signing and attacker: the    *)
(* protocol implements SasOutcome.  Each side ends once, and a side that  *)
(* reaches Done has verified exactly the keys its peer owns, even when    *)
(* Mallory rewrites key events, forges MACs and events are lost.          *)
(***************************************************************************)
THEOREM OutcomeRefinement == Spec => ImplementsOutcome
<1>1. Init => Outcome!Init
  BY DEF Init, Outcome!Init, Terminal
<1>2. SInv /\ SInv' /\ [Next]_vars => [Outcome!Next]_Outcome!vars
  <2> SUFFICES ASSUME SInv, SInv', [Next]_vars
               PROVE  [Outcome!Next]_Outcome!vars
    OBVIOUS
  <2>1. CASE UNCHANGED <<st, trusted>>
    BY <2>1 DEF Outcome!vars
  <2>2. CASE \E s \in Sides : SideStep(s)
    BY <2>2, MappedStep
  <2>3. QED
    BY <2>1, <2>2, NextSideStep
<1>3. QED
  BY <1>1, <1>2, InitSInv, StepSInv, PTL DEF Spec, ImplementsOutcome, Outcome!Spec

=============================================================================
