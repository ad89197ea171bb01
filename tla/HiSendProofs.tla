---------------------------- MODULE HiSendProofs ----------------------------
(***************************************************************************)
(* Proofs about HiSend that hold for every set of calls and rooms.         *)
(***************************************************************************)
EXTENDS HiSend, TLAPS

(***************************************************************************)
(* The inductive invariant.  SendCompleteTruthful, NoTraceOfFailedSend and *)
(* EncryptedRoomsStayEncrypted are not inductive alone: they need to know  *)
(* what the database row, the in-memory dbEvt and the homeserver hold at   *)
(* each point of the sender goroutine (EchoInv), and that a call whose     *)
(* caller has not returned a local echo has no sender yet and that         *)
(* evtType was fixed by Encrypt before the sender read it (CallerInv).     *)
(***************************************************************************)
EchoInv(c) ==
    /\ sendPc[c] = "none" =>
          db[c] = NoRow /\ server[c] = "none" /\ sendComplete[c] = "none"
    /\ sendPc[c] = "sending" =>
          /\ db[c] = EchoRow /\ mem[c] = EchoRow
          /\ server[c] = "none" /\ sendComplete[c] = "none"
    /\ sendPc[c] = "updating" =>
          /\ db[c] = EchoRow /\ sendComplete[c] = "none"
          /\ (mem[c].err = "failed") = (server[c] = "none")
    /\ sendPc[c] = "done" =>
          /\ db[c].id # "none" /\ sendComplete[c] # "none"
          /\ (sendComplete[c] = "ok") = (server[c] # "none" /\ db[c].id = "remote")

CallerInv(c) ==
    /\ pc[c] # "returned" => sendPc[c] = "none" /\ ~stopTyping[c]
    /\ pc[c] \in {"encrypt", "share", "retry", "insert", "returned"} =>
          op[c] # "ensure"
    /\ (op[c] = "message" /\ room[c] \in EncryptedRooms
          /\ pc[c] \in {"insert", "returned"}) => evtType[c] = "encrypted"
    /\ server[c] # "none" => server[c] = evtType[c]

IInv == TypeOK /\ \A c \in Calls : EchoInv(c) /\ CallerInv(c)

\* The rows the sender writes are rows.  Kept as a lemma so that the
\* record set Rows need not be expanded in the step proofs.
LEMMA RowsClosed ==
    /\ NoRow \in Rows /\ EchoRow \in Rows
    /\ \A row \in Rows : /\ [row EXCEPT !.id = "remote"] \in Rows
                         /\ [row EXCEPT !.err = "failed"] \in Rows
BY DEF NoRow, EchoRow, Rows

\* The per-call steps and the environment steps, for case splits.
LEMMA NextCases ==
    ASSUME [Next]_vars
    PROVE  \/ \E c \in Calls :
                 \/ Send(c, "message") \/ Send(c, "reaction")
                 \/ StartEnsureGroupSessionShared(c) \/ Lock(c)
                 \/ Encrypt(c) \/ EncryptShare(c) \/ EncryptRetry(c)
                 \/ EnsureGroupSessionShared(c) \/ Insert(c)
                 \/ SendMessageEvent(c) \/ UpdateAndComplete(c) \/ StopTyping(c)
           \/ \E r \in Rooms : SetTyping(r) \/ SessionInvalidated(r)
           \/ UNCHANGED vars
BY DEF Next, CallerStep, SenderStep, SendMessage

\* loadMembers keeps the room tables typed.
LEMMA LoadedMembersType ==
    ASSUME TypeOK, NEW r, NEW have \in BOOLEAN, LoadedMembers(r, have)
    PROVE  hasMemberList' \in [Rooms -> BOOLEAN] /\ memberLoads' \in [Rooms -> Nat]
<1>1. CASE have
  BY <1>1 DEF LoadedMembers, TypeOK
<1>2. CASE ~have
  <2>1. /\ memberLoads' = [memberLoads EXCEPT ![r] = @ + 1]
        /\ hasMemberList' = [hasMemberList EXCEPT ![r] = TRUE]
    BY <1>2 DEF LoadedMembers
  <2>2. CASE r \in Rooms
    BY <2>1, <2>2 DEF TypeOK
  <2>3. CASE r \notin Rooms
    <3>1. memberLoads' = memberLoads /\ hasMemberList' = hasMemberList
      BY <2>1, <2>3 DEF TypeOK
    <3>2. QED
      BY <3>1 DEF TypeOK
  <2>4. QED
    BY <2>2, <2>3
<1>3. QED
  BY <1>1, <1>2

\* shareGroupSession keeps the variables it writes typed.
LEMMA ShareType ==
    ASSUME TypeOK, NEW c \in Calls, NEW have \in BOOLEAN, shareGroupSession(c, have)
    PROVE  /\ pc' \in [Calls -> PCs] /\ lockHolder' \in Calls \cup {NoCall}
           /\ hasMemberList' \in [Rooms -> BOOLEAN] /\ memberLoads' \in [Rooms -> Nat]
           /\ sessionShared' \in [Rooms -> BOOLEAN]
<1> USE DEF SetPc, FailLocked
<1>1. CASE ~have /\ FailLocked(c)
           /\ UNCHANGED <<hasMemberList, memberLoads, sessionShared>>
  BY <1>1 DEF TypeOK, PCs
<1>2. CASE LoadedMembers(room[c], have) /\ FailLocked(c) /\ UNCHANGED sessionShared
  BY <1>2, LoadedMembersType DEF TypeOK, PCs
<1>3. CASE /\ LoadedMembers(room[c], have)
           /\ sessionShared' = [sessionShared EXCEPT ![room[c]] = TRUE]
           /\ IF op[c] = "ensure"
                THEN SetPc(c, "ensured") /\ lockHolder' = NoCall
                ELSE SetPc(c, "retry") /\ UNCHANGED lockHolder
  <2>1. /\ hasMemberList' \in [Rooms -> BOOLEAN] /\ memberLoads' \in [Rooms -> Nat]
        /\ sessionShared' \in [Rooms -> BOOLEAN]
    BY <1>3, LoadedMembersType DEF TypeOK
  <2>2. pc' \in [Calls -> PCs] /\ lockHolder' \in Calls \cup {NoCall}
    BY <1>3 DEF TypeOK, PCs
  <2>3. QED
    BY <2>1, <2>2
<1>4. QED
  BY <1>1, <1>2, <1>3 DEF shareGroupSession

\* One step of any call or of the environment keeps TypeOK.
LEMMA TypeStep ==
    ASSUME TypeOK, [Next]_vars
    PROVE  TypeOK'
<1> USE DEF SetPc, Fail, FailLocked
<1>1. ASSUME NEW c \in Calls, NEW k \in {"message", "reaction"}, Send(c, k)
      PROVE TypeOK'
  <2>1. /\ op' \in [Calls -> Ops] /\ room' \in [Calls -> Rooms \cup {NoRoom}]
        /\ evtType' \in [Calls -> {"message", "reaction", "encrypted"}]
        /\ snapMembers' \in [Calls -> BOOLEAN]
    BY <1>1 DEF Send, NeedsEncryption, TypeOK, Ops
  <2>2. pc' \in [Calls -> PCs] /\ lockHolder' = lockHolder
    BY <1>1 DEF Send, NeedsEncryption, TypeOK, PCs
  <2>3. QED
    BY <1>1, <2>1, <2>2 DEF Send, NeedsEncryption, TypeOK
<1>2. ASSUME NEW c \in Calls, StartEnsureGroupSessionShared(c) PROVE TypeOK'
  BY <1>2 DEF StartEnsureGroupSessionShared, TypeOK, PCs, Ops
<1>3. ASSUME NEW c \in Calls, Lock(c) PROVE TypeOK'
  BY <1>3 DEF Lock, TypeOK, PCs
<1>4. ASSUME NEW c \in Calls, Encrypt(c) PROVE TypeOK'
  BY <1>4 DEF Encrypt, Encrypted, EncryptResults, TypeOK, PCs
<1>5. ASSUME NEW c \in Calls, EncryptRetry(c) PROVE TypeOK'
  BY <1>5 DEF EncryptRetry, Encrypted, EncryptResults, TypeOK, PCs
<1>6. ASSUME NEW c \in Calls, EncryptShare(c) PROVE TypeOK'
  <2>1. snapMembers[c] \in BOOLEAN
    BY DEF TypeOK
  <2>2. QED
    BY <1>6, <2>1, ShareType DEF EncryptShare, TypeOK
<1>7. ASSUME NEW c \in Calls, EnsureGroupSessionShared(c) PROVE TypeOK'
  <2>1. CASE /\ pc' \in {[pc EXCEPT ![c] = p] : p \in {"failed", "ensured"}}
             /\ lockHolder' = NoCall
             /\ UNCHANGED <<hasMemberList, memberLoads, sessionShared>>
    BY <1>7, <2>1 DEF EnsureGroupSessionShared, TypeOK, PCs
  <2>2. CASE room[c] \in KnownRooms /\ shareGroupSession(c, hasMemberList[room[c]])
    <3>1. hasMemberList[room[c]] \in BOOLEAN
      BY <2>2, RoomsAssumption DEF TypeOK
    <3>2. QED
      BY <1>7, <2>2, <3>1, ShareType DEF EnsureGroupSessionShared, TypeOK
  <2>3. QED
    BY <1>7, <2>1, <2>2 DEF EnsureGroupSessionShared
<1>8. ASSUME NEW c \in Calls, Insert(c) PROVE TypeOK'
  <2>1. CASE Fail(c) /\ UNCHANGED <<db, mem, sendPc, stopTyping>>
    BY <1>8, <2>1 DEF Insert, TypeOK, PCs
  <2>2. CASE /\ db' = [db EXCEPT ![c] = EchoRow]
             /\ mem' = [mem EXCEPT ![c] = EchoRow]
             /\ sendPc' = [sendPc EXCEPT ![c] = "sending"]
             /\ stopTyping' = [stopTyping EXCEPT ![c] = TRUE]
             /\ SetPc(c, "returned") /\ UNCHANGED lockHolder
    BY <1>8, <2>2, RowsClosed DEF Insert, TypeOK, PCs
  <2>3. QED
    BY <1>8, <2>1, <2>2 DEF Insert
<1>9. ASSUME NEW c \in Calls, SendMessageEvent(c) PROVE TypeOK'
  <2>1. mem[c] \in Rows
    BY DEF TypeOK
  <2>2. CASE /\ server' = [server EXCEPT ![c] = evtType[c]]
             /\ mem' = [mem EXCEPT ![c].id = "remote"]
    BY <1>9, <2>1, <2>2, RowsClosed DEF SendMessageEvent, TypeOK
  <2>3. CASE mem' = [mem EXCEPT ![c].err = "failed"] /\ UNCHANGED server
    BY <1>9, <2>1, <2>3, RowsClosed DEF SendMessageEvent, TypeOK
  <2>4. QED
    BY <1>9, <2>2, <2>3 DEF SendMessageEvent
<1>10. ASSUME NEW c \in Calls, UpdateAndComplete(c) PROVE TypeOK'
  <2>1. db[c] \in Rows
    BY DEF TypeOK
  <2>2. db' \in [Calls -> Rows]
    <3>1. CASE db' = db
      BY <3>1 DEF TypeOK
    <3>2. CASE db' = [db EXCEPT ![c].err = "failed"]
      BY <3>2, <2>1, RowsClosed DEF TypeOK
    <3>3. CASE db' = [db EXCEPT ![c].id = "remote"]
      BY <3>3, <2>1, RowsClosed DEF TypeOK
    <3>4. QED
      BY <1>10, <3>1, <3>2, <3>3 DEF UpdateAndComplete, Completed, UpdateIDResult
  <2>3. sendComplete' \in [Calls -> {"none", "ok", "err"}]
    BY <1>10 DEF UpdateAndComplete, Completed, UpdateIDResult, TypeOK
  <2>4. QED
    BY <1>10, <2>2, <2>3 DEF UpdateAndComplete, Completed, UpdateIDResult, TypeOK
<1>11. ASSUME NEW c \in Calls, StopTyping(c) PROVE TypeOK'
  <2>1. typing' \in [Rooms -> BOOLEAN]
    <3>1. CASE typing' = [typing EXCEPT ![room[c]] = 0 > 0]
      <4>1. (0 > 0) \in BOOLEAN
        OBVIOUS
      <4>2. typing \in [Rooms -> BOOLEAN]
        BY DEF TypeOK
      <4>3. QED
        BY <3>1, <4>1, <4>2
    <3>2. CASE typing' = typing
      BY <3>2 DEF TypeOK
    <3>3. QED
      BY <1>11, <3>1, <3>2 DEF StopTyping, UserTyping
  <2>2. QED
    BY <1>11, <2>1 DEF StopTyping, TypeOK
<1>12. ASSUME NEW r \in Rooms, SetTyping(r) PROVE TypeOK'
  BY <1>12 DEF SetTyping, UserTyping, TypeOK
<1>13. ASSUME NEW r \in Rooms, SessionInvalidated(r) PROVE TypeOK'
  BY <1>13 DEF SessionInvalidated, TypeOK
<1>14. CASE UNCHANGED vars
  BY <1>14 DEF vars, TypeOK
<1>15. QED
  BY <1>1, <1>2, <1>3, <1>4, <1>5, <1>6, <1>7, <1>8, <1>9, <1>10, <1>11,
     <1>12, <1>13, <1>14, NextCases

(***************************************************************************)
(* Type correctness: every step of every call keeps each variable in its   *)
(* domain, for any sets of calls and rooms.                                *)
(***************************************************************************)
THEOREM TypeCorrect == Spec => []TypeOK
<1>1. Init => TypeOK
  BY RoomsAssumption DEF Init, TypeOK, NoRow, Rows, PCs, Ops
<1>2. TypeOK /\ [Next]_vars => TypeOK'
  BY TypeStep
<1>3. QED
  BY <1>1, <1>2, PTL DEF Spec

(***************************************************************************)
(* EncryptLockHeldInside is inductive together with TypeOK.  A step moves  *)
(* at most one call's program point; a call outside the locked section     *)
(* that stays outside leaves the lock alone, and a call that enters or     *)
(* leaves it (Lock, the deferred Unlock) takes or frees it.                *)
(***************************************************************************)
LEMMA OutsideMove ==
    ASSUME TypeOK, EncryptLockHeldInside, NEW c \in Calls, NEW p,
           pc[c] \notin Locked, p \notin Locked,
           pc' = [pc EXCEPT ![c] = p], lockHolder' = lockHolder
    PROVE  EncryptLockHeldInside'
BY DEF EncryptLockHeldInside, TypeOK

LEMMA LockStep ==
    ASSUME TypeOK, EncryptLockHeldInside, [Next]_vars
    PROVE  EncryptLockHeldInside'
<1> USE DEF SetPc, Fail, FailLocked
<1>1. ASSUME NEW c \in Calls, NEW k \in {"message", "reaction"}, Send(c, k)
      PROVE  EncryptLockHeldInside'
  <2>1. pc[c] \notin Locked /\ lockHolder' = lockHolder
    BY <1>1 DEF Send, Locked
  <2>2. \E p \in {"failed", "lock", "insert"} : pc' = [pc EXCEPT ![c] = p]
    BY <1>1 DEF Send
  <2>3. QED
    BY <2>1, <2>2, OutsideMove DEF Locked
<1>2. ASSUME NEW c \in Calls, StartEnsureGroupSessionShared(c)
      PROVE  EncryptLockHeldInside'
  BY <1>2, OutsideMove DEF StartEnsureGroupSessionShared, Locked
<1>3. ASSUME NEW c \in Calls, Lock(c)
      PROVE  EncryptLockHeldInside'
  <2>1. PICK p \in {"ensure", "encrypt"} : pc' = [pc EXCEPT ![c] = p]
    BY <1>3 DEF Lock
  <2>2. lockHolder = NoCall /\ lockHolder' = IF p \in Locked THEN c ELSE NoCall
    BY <1>3 DEF Lock, Locked
  <2>3. QED
    BY <2>1, <2>2, RoomsAssumption DEF EncryptLockHeldInside, TypeOK
<1>4. ASSUME NEW c \in Calls, Insert(c)
      PROVE  EncryptLockHeldInside'
  BY <1>4, OutsideMove DEF Insert, Locked
<1>5. ASSUME NEW c \in Calls,
             \/ Encrypt(c) \/ EncryptRetry(c) \/ EncryptShare(c)
             \/ EnsureGroupSessionShared(c)
      PROVE  EncryptLockHeldInside'
  <2>1. lockHolder = c
    BY <1>5 DEF Encrypt, EncryptRetry, EncryptShare, EnsureGroupSessionShared,
       EncryptLockHeldInside, Locked
  <2>2. PICK p : /\ pc' = [pc EXCEPT ![c] = p]
                 /\ lockHolder' = IF p \in Locked THEN c ELSE NoCall
    BY <1>5, <2>1 DEF Encrypt, EncryptRetry, EncryptShare,
       EnsureGroupSessionShared, Encrypted, shareGroupSession, Locked
  <2>3. QED
    BY <2>1, <2>2, RoomsAssumption DEF EncryptLockHeldInside, TypeOK
<1>6. ASSUME NEW c \in Calls,
             SendMessageEvent(c) \/ UpdateAndComplete(c) \/ StopTyping(c)
      PROVE  EncryptLockHeldInside'
  BY <1>6 DEF SendMessageEvent, UpdateAndComplete, StopTyping, EncryptLockHeldInside
<1>7. ASSUME NEW r \in Rooms, SetTyping(r) \/ SessionInvalidated(r)
      PROVE  EncryptLockHeldInside'
  BY <1>7 DEF SetTyping, SessionInvalidated, EncryptLockHeldInside
<1>8. CASE UNCHANGED vars
  BY <1>8 DEF vars, EncryptLockHeldInside
<1>9. QED
  BY <1>1, <1>2, <1>3, <1>4, <1>5, <1>6, <1>7, <1>8, NextCases

(***************************************************************************)
(* For every set of calls and rooms, encryptLock is held by a call exactly *)
(* while it is inside Encrypt or EnsureGroupSessionShared: every return    *)
(* path, those through shareGroupSession included, unlocks, and two calls  *)
(* are never inside at once.                                               *)
(***************************************************************************)
THEOREM EncryptLockDiscipline == Spec => []EncryptLockHeldInside
<1>1. Init => TypeOK /\ EncryptLockHeldInside
  BY RoomsAssumption DEF Init, TypeOK, NoRow, Rows, PCs, Ops,
     EncryptLockHeldInside, Locked
<1>2. TypeOK /\ EncryptLockHeldInside /\ [Next]_vars
        => TypeOK' /\ EncryptLockHeldInside'
  BY TypeStep, LockStep
<1>3. QED
  BY <1>1, <1>2, PTL DEF Spec

LEMMA InitIInv == Init => IInv
<1> SUFFICES ASSUME Init PROVE IInv
  OBVIOUS
<1>1. TypeOK
  BY RoomsAssumption DEF Init, TypeOK, NoRow, Rows, PCs, Ops
<1>2. \A c \in Calls : EchoInv(c) /\ CallerInv(c)
  BY DEF Init, EchoInv, CallerInv
<1>3. QED
  BY <1>1, <1>2 DEF IInv

(***************************************************************************)
(* One step of any call or of the environment keeps IInv.  The steps of a  *)
(* call c change only c's entries, so for another call d the invariant is  *)
(* carried over; for c itself each action is checked against each          *)
(* conjunct.                                                               *)
(***************************************************************************)
LEMMA IInvStep ==
    ASSUME IInv, [Next]_vars
    PROVE  IInv'
<1> USE DEF SetPc, Fail, FailLocked
<1>1. TypeOK'
  BY TypeStep DEF IInv
<1> SUFFICES ASSUME NEW d \in Calls PROVE EchoInv(d)' /\ CallerInv(d)'
  BY <1>1 DEF IInv
<1>2. TypeOK /\ EchoInv(d) /\ CallerInv(d)
  BY DEF IInv
<1>3. ASSUME NEW c \in Calls, NEW k \in {"message", "reaction"}, Send(c, k)
      PROVE EchoInv(d)' /\ CallerInv(d)'
  BY <1>3, <1>2 DEF Send, NeedsEncryption, EchoInv, CallerInv, TypeOK, NoRow, EchoRow
<1>4. ASSUME NEW c \in Calls, StartEnsureGroupSessionShared(c)
      PROVE EchoInv(d)' /\ CallerInv(d)'
  BY <1>4, <1>2 DEF StartEnsureGroupSessionShared, EchoInv, CallerInv, TypeOK, NoRow, EchoRow
<1>5. ASSUME NEW c \in Calls, Lock(c)
      PROVE EchoInv(d)' /\ CallerInv(d)'
  BY <1>5, <1>2 DEF Lock, EchoInv, CallerInv, TypeOK, NoRow, EchoRow
<1>6. ASSUME NEW c \in Calls, Encrypt(c)
      PROVE EchoInv(d)' /\ CallerInv(d)'
  BY <1>6, <1>2 DEF Encrypt, Encrypted, EncryptResults, EchoInv, CallerInv, TypeOK, NoRow, EchoRow
<1>7. ASSUME NEW c \in Calls, EncryptRetry(c)
      PROVE EchoInv(d)' /\ CallerInv(d)'
  BY <1>7, <1>2 DEF EncryptRetry, Encrypted, EncryptResults, EchoInv, CallerInv, TypeOK, NoRow, EchoRow
<1>8. ASSUME NEW c \in Calls, EncryptShare(c)
      PROVE EchoInv(d)' /\ CallerInv(d)'
  BY <1>8, <1>2 DEF EncryptShare, shareGroupSession, LoadedMembers, EchoInv, CallerInv, TypeOK, NoRow, EchoRow
<1>9. ASSUME NEW c \in Calls, EnsureGroupSessionShared(c)
      PROVE EchoInv(d)' /\ CallerInv(d)'
  BY <1>9, <1>2 DEF EnsureGroupSessionShared, shareGroupSession, LoadedMembers, EchoInv, CallerInv, TypeOK, NoRow, EchoRow
<1>10. ASSUME NEW c \in Calls, Insert(c)
      PROVE EchoInv(d)' /\ CallerInv(d)'
  BY <1>10, <1>2 DEF Insert, EchoInv, CallerInv, TypeOK, NoRow, EchoRow
<1>11. ASSUME NEW c \in Calls, SendMessageEvent(c)
      PROVE EchoInv(d)' /\ CallerInv(d)'
  BY <1>11, <1>2 DEF SendMessageEvent, EchoInv, CallerInv, TypeOK, NoRow, EchoRow
<1>12. ASSUME NEW c \in Calls, UpdateAndComplete(c)
      PROVE EchoInv(d)' /\ CallerInv(d)'
  BY <1>12, <1>2 DEF UpdateAndComplete, Completed, UpdateIDResult, EchoInv, CallerInv, TypeOK, NoRow, EchoRow
<1>13. ASSUME NEW c \in Calls, StopTyping(c)
      PROVE EchoInv(d)' /\ CallerInv(d)'
  BY <1>13, <1>2 DEF StopTyping, UserTyping, EchoInv, CallerInv, TypeOK, NoRow, EchoRow
<1>14. ASSUME NEW r \in Rooms, SetTyping(r) \/ SessionInvalidated(r)
      PROVE EchoInv(d)' /\ CallerInv(d)'
  BY <1>14, <1>2 DEF SetTyping, UserTyping, SessionInvalidated, EchoInv, CallerInv
<1>15. CASE UNCHANGED vars
  BY <1>15, <1>2 DEF vars, EchoInv, CallerInv
<1>16. QED
  BY <1>3, <1>4, <1>5, <1>6, <1>7, <1>8, <1>9, <1>10, <1>11, <1>12, <1>13, <1>14, <1>15, NextCases

\* IInv implies the three safety properties the runs check.
LEMMA IInvSafe ==
    IInv => /\ SendCompleteTruthful
            /\ NoTraceOfFailedSend
            /\ EncryptedRoomsStayEncrypted
<1> SUFFICES ASSUME IInv PROVE /\ SendCompleteTruthful
                               /\ NoTraceOfFailedSend
                               /\ EncryptedRoomsStayEncrypted
  OBVIOUS
<1>1. SendCompleteTruthful
  BY DEF IInv, EchoInv, TypeOK, SendCompleteTruthful
<1>2. NoTraceOfFailedSend
  <2> SUFFICES ASSUME NEW c \in Calls
               PROVE  /\ pc[c] = "failed" =>
                            /\ db[c] = NoRow /\ server[c] = "none"
                            /\ sendPc[c] = "none" /\ ~stopTyping[c]
                      /\ server[c] # "none" => db[c].id # "none"
    BY DEF NoTraceOfFailedSend
  <2>1. EchoInv(c) /\ CallerInv(c) /\ sendPc[c] \in {"none", "sending", "updating", "done"}
    BY DEF IInv, TypeOK
  <2>2. pc[c] = "failed" => db[c] = NoRow /\ server[c] = "none"
                            /\ sendPc[c] = "none" /\ ~stopTyping[c]
    BY <2>1 DEF EchoInv, CallerInv
  <2>3. server[c] # "none" => db[c].id # "none"
    <3>1. CASE sendPc[c] \in {"sending", "updating"}
      BY <2>1, <3>1 DEF EchoInv, EchoRow
    <3>2. CASE sendPc[c] \in {"none", "done"}
      BY <2>1, <3>2 DEF EchoInv
    <3>3. QED
      BY <2>1, <3>1, <3>2
  <2>4. QED
    BY <2>2, <2>3
<1>3. EncryptedRoomsStayEncrypted
  BY DEF IInv, EchoInv, CallerInv, TypeOK, EncryptedRoomsStayEncrypted
<1>4. QED
  BY <1>1, <1>2, <1>3

(***************************************************************************)
(* For every set of calls and rooms: a SendComplete reports success        *)
(* exactly when the homeserver accepted the event and the local echo row   *)
(* carries its ID; a Send that returned an error leaves no row, no event   *)
(* and no goroutine; a message for an encrypted room reaches the           *)
(* homeserver only encrypted.  The argument is the inductive invariant     *)
(* IInv, which follows each call's sender goroutine through its states.    *)
(***************************************************************************)
THEOREM SendSafety ==
    Spec => [](SendCompleteTruthful /\ NoTraceOfFailedSend /\ EncryptedRoomsStayEncrypted)
<1>1. Init => IInv
  BY InitIInv
<1>2. IInv /\ [Next]_vars => IInv'
  BY IInvStep
<1>3. IInv => SendCompleteTruthful /\ NoTraceOfFailedSend /\ EncryptedRoomsStayEncrypted
  BY IInvSafe
<1>4. QED
  BY <1>1, <1>2, <1>3, PTL DEF Spec

\* The SendComplete a client receives reports success exactly when the
\* homeserver accepted the event and its row carries the remote event ID.
THEOREM SendCompleteIsTruthful == Spec => []SendCompleteTruthful
  BY SendSafety, PTL

\* A Send that returned an error leaves no row, no event and no goroutine,
\* and no event reaches the homeserver without a local echo row.
THEOREM FailedSendLeavesNoTrace == Spec => []NoTraceOfFailedSend
  BY SendSafety, PTL

\* A message for an encrypted room reaches the homeserver only encrypted.
THEOREM EncryptedRoomsNeverPlaintext == Spec => []EncryptedRoomsStayEncrypted
  BY SendSafety, PTL

=============================================================================
