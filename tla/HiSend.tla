------------------------------- MODULE HiSend -------------------------------
(***************************************************************************)
(* The outbound path of hicli (src/unnamed/part_000, package hicli):       *)
(* SendMessage and Send, which write a local echo to the database and then *)
(* send the event from a goroutine; Encrypt and EnsureGroupSessionShared,  *)
(* which serialise Megolm encryption and group-session sharing on          *)
(* encryptLock; shareGroupSession and loadMembers; SetTyping.              *)
(*                                                                         *)
(* Each element of Calls is one invocation of a public method, running in  *)
(* its own goroutine (the caller).  A successful Send spawns two more      *)
(* goroutines: the stop-typing request and the sender.  Content, event     *)
(* IDs and error values are abstracted to the outcomes the code branches   *)
(* on.  The Megolm machine, the homeserver and the database are            *)
(* collaborators: each call to them is a step that may succeed or fail.    *)
(***************************************************************************)
EXTENDS Naturals

CONSTANTS
    Calls,          \* invocations of Send / SendMessage / EnsureGroupSessionShared
    Rooms,          \* room IDs a caller may pass
    KnownRooms,     \* rooms DB.Room.Get finds
    EncryptedRooms, \* rooms whose metadata has an m.room.encryption event
    NoCall,         \* encryptLock is free
    NoRoom          \* the room of a call that has not started

ASSUME RoomsAssumption ==
    /\ KnownRooms \subseteq Rooms
    /\ EncryptedRooms \subseteq KnownRooms
    /\ NoCall \notin Calls
    /\ NoRoom \notin Rooms

VARIABLES
    pc,            \* program point of each caller goroutine
    op,            \* the public method the call invoked
    room,          \* the roomID argument
    evtType,       \* Send's evtType, replaced by "encrypted" after Encrypt
    snapMembers,   \* roomMeta.HasMemberList as read by Send (line 88)
    lockHolder,    \* the holder of h.encryptLock
    hasMemberList, \* the database's room.HasMemberList
    memberLoads,   \* how many times loadMembers fetched a room's member list
    sessionShared, \* an outbound group session exists, is shared and not expired
    db,            \* the local echo row of each call in DB.Event
    mem,           \* the in-memory dbEvt the caller and the sender share
    sendPc,        \* program point of the sender goroutine of each call
    server,        \* the event type the homeserver accepted for each txnID
    sendComplete,  \* the SendComplete delivered to h.EventHandler
    typing,        \* the typing notification the homeserver shows per room
    stopTyping     \* a pending SetTyping(ctx, roomID, 0) goroutine of a call

vars == <<pc, op, room, evtType, snapMembers, lockHolder, hasMemberList,
          memberLoads, sessionShared, db, mem, sendPc, server, sendComplete,
          typing, stopTyping>>

Ops == {"message", "reaction", "ensure"}
PCs == {"idle", "lock", "encrypt", "share", "retry", "ensure", "insert",
        "returned", "ensured", "failed"}
\* A call has returned to its caller.
Returned == {"returned", "ensured", "failed"}
\* The program points at which a call holds encryptLock.
Locked == {"encrypt", "share", "retry", "ensure"}

\* A database row: its event_id (the "~txnID" local echo or the
\* homeserver's ID) and its send_error ("not sent" or the error text).
Rows == [id : {"none", "local", "remote"}, err : {"notSent", "failed"}]
NoRow == [id |-> "none", err |-> "notSent"]
EchoRow == [id |-> "local", err |-> "notSent"]

TypeOK ==
    /\ pc \in [Calls -> PCs]
    /\ op \in [Calls -> Ops]
    /\ room \in [Calls -> Rooms \cup {NoRoom}]
    /\ evtType \in [Calls -> {"message", "reaction", "encrypted"}]
    /\ snapMembers \in [Calls -> BOOLEAN]
    /\ lockHolder \in Calls \cup {NoCall}
    /\ hasMemberList \in [Rooms -> BOOLEAN]
    /\ memberLoads \in [Rooms -> Nat]
    /\ sessionShared \in [Rooms -> BOOLEAN]
    /\ db \in [Calls -> Rows]
    /\ mem \in [Calls -> Rows]
    /\ sendPc \in [Calls -> {"none", "sending", "updating", "done"}]
    /\ server \in [Calls -> {"none", "message", "reaction", "encrypted"}]
    /\ sendComplete \in [Calls -> {"none", "ok", "err"}]
    /\ typing \in [Rooms -> BOOLEAN]
    /\ stopTyping \in [Calls -> BOOLEAN]

Init ==
    /\ pc = [c \in Calls |-> "idle"]
    /\ op = [c \in Calls |-> "message"]
    /\ room = [c \in Calls |-> NoRoom]
    /\ evtType = [c \in Calls |-> "message"]
    /\ snapMembers = [c \in Calls |-> FALSE]
    /\ lockHolder = NoCall
    /\ hasMemberList = [r \in Rooms |-> FALSE]
    /\ memberLoads = [r \in Rooms |-> 0]
    /\ sessionShared = [r \in Rooms |-> FALSE]
    /\ db = [c \in Calls |-> NoRow]
    /\ mem = [c \in Calls |-> NoRow]
    /\ sendPc = [c \in Calls |-> "none"]
    /\ server = [c \in Calls |-> "none"]
    /\ sendComplete = [c \in Calls |-> "none"]
    /\ typing = [r \in Rooms |-> FALSE]
    /\ stopTyping = [c \in Calls |-> FALSE]

SetPc(c, p) == pc' = [pc EXCEPT ![c] = p]

\* Return an error from a point where c does not hold encryptLock.
Fail(c) == SetPc(c, "failed") /\ UNCHANGED lockHolder

\* A mutant of FailLocked without the deferred Unlock.
FailLockedNoUnlock(c) == SetPc(c, "failed") /\ UNCHANGED lockHolder

\* Return an error from inside Encrypt or EnsureGroupSessionShared: the
\* deferred Unlock releases encryptLock.
FailLocked(c) == SetPc(c, "failed") /\ lockHolder' = NoCall

\* A mutant of NeedsEncryption with the reaction test inverted.
NeedsEncryptionInverted(r, kind) == r \in EncryptedRooms /\ kind = "reaction"

\* Send, line 97: the room has an encryption event and the event is not a
\* reaction.
NeedsEncryption(r, kind) == r \in EncryptedRooms /\ kind # "reaction"

(***************************************************************************)
(* Send, lines 87-110: read the room metadata (a database error or an      *)
(* unknown room returns an error); an event of an encrypted room that is   *)
(* not a reaction is marshalled (which may fail) and goes through Encrypt, *)
(* anything else is sent as is.  SendMessage (lines 35-62) renders the     *)
(* text and mentions into a message content and calls Send with            *)
(* event.EventMessage.                                                     *)
(***************************************************************************)
Send(c, kind) ==
    /\ pc[c] = "idle"
    /\ \E r \in Rooms, getOK, marshalOK \in BOOLEAN :
        /\ op' = [op EXCEPT ![c] = kind]
        /\ room' = [room EXCEPT ![c] = r]
        /\ evtType' = [evtType EXCEPT ![c] = kind]
        /\ snapMembers' = [snapMembers EXCEPT ![c] = hasMemberList[r]]
        /\ \/ /\ ~getOK \/ r \notin KnownRooms
              /\ Fail(c)
           \/ /\ getOK /\ r \in KnownRooms /\ NeedsEncryption(r, kind)
              /\ IF marshalOK THEN SetPc(c, "lock") ELSE SetPc(c, "failed")
              /\ UNCHANGED lockHolder
           \/ /\ getOK /\ r \in KnownRooms /\ ~NeedsEncryption(r, kind)
              /\ SetPc(c, "insert") /\ UNCHANGED lockHolder
    /\ UNCHANGED <<hasMemberList, memberLoads, sessionShared, db, mem, sendPc,
                   server, sendComplete, typing, stopTyping>>

SendMessage(c) == Send(c, "message")

(***************************************************************************)
(* EnsureGroupSessionShared is called for a room; it reads the room itself *)
(* once it holds encryptLock (line 201).                                   *)
(***************************************************************************)
StartEnsureGroupSessionShared(c) ==
    /\ pc[c] = "idle"
    /\ \E r \in Rooms :
        /\ op' = [op EXCEPT ![c] = "ensure"]
        /\ room' = [room EXCEPT ![c] = r]
    /\ SetPc(c, "lock")
    /\ UNCHANGED <<evtType, snapMembers, lockHolder, hasMemberList,
                   memberLoads, sessionShared, db, mem, sendPc, server,
                   sendComplete, typing, stopTyping>>

\* h.encryptLock.Lock() at the top of Encrypt and EnsureGroupSessionShared.
Lock(c) ==
    /\ pc[c] = "lock"
    /\ lockHolder = NoCall
    /\ lockHolder' = c
    /\ SetPc(c, IF op[c] = "ensure" THEN "ensure" ELSE "encrypt")
    /\ UNCHANGED <<op, room, evtType, snapMembers, hasMemberList, memberLoads,
                   sessionShared, db, mem, sendPc, server, sendComplete,
                   typing, stopTyping>>

\* The outcomes of Crypto.EncryptMegolmEvent: without a shared, unexpired
\* session it fails with SessionExpired, NoGroupSession or SessionNotShared
\* ("needShare"); it may also fail with any other error.
EncryptResults(r) == IF sessionShared[r] THEN {"ok", "error"}
                                         ELSE {"needShare", "error"}

\* A mutant of Encrypted that records the room where the type belongs.
EncryptedWrongField(c) ==
    /\ evtType' = [evtType EXCEPT ![c] = room[c]]
    /\ SetPc(c, "insert")
    /\ lockHolder' = NoCall

\* Encrypt returned the m.room.encrypted content: Send replaces the event
\* type (line 109) and the deferred Unlock releases encryptLock.
Encrypted(c) ==
    /\ evtType' = [evtType EXCEPT ![c] = "encrypted"]
    /\ SetPc(c, "insert")
    /\ lockHolder' = NoCall

(***************************************************************************)
(* Encrypt, lines 180-192, first attempt: a session error leads to         *)
(* shareGroupSession and one retry; any other error is returned.           *)
(***************************************************************************)
Encrypt(c) ==
    /\ pc[c] = "encrypt"
    /\ \E res \in EncryptResults(room[c]) :
        \/ res = "ok" /\ Encrypted(c)
        \/ res = "needShare" /\ SetPc(c, "share") /\ UNCHANGED <<lockHolder, evtType>>
        \/ res = "error" /\ FailLocked(c) /\ UNCHANGED evtType
    /\ UNCHANGED <<op, room, snapMembers, hasMemberList, memberLoads,
                   sessionShared, db, mem, sendPc, server, sendComplete,
                   typing, stopTyping>>

\* Encrypt, line 187: the retry after the session was shared.
EncryptRetry(c) ==
    /\ pc[c] = "retry"
    /\ \E res \in EncryptResults(room[c]) :
        \/ res = "ok" /\ Encrypted(c)
        \/ res # "ok" /\ FailLocked(c) /\ UNCHANGED evtType
    /\ UNCHANGED <<op, room, snapMembers, hasMemberList, memberLoads,
                   sessionShared, db, mem, sendPc, server, sendComplete,
                   typing, stopTyping>>

\* loadMembers, lines 210-245, when it succeeds: nothing if the room struct
\* it was given says the member list is loaded; otherwise fetch the members
\* and, in one database transaction, store them and set HasMemberList.
LoadedMembers(r, have) ==
    IF have THEN UNCHANGED <<hasMemberList, memberLoads>>
    ELSE /\ hasMemberList' = [hasMemberList EXCEPT ![r] = TRUE]
         /\ memberLoads' = [memberLoads EXCEPT ![r] = @ + 1]

(***************************************************************************)
(* shareGroupSession, lines 247-287, called with encryptLock held and a    *)
(* room struct whose HasMemberList is have: loadMembers (its Members       *)
(* request or its transaction may fail), then the member query and         *)
(* Crypto.ShareGroupSession (either may fail).  Which members receive the  *)
(* session (shouldShareKeysToInvitedUsers) is abstracted away.  On success *)
(* Encrypt retries and EnsureGroupSessionShared returns and unlocks.       *)
(***************************************************************************)
shareGroupSession(c, have) ==
    \/ /\ ~have
       /\ FailLocked(c)
       /\ UNCHANGED <<hasMemberList, memberLoads, sessionShared>>
    \/ /\ LoadedMembers(room[c], have)
       /\ FailLocked(c)
       /\ UNCHANGED sessionShared
    \/ /\ LoadedMembers(room[c], have)
       /\ sessionShared' = [sessionShared EXCEPT ![room[c]] = TRUE]
       /\ IF op[c] = "ensure"
            THEN SetPc(c, "ensured") /\ lockHolder' = NoCall
            ELSE SetPc(c, "retry") /\ UNCHANGED lockHolder

\* Encrypt, line 185: share with the roomMeta Send read before locking.
EncryptShare(c) ==
    /\ pc[c] = "share"
    /\ shareGroupSession(c, snapMembers[c])
    /\ UNCHANGED <<op, room, evtType, snapMembers, db, mem, sendPc, server,
                   sendComplete, typing, stopTyping>>

(***************************************************************************)
(* EnsureGroupSessionShared, lines 194-208, with encryptLock held: a       *)
(* failing session lookup returns an error, a shared unexpired session     *)
(* returns nil, otherwise the room is read again (an error or an unknown   *)
(* room returns an error) and shared with that fresh room struct.          *)
(***************************************************************************)
EnsureGroupSessionShared(c) ==
    /\ pc[c] = "ensure"
    /\ \E lookupOK, getOK \in BOOLEAN :
        \/ ~lookupOK /\ FailLocked(c) /\ UNCHANGED <<hasMemberList, memberLoads, sessionShared>>
        \/ /\ lookupOK /\ sessionShared[room[c]]
           /\ SetPc(c, "ensured") /\ lockHolder' = NoCall
           /\ UNCHANGED <<hasMemberList, memberLoads, sessionShared>>
        \/ /\ lookupOK /\ ~sessionShared[room[c]]
           /\ ~getOK \/ room[c] \notin KnownRooms
           /\ FailLocked(c) /\ UNCHANGED <<hasMemberList, memberLoads, sessionShared>>
        \/ /\ lookupOK /\ ~sessionShared[room[c]] /\ getOK /\ room[c] \in KnownRooms
           /\ shareGroupSession(c, hasMemberList[room[c]])
    /\ UNCHANGED <<op, room, evtType, snapMembers, db, mem, sendPc, server,
                   sendComplete, typing, stopTyping>>

\* A mutant of Insert that starts the goroutines even when the insert failed.
InsertIgnoringError(c) ==
    /\ pc[c] = "insert"
    /\ \E insertOK \in BOOLEAN :
        /\ db' = IF insertOK THEN [db EXCEPT ![c] = EchoRow] ELSE db
        /\ mem' = [mem EXCEPT ![c] = EchoRow]
        /\ sendPc' = [sendPc EXCEPT ![c] = "sending"]
        /\ stopTyping' = [stopTyping EXCEPT ![c] = TRUE]
        /\ SetPc(c, IF insertOK THEN "returned" ELSE "failed")
        /\ UNCHANGED lockHolder
    /\ UNCHANGED <<op, room, evtType, snapMembers, hasMemberList, memberLoads,
                   sessionShared, server, sendComplete, typing>>

(***************************************************************************)
(* Send, lines 111-146 and 177: marshal the content and insert the local   *)
(* echo ("~txnID", send error "not sent"); if either fails, return the     *)
(* error; otherwise start the stop-typing and sender goroutines and return *)
(* dbEvt.                                                                  *)
(***************************************************************************)
Insert(c) ==
    /\ pc[c] = "insert"
    /\ \E insertOK \in BOOLEAN :
        \/ ~insertOK /\ Fail(c) /\ UNCHANGED <<db, mem, sendPc, stopTyping>>
        \/ /\ insertOK
           /\ db' = [db EXCEPT ![c] = EchoRow]
           /\ mem' = [mem EXCEPT ![c] = EchoRow]
           /\ sendPc' = [sendPc EXCEPT ![c] = "sending"]
           /\ stopTyping' = [stopTyping EXCEPT ![c] = TRUE]
           /\ SetPc(c, "returned") /\ UNCHANGED lockHolder
    /\ UNCHANGED <<op, room, evtType, snapMembers, hasMemberList, memberLoads,
                   sessionShared, server, sendComplete, typing>>

\* SetTyping, line 83: the request sets typing exactly when timeout > 0.
UserTyping(r, timeout) == typing' = [typing EXCEPT ![r] = timeout > 0]

\* The goroutine of lines 141-146: SetTyping(ctx, roomID, 0); an error is
\* only logged.
StopTyping(c) ==
    /\ stopTyping[c]
    /\ stopTyping' = [stopTyping EXCEPT ![c] = FALSE]
    /\ \E ok \in BOOLEAN :
        IF ok THEN UserTyping(room[c], 0) ELSE UNCHANGED typing
    /\ UNCHANGED <<pc, op, room, evtType, snapMembers, lockHolder,
                   hasMemberList, memberLoads, sessionShared, db, mem, sendPc,
                   server, sendComplete>>

\* SetTyping, lines 82-85, called by the user with some timeout (in
\* seconds; its size does not matter here).
SetTyping(r) ==
    /\ \E timeout \in 0 .. 1 : UserTyping(r, timeout)
    /\ UNCHANGED <<pc, op, room, evtType, snapMembers, lockHolder,
                   hasMemberList, memberLoads, sessionShared, db, mem, sendPc,
                   server, sendComplete, stopTyping>>

(***************************************************************************)
(* The sender goroutine, lines 155-171: SendMessageEvent with the txnID.   *)
(* On an error dbEvt.SendError is set; on success dbEvt.ID becomes the     *)
(* homeserver's event ID.                                                  *)
(***************************************************************************)
SendMessageEvent(c) ==
    /\ sendPc[c] = "sending"
    /\ \E ok \in BOOLEAN :
        \/ /\ ok
           /\ server' = [server EXCEPT ![c] = evtType[c]]
           /\ mem' = [mem EXCEPT ![c].id = "remote"]
        \/ /\ ~ok
           /\ mem' = [mem EXCEPT ![c].err = "failed"]
           /\ UNCHANGED server
    /\ sendPc' = [sendPc EXCEPT ![c] = "updating"]
    /\ UNCHANGED <<pc, op, room, evtType, snapMembers, lockHolder,
                   hasMemberList, memberLoads, sessionShared, db,
                   sendComplete, typing, stopTyping>>

\* A mutant of UpdateIDResult that ignores UpdateID's error.
UpdateIDResultIgnored(updateOK) == "ok"

\* Lines 172-175: the sender's error after UpdateID.
UpdateIDResult(updateOK) == IF updateOK THEN "ok" ELSE "err"

\* A mutant of Completed whose EventHandler call is skipped on errors, as
\* if it were not deferred.
CompletedOnSuccessOnly(c, res) ==
    sendComplete' = IF res = "ok" THEN [sendComplete EXCEPT ![c] = res]
                    ELSE sendComplete

\* Lines 149-154: the deferred h.EventHandler(&SendComplete{...}).
Completed(c, res) == sendComplete' = [sendComplete EXCEPT ![c] = res]

(***************************************************************************)
(* The rest of the sender, lines 149-154 and 161-175: after a send error,  *)
(* UpdateSendError (its failure is only logged) and report the send error; *)
(* after a success, UpdateID and report its error, if any.  The deferred   *)
(* EventHandler(&SendComplete{...}) runs last on both paths.               *)
(***************************************************************************)
UpdateAndComplete(c) ==
    /\ sendPc[c] = "updating"
    /\ \E updateOK \in BOOLEAN :
        IF mem[c].err = "failed"
        THEN /\ db' = IF updateOK THEN [db EXCEPT ![c].err = "failed"] ELSE db
             /\ Completed(c, "err")
        ELSE /\ db' = IF updateOK THEN [db EXCEPT ![c].id = "remote"] ELSE db
             /\ Completed(c, UpdateIDResult(updateOK))
    /\ sendPc' = [sendPc EXCEPT ![c] = "done"]
    /\ UNCHANGED <<pc, op, room, evtType, snapMembers, lockHolder,
                   hasMemberList, memberLoads, sessionShared, mem, server,
                   typing, stopTyping>>

\* The Megolm machine expires or discards a room's outbound session (its
\* message or age limit, a membership change); not code of this module.
SessionInvalidated(r) ==
    /\ sessionShared[r]
    /\ sessionShared' = [sessionShared EXCEPT ![r] = FALSE]
    /\ UNCHANGED <<pc, op, room, evtType, snapMembers, lockHolder,
                   hasMemberList, memberLoads, db, mem, sendPc, server,
                   sendComplete, typing, stopTyping>>

\* The steps of one call: its caller goroutine, then its sender goroutine.
CallerStep(c) ==
    \/ SendMessage(c) \/ Send(c, "reaction") \/ StartEnsureGroupSessionShared(c)
    \/ Encrypt(c) \/ EncryptShare(c) \/ EncryptRetry(c)
    \/ EnsureGroupSessionShared(c) \/ Insert(c)

SenderStep(c) == SendMessageEvent(c) \/ UpdateAndComplete(c)

Next ==
    \/ \E c \in Calls : CallerStep(c) \/ Lock(c) \/ SenderStep(c) \/ StopTyping(c)
    \/ \E r \in Rooms : SetTyping(r) \/ SessionInvalidated(r)

(***************************************************************************)
(* Goroutines the Go runtime schedules are weakly fair; a goroutine        *)
(* blocked in Lock is strongly fair, since sync.Mutex hands the lock to a  *)
(* waiter that has starved for 1ms.  The user and the Megolm machine are   *)
(* not required to act.                                                    *)
(***************************************************************************)
Fairness ==
    /\ \A c \in Calls : /\ WF_vars(CallerStep(c))
                        /\ SF_vars(Lock(c))
                        /\ WF_vars(SenderStep(c))
                        /\ WF_vars(StopTyping(c))

Spec == Init /\ [][Next]_vars /\ Fairness

-----------------------------------------------------------------------------
(***************************************************************************)
(* Properties.                                                             *)
(***************************************************************************)

\* A message for an encrypted room reaches the homeserver only as an
\* m.room.encrypted event, whichever of Encrypt's paths (first attempt,
\* share and retry, failure) the Send took (Send lines 97-110).
EncryptedRoomsStayEncrypted ==
    \A c \in Calls :
        (server[c] # "none" /\ room[c] \in EncryptedRooms /\ op[c] = "message")
            => server[c] = "encrypted"

\* A Send that returned an error left nothing behind: no local echo row, no
\* event at the homeserver, no sender or stop-typing goroutine; and every
\* event the homeserver got has a local echo row (Send inserts before it
\* starts the sender, lines 136-147).
NoTraceOfFailedSend ==
    \A c \in Calls :
        /\ pc[c] = "failed" =>
              /\ db[c] = NoRow /\ server[c] = "none"
              /\ sendPc[c] = "none" /\ ~stopTyping[c]
        /\ server[c] # "none" => db[c].id # "none"

\* The SendComplete a client receives tells the truth: its Error is nil
\* exactly when the homeserver accepted the event and the local echo row
\* carries the homeserver's event ID (the sender goroutine, lines 148-175).
SendCompleteTruthful ==
    \A c \in Calls :
        sendComplete[c] # "none" =>
            /\ db[c].id # "none"
            /\ (sendComplete[c] = "ok") = (server[c] # "none" /\ db[c].id = "remote")

\* encryptLock is held by a call exactly while that call is inside Encrypt
\* or EnsureGroupSessionShared (lines 180-208): every return path of both,
\* those through shareGroupSession included, runs the deferred Unlock, so
\* the lock is never left held and no two calls are inside at once.
EncryptLockHeldInside ==
    \A c \in Calls : (lockHolder = c) <=> (pc[c] \in Locked)

\* Every Send that returned its local echo is eventually followed by a
\* SendComplete for it (the deferred EventHandler, line 150).
SendEventuallyCompletes ==
    \A c \in Calls : (pc[c] = "returned") ~> (sendComplete[c] # "none")

\* Every call of Send or EnsureGroupSessionShared returns: no caller waits
\* forever for encryptLock (the deferred Unlocks, lines 182 and 196).
CallsReturn ==
    \A c \in Calls : (pc[c] # "idle") ~> (pc[c] \in Returned)

\* loadMembers fetches a room's member list at most once: its guard on
\* room.HasMemberList (line 211) is meant to skip rooms already loaded.
MemberListLoadedOnce ==
    \A r \in Rooms : memberLoads[r] <= 1

=============================================================================
