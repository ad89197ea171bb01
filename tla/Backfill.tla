------------------------------ MODULE Backfill ------------------------------
(***************************************************************************)
(* Forward backfill of a bridged portal (src/bridgev2/portalbackfill.go):  *)
(* doForwardBackfill fetches the messages after the last bridged one,      *)
(* sendBackfill cuts off those older than it, and either sendBatch builds  *)
(* one batch request (threading each event onto the previous one of its   *)
(* thread), sends it and records the messages, or sendLegacyBackfill sends *)
(* message by message and marks the room read at the last part sent.      *)
(*                                                                         *)
(* One backfill runs at a time; its loops are modelled one iteration per   *)
(* step.  A message is a record of its timestamp, its thread and its       *)
(* number of parts; the network connector, the homeserver and the          *)
(* database are collaborators whose calls may fail.                        *)
(***************************************************************************)
EXTENDS Naturals, Sequences

CONSTANTS
    Times,      \* message timestamps, ordered by <
    Threads,    \* thread root message IDs
    NoThread,   \* msg.ThreadRoot == nil
    MaxMsgs,    \* the most messages FetchMessages returns in a model run
    MaxParts    \* the most parts a converted message has

ASSUME BackfillAssumption ==
    /\ Times \subseteq Nat /\ Times # {}
    /\ NoThread \notin Threads
    /\ MaxMsgs \in Nat /\ MaxParts \in Nat \ {0}

Msgs == [ts : Times, thread : Threads \cup {NoThread}, parts : 1 .. MaxParts,
         disappear : BOOLEAN]

\* The Matrix event of part p of message m of the batch: its ID is derived
\* deterministically from the message and part IDs (line 116).
EvtID(m, p) == <<m, p>>

\* No event: an empty id.EventID or a nil *database.Message.
None == <<0, 0>>

\* The latest thread event the database knows when the batch is built.
DBLast == <<0, 1>>

\* The empty id.EventID sendLegacyBackfill's lastPart starts as.
Empty == <<0, 2>>

\* What getRelationMeta finds of a thread in the database, which the batch
\* does not change: nothing (threadRoot nil), the root only (no previous
\* thread event), or the root and the thread's last event.
ThreadMeta == {"unknown", "root", "last"}

VARIABLES
    pc,               \* which step the backfill goroutine is at
    lastTs,           \* lastMessage.Timestamp
    fetched,          \* resp.Messages
    markRead,         \* resp.MarkRead
    messages,         \* the messages left after the cutoff
    threadMeta,       \* what getRelationMeta finds of each thread
    i, j,             \* the current message and part of a loop
    cutoff,           \* sendBackfill's cutoff (a 0-based index)
    prevThreadEvent,  \* the prevThreadEvent of the current message
    prevThreadEvents, \* the map of line 105
    events,           \* req.Events: [id, thread, prev] per part
    dbMessages,       \* the database.Message rows to insert
    disappearing,     \* the disappearing messages to schedule
    matrix,           \* events the homeserver holds
    inserted,         \* message parts recorded in the database
    scheduled,        \* disappearing messages added to DisappearLoop
    lastPart,         \* sendLegacyBackfill's lastPart
    readMarker        \* the event MarkRead was called with, None if not called

vars == <<pc, lastTs, fetched, markRead, messages, threadMeta, i, j, cutoff,
          prevThreadEvent, prevThreadEvents, events, dbMessages, disappearing,
          matrix, inserted, scheduled, lastPart, readMarker>>

\* The sequences of at most n messages in chronological order, the order
\* FetchMessages returns them in.
Chronological(n) ==
    UNION {{s \in [1 .. k -> Msgs] :
              \A a, b \in 1 .. k : a < b => s[a].ts <= s[b].ts} : k \in 0 .. n}

Init ==
    /\ pc = "fetch"
    /\ lastTs \in Times
    /\ fetched = <<>>
    /\ markRead = FALSE
    /\ messages = <<>>
    /\ threadMeta \in [Threads -> ThreadMeta]
    /\ i = 1 /\ j = 1
    /\ cutoff = 0
    /\ prevThreadEvent = None
    /\ prevThreadEvents = [t \in Threads |-> None]
    /\ events = <<>>
    /\ dbMessages = <<>>
    /\ disappearing = <<>>
    /\ matrix = {}
    /\ inserted = {}
    /\ scheduled = {}
    /\ lastPart = Empty
    /\ readMarker = None

(***************************************************************************)
(* doForwardBackfill, lines 23-44: a network API that cannot backfill, or  *)
(* a failed FetchMessages, ends the backfill; otherwise sendBackfill is    *)
(* called with forceForward and starts its cutoff loop.                    *)
(***************************************************************************)
doForwardBackfill ==
    /\ pc = "fetch"
    /\ \/ /\ pc' = "done"   \* no BackfillingNetworkAPI, or FetchMessages failed
          /\ UNCHANGED <<fetched, markRead>>
       \/ \E ms \in Chronological(MaxMsgs), mr \in BOOLEAN :
            /\ fetched' = ms
            /\ markRead' = mr
            /\ pc' = "cutoff"
    /\ UNCHANGED <<lastTs, messages, threadMeta, i, j, cutoff, prevThreadEvent,
                   prevThreadEvents, events, dbMessages, disappearing, matrix,
                   inserted, scheduled, lastPart, readMarker>>

\* A mutant of CutoffStep whose comparison is the other way round, so that
\* cutoff ends at the last message newer than lastMessage.
CutoffStepReversed ==
    /\ pc = "cutoff"
    /\ i <= Len(fetched)
    /\ cutoff' = IF lastTs < fetched[i].ts THEN i - 1 ELSE cutoff
    /\ i' = i + 1
    /\ UNCHANGED <<pc, lastTs, fetched, markRead, messages, threadMeta, j,
                   prevThreadEvent, prevThreadEvents, events, dbMessages,
                   disappearing, matrix, inserted, scheduled, lastPart,
                   readMarker>>

(***************************************************************************)
(* One iteration of sendBackfill's cutoff loop, lines 70-74: cutoff        *)
(* becomes the (0-based) index of the message if it is older than          *)
(* lastMessage.                                                            *)
(***************************************************************************)
CutoffStep ==
    /\ pc = "cutoff"
    /\ i <= Len(fetched)
    /\ cutoff' = IF fetched[i].ts < lastTs THEN i - 1 ELSE cutoff
    /\ i' = i + 1
    /\ UNCHANGED <<pc, lastTs, fetched, markRead, messages, threadMeta, j,
                   prevThreadEvent, prevThreadEvents, events, dbMessages,
                   disappearing, matrix, inserted, scheduled, lastPart,
                   readMarker>>

(***************************************************************************)
(* The rest of sendBackfill, lines 75-90: a non-zero cutoff keeps          *)
(* messages[cutoff:], and the messages are sent in a batch if the          *)
(* homeserver supports batch sending, one by one otherwise.                *)
(***************************************************************************)
sendBackfill ==
    /\ pc = "cutoff"
    /\ i > Len(fetched)
    /\ messages' = IF cutoff # 0 THEN SubSeq(fetched, cutoff + 1, Len(fetched))
                   ELSE fetched
    /\ \E canBatchSend \in BOOLEAN : pc' = IF canBatchSend THEN "batch" ELSE "legacy"
    /\ i' = 1
    /\ UNCHANGED <<lastTs, fetched, markRead, threadMeta, j, cutoff,
                   prevThreadEvent, prevThreadEvents, events, dbMessages,
                   disappearing, matrix, inserted, scheduled, lastPart,
                   readMarker>>

\* A mutant of ThreadPrev that ignores the batch's own thread events, as if
\* lines 111-113 were missing.
ThreadPrevFromDBOnly(msg) ==
    IF msg.thread # NoThread /\ threadMeta[msg.thread] = "last" THEN DBLast ELSE None

(***************************************************************************)
(* The previous thread event of a message's first part, lines 110-113:     *)
(* getRelationMeta returns the thread's last event in the database when    *)
(* both root and last event are known, nil otherwise, and the latest event *)
(* of the thread already in this batch replaces it.                        *)
(***************************************************************************)
ThreadPrev(msg) ==
    LET hasRoot == msg.thread # NoThread /\ threadMeta[msg.thread] # "unknown"
    IN  IF hasRoot /\ prevThreadEvents[msg.thread] # None
        THEN prevThreadEvents[msg.thread]
        ELSE IF hasRoot /\ threadMeta[msg.thread] = "last" THEN DBLast ELSE None

(***************************************************************************)
(* One iteration of sendBatch's loops, lines 108-158.  At a message's      *)
(* first part, getRelationMeta yields the thread root and, if the root is  *)
(* known, the database's latest thread event, which lines 111-113 replace  *)
(* by the latest event of that thread already in this batch.  Each part is *)
(* appended with the current prevThreadEvent, which then becomes the part  *)
(* itself (lines 144-147).                                                 *)
(***************************************************************************)
BatchPart ==
    /\ pc = "batch"
    /\ i <= Len(messages)
    /\ LET msg == messages[i]
           id == EvtID(i, j)
           hasRoot == msg.thread # NoThread /\ threadMeta[msg.thread] # "unknown"
           prev == IF j > 1 THEN prevThreadEvent ELSE ThreadPrev(msg)
       IN  /\ events' = Append(events, [id |-> id,
                                        thread |-> IF hasRoot THEN msg.thread ELSE NoThread,
                                        prev |-> prev])
           /\ dbMessages' = Append(dbMessages, id)
           /\ disappearing' = IF msg.disappear THEN Append(disappearing, id)
                                               ELSE disappearing
           /\ prevThreadEvent' = IF prev # None THEN id ELSE prev
           /\ prevThreadEvents' = IF prev # None
                                  THEN [prevThreadEvents EXCEPT ![msg.thread] = id]
                                  ELSE prevThreadEvents
           /\ IF j < msg.parts THEN j' = j + 1 /\ i' = i
                               ELSE j' = 1 /\ i' = i + 1
    /\ UNCHANGED <<pc, lastTs, fetched, markRead, messages, threadMeta, cutoff, matrix,
                   inserted, scheduled, lastPart, readMarker>>

\* Lines 163-173: BatchSend (an error is only logged), then a goroutine
\* schedules the disappearing messages; then the insert loop starts.
BatchSend ==
    /\ pc = "batch"
    /\ i > Len(messages)
    /\ \E ok \in BOOLEAN :
        matrix' = IF ok THEN matrix \cup {events[k].id : k \in 1 .. Len(events)}
                        ELSE matrix
    /\ pc' = "insert"
    /\ i' = 1
    /\ UNCHANGED <<lastTs, fetched, markRead, messages, threadMeta, cutoff, j,
                   prevThreadEvent, prevThreadEvents, events, dbMessages,
                   disappearing, inserted, scheduled, lastPart, readMarker>>

\* A mutant of DisappearLoopAdd whose loop stops after the first message.
DisappearLoopAddFirstOnly ==
    /\ pc \in {"insert", "done"}
    /\ Len(disappearing) > 0
    /\ disappearing[1] \notin scheduled
    /\ scheduled' = scheduled \cup {disappearing[1]}
    /\ UNCHANGED <<pc, lastTs, fetched, markRead, messages, threadMeta, cutoff, i, j,
                   prevThreadEvent, prevThreadEvents, events, dbMessages,
                   disappearing, matrix, inserted, lastPart, readMarker>>

\* The goroutine of lines 168-172: DisappearLoop.Add for each message.
DisappearLoopAdd ==
    /\ pc \in {"insert", "done"}
    /\ \E k \in 1 .. Len(disappearing) :
        /\ disappearing[k] \notin scheduled
        /\ scheduled' = scheduled \cup {disappearing[k]}
    /\ UNCHANGED <<pc, lastTs, fetched, markRead, messages, threadMeta, cutoff, i, j,
                   prevThreadEvent, prevThreadEvents, events, dbMessages,
                   disappearing, matrix, inserted, lastPart, readMarker>>

\* One iteration of lines 174-182: Message.Insert; an error is only logged.
InsertMessage ==
    /\ pc = "insert"
    /\ i <= Len(dbMessages)
    /\ \E ok \in BOOLEAN :
        inserted' = IF ok THEN inserted \cup {dbMessages[i]} ELSE inserted
    /\ i' = i + 1
    /\ pc' = IF i = Len(dbMessages) THEN "done" ELSE "insert"
    /\ UNCHANGED <<lastTs, fetched, markRead, messages, threadMeta, cutoff, j,
                   prevThreadEvent, prevThreadEvents, events, dbMessages,
                   disappearing, matrix, scheduled, lastPart, readMarker>>

\* An empty batch has nothing to insert.
InsertNothing ==
    /\ pc = "insert" /\ dbMessages = <<>>
    /\ pc' = "done"
    /\ UNCHANGED <<lastTs, fetched, markRead, messages, threadMeta, cutoff, i, j,
                   prevThreadEvent, prevThreadEvents, events, dbMessages,
                   disappearing, matrix, inserted, scheduled, lastPart,
                   readMarker>>

\* A mutant of NewLastPart that takes the first row sent, not the last.
FirstPartSent(m, n) == IF n > 0 THEN EvtID(m, 1) ELSE lastPart

\* A mutant of NewLastPart without the len(dbMessages) > 0 guard.
LastPartUnguarded(m, n) == EvtID(m, n)

\* Lines 195-197: lastPart becomes the last of the n rows sendConvertedMessage
\* returned for message m, if it returned any.
NewLastPart(m, n) == IF n > 0 THEN EvtID(m, n) ELSE lastPart

(***************************************************************************)
(* One iteration of sendLegacyBackfill's loop, lines 187-201:              *)
(* sendConvertedMessage sends the parts in order and returns the rows of   *)
(* those it sent, which may stop at a failed part; lastPart becomes the    *)
(* last of them, if any.                                                   *)
(***************************************************************************)
LegacySend ==
    /\ pc = "legacy"
    /\ i <= Len(messages)
    /\ \E n \in 0 .. messages[i].parts :
        /\ matrix' = matrix \cup {EvtID(i, p) : p \in 1 .. n}
        /\ inserted' = inserted \cup {EvtID(i, p) : p \in 1 .. n}
        /\ lastPart' = NewLastPart(i, n)
    /\ i' = i + 1
    /\ UNCHANGED <<pc, lastTs, fetched, markRead, messages, threadMeta, cutoff, j,
                   prevThreadEvent, prevThreadEvents, events, dbMessages,
                   disappearing, scheduled, readMarker>>

\* Lines 202-210: if the response asked for it and the user has a double
\* puppet, call MarkRead with lastPart (an error is only logged).
LegacyMarkRead ==
    /\ pc = "legacy"
    /\ i > Len(messages)
    /\ \E hasDoublePuppet \in BOOLEAN :
        readMarker' = IF markRead /\ hasDoublePuppet THEN lastPart ELSE readMarker
    /\ pc' = "done"
    /\ UNCHANGED <<lastTs, fetched, markRead, messages, threadMeta, cutoff, i, j,
                   prevThreadEvent, prevThreadEvents, events, dbMessages,
                   disappearing, matrix, inserted, scheduled, lastPart>>

\* The backfill has returned (the goroutine it started may still run).
Finished ==
    /\ pc = "done"
    /\ UNCHANGED vars

Next ==
    \/ doForwardBackfill \/ CutoffStep \/ sendBackfill
    \/ BatchPart \/ BatchSend \/ DisappearLoopAdd
    \/ InsertMessage \/ InsertNothing \/ LegacySend \/ LegacyMarkRead
    \/ Finished

(***************************************************************************)
(* The backfill goroutine and the one it starts are scheduled by the Go    *)
(* runtime: each, once able to run, eventually runs.                       *)
(***************************************************************************)
Fairness ==
    /\ WF_vars(doForwardBackfill \/ CutoffStep \/ sendBackfill \/ BatchPart
               \/ BatchSend \/ InsertMessage \/ InsertNothing \/ LegacySend \/ LegacyMarkRead)
    /\ WF_vars(DisappearLoopAdd)

Spec == Init /\ [][Next]_vars /\ Fairness

-----------------------------------------------------------------------------
EventIDs == {EvtID(m, p) : m \in 1 .. MaxMsgs, p \in 1 .. MaxParts}

TypeOK ==
    /\ pc \in {"fetch", "cutoff", "batch", "insert", "legacy", "done"}
    /\ lastTs \in Times
    /\ fetched \in Seq(Msgs) /\ messages \in Seq(Msgs)
    /\ markRead \in BOOLEAN
    /\ threadMeta \in [Threads -> ThreadMeta]
    /\ i \in 1 .. MaxMsgs * MaxParts + 1 /\ j \in 1 .. MaxParts
    /\ cutoff \in 0 .. MaxMsgs
    /\ prevThreadEvent \in EventIDs \cup {None, DBLast}
    /\ prevThreadEvents \in [Threads -> EventIDs \cup {None, DBLast}]
    /\ events \in Seq([id : EventIDs, thread : Threads \cup {NoThread},
                       prev : EventIDs \cup {None, DBLast}])
    /\ dbMessages \in Seq(EventIDs) /\ disappearing \in Seq(EventIDs)
    /\ matrix \subseteq EventIDs /\ inserted \subseteq EventIDs
    /\ scheduled \subseteq EventIDs
    /\ lastPart \in EventIDs \cup {Empty}
    /\ readMarker \in EventIDs \cup {Empty, None}

(***************************************************************************)
(* The forward-backfill cutoff (sendBackfill, lines 68-83) drops only     *)
(* messages older than the last bridged one: what is sent is a suffix of   *)
(* what FetchMessages returned, and everything before it is older.         *)
(***************************************************************************)
NothingNewerDropped ==
    pc \notin {"fetch", "cutoff"} =>
        LET d == Len(fetched) - Len(messages)
        IN  /\ d >= 0
            /\ messages = SubSeq(fetched, d + 1, Len(fetched))
            /\ \A k \in 1 .. d : fetched[k].ts < lastTs

(***************************************************************************)
(* The log line of sendBackfill (line 80) says the cutoff removes the      *)
(* "forward backfill messages older than latest bridged message": no      *)
(* message older than the last bridged one is left to send.                *)
(***************************************************************************)
NoOlderMessageSent ==
    \A k \in 1 .. Len(messages) : messages[k].ts >= lastTs

\* The latest of a non-empty set of indices.
Latest(S) == CHOOSE e \in S : \A f \in S : f <= e

\* The events of the batch before k in the same thread that carry a thread
\* relation.
RelatedBefore(k) ==
    {e \in 1 .. k - 1 : events[e].thread = events[k].thread /\ events[e].prev # None}

\* The index of the latest of them, 0 if there is none.
PrevInThread(k) == IF RelatedBefore(k) = {} THEN 0 ELSE Latest(RelatedBefore(k))

(***************************************************************************)
(* sendBatch's thread chaining (lines 105-147): a batch event carries a    *)
(* previous thread event exactly when its thread's root and last event are *)
(* known, and that event is the latest event of the same thread earlier in *)
(* the batch (including earlier parts of the same message), or the         *)
(* database's last thread event if the batch has none.                     *)
(***************************************************************************)
ThreadEventsChained ==
    \A k \in 1 .. Len(events) :
        /\ (events[k].prev # None) <=>
              (events[k].thread # NoThread /\ threadMeta[events[k].thread] = "last")
        /\ events[k].prev # None =>
              events[k].prev = IF PrevInThread(k) = 0 THEN DBLast
                               ELSE events[PrevInThread(k)].id

\* The event of a set sent last: the last part of the last message.
LastSent(S) ==
    CHOOSE e \in S : \A f \in S : f[1] < e[1] \/ (f[1] = e[1] /\ f[2] <= e[2])

(***************************************************************************)
(* sendLegacyBackfill (lines 186-205): when some message part was sent,    *)
(* MarkRead is called with the last part sent of the backfill, whichever   *)
(* messages failed to send in between.                                     *)
(***************************************************************************)
ReadMarkerAtLastSent ==
    readMarker # None /\ matrix # {} => readMarker = LastSent(matrix)

(***************************************************************************)
(* Every disappearing message of a batch is eventually handed to the       *)
(* DisappearLoop by the goroutine of lines 168-172, and the backfill ends. *)
(***************************************************************************)
DisappearingEventuallyScheduled ==
    <>[](pc = "done" /\ \A k \in 1 .. Len(disappearing) : disappearing[k] \in scheduled)

=============================================================================
