---------------------------- MODULE BackfillProofs ----------------------------
(***************************************************************************)
(* Proofs about the forward backfill of module Backfill, for any           *)
(* timestamps, threads and bounds: the state stays well typed, the cutoff  *)
(* drops only older messages, batch events chain onto the previous event  *)
(* of their thread, and the legacy read marker is the last part sent.      *)
(*                                                                         *)
(* None of these is inductive alone.  The induction rests on what each     *)
(* phase of the goroutine has built so far:                                *)
(*  - the cutoff loop has seen messages 1 .. i-1, and cutoff is the index  *)
(*    of the last older one among them;                                    *)
(*  - sendBatch has appended at most MaxParts events per message before i, *)
(*    and prevThreadEvents[t] is the last event of the batch in thread t   *)
(*    that carries a relation, or None if there is none;                   *)
(*  - sendLegacyBackfill has sent parts of messages before i only, and     *)
(*    lastPart is the greatest of them.                                    *)
(***************************************************************************)
EXTENDS Backfill, TLAPS

\* FetchMessages returns the messages in chronological order.
Sorted(s) == \A a, b \in 1 .. Len(s) : a < b => s[a].ts <= s[b].ts

\* The message's thread root and last event are known.
HasLast(msg) == msg.thread # NoThread /\ threadMeta[msg.thread] = "last"

\* Event e of the batch is in thread t and carries a thread relation.
Related(e, t) == events[e].thread = t /\ events[e].prev # None

\* e is the last event of the batch related to thread t.
LastRelated(e, t) ==
    /\ e \in 1 .. Len(events) /\ Related(e, t)
    /\ \A f \in 1 .. Len(events) : Related(f, t) => f <= e

\* lastPart is the greatest event sent (in the order of LastSent), if any.
LastPartInv ==
    /\ matrix = {} => lastPart = Empty
    /\ matrix # {} =>
          /\ lastPart \in matrix
          /\ \A f \in matrix : \/ f[1] < lastPart[1]
                               \/ f[1] = lastPart[1] /\ f[2] <= lastPart[2]

\* Before sendBackfill nothing has been built or sent.
StartInv ==
    /\ pc = "fetch" => fetched = <<>> /\ i = 1 /\ cutoff = 0
    /\ pc \in {"fetch", "cutoff"} =>
          /\ messages = <<>> /\ events = <<>> /\ dbMessages = <<>>
          /\ disappearing = <<>> /\ matrix = {} /\ inserted = {}
          /\ scheduled = {} /\ lastPart = Empty /\ readMarker = None
          /\ j = 1 /\ prevThreadEvent = None
          /\ prevThreadEvents = [t \in Threads |-> None]

\* The cutoff loop has seen fetched[1 .. i-1], and a non-zero cutoff is the
\* (0-based) index of an older message among them.
CutInv ==
    pc = "cutoff" =>
        /\ i \in 1 .. Len(fetched) + 1
        /\ cutoff > 0 => cutoff + 1 <= i - 1 /\ fetched[cutoff + 1].ts < lastTs

\* sendBatch's loops are at part j of message i.
BatchInv ==
    /\ pc = "batch" =>
          /\ i \in 1 .. Len(messages) + 1
          /\ i <= Len(messages) => j <= messages[i].parts
          /\ i = Len(messages) + 1 => j = 1
          /\ Len(events) <= (i - 1) * MaxParts + (j - 1)
          /\ j > 1 => prevThreadEvent = IF HasLast(messages[i])
                                        THEN prevThreadEvents[messages[i].thread]
                                        ELSE None
          /\ j > 1 /\ HasLast(messages[i]) =>
                prevThreadEvents[messages[i].thread] # None
    /\ pc = "insert" => i \in 1 .. Len(dbMessages) + 1
    /\ pc \in {"batch", "insert"} => readMarker = None /\ lastPart = Empty
    /\ Len(dbMessages) = Len(events)
    /\ Len(events) <= MaxMsgs * MaxParts

\* prevThreadEvents[t] is the last related event of thread t in the batch.
ChainAt(t) ==
    /\ prevThreadEvents[t] # None => threadMeta[t] = "last"
    /\ threadMeta[t] = "last" =>
          IF prevThreadEvents[t] = None
          THEN \A e \in 1 .. Len(events) : ~Related(e, t)
          ELSE \E e \in 1 .. Len(events) :
                  LastRelated(e, t) /\ events[e].id = prevThreadEvents[t]

ChainInv == \A t \in Threads : ChainAt(t)

\* sendLegacyBackfill has sent parts of messages before i only.
LegacyInv ==
    /\ pc = "legacy" =>
          /\ i \in 1 .. Len(messages) + 1 /\ readMarker = None
          /\ LastPartInv
          /\ \A f \in matrix : f[1] \in 1 .. i - 1
    /\ readMarker # None => readMarker = lastPart /\ LastPartInv

\* Each earlier-event set of the thread chaining has a latest element, so
\* that PrevInThread names one of its events.  (That every non-empty finite
\* set of naturals has a maximum is an induction the provers cannot do; it
\* is carried here for the sets the batch builds.)
LatestAt(k) ==
    RelatedBefore(k) # {} =>
        \E e \in RelatedBefore(k) : \A f \in RelatedBefore(k) : f <= e

LatestDefined == \A k \in 1 .. Len(events) : LatestAt(k)

\* ThreadEventsChained at event k.
ChainedAt(k) ==
    /\ (events[k].prev # None) <=>
          (events[k].thread # NoThread /\ threadMeta[events[k].thread] = "last")
    /\ events[k].prev # None =>
          events[k].prev = IF PrevInThread(k) = 0 THEN DBLast
                           ELSE events[PrevInThread(k)].id

BInv ==
    /\ TypeOK
    /\ Len(fetched) <= MaxMsgs /\ Sorted(fetched)
    /\ StartInv /\ CutInv /\ BatchInv /\ ChainInv /\ LegacyInv
    /\ NothingNewerDropped
    /\ ThreadEventsChained /\ LatestDefined

-----------------------------------------------------------------------------
(* Facts about the data the model is built from.                          *)

\* What FetchMessages may return is a chronological sequence of messages.
LEMMA ChronologicalSeq ==
    ASSUME NEW n \in Nat, NEW ms \in Chronological(n)
    PROVE  ms \in Seq(Msgs) /\ Len(ms) <= n /\ Sorted(ms)
<1>1. PICK k \in 0 .. n : /\ ms \in [1 .. k -> Msgs]
                          /\ \A a, b \in 1 .. k : a < b => ms[a].ts <= ms[b].ts
  BY DEF Chronological
<1>2. ms \in Seq(Msgs) /\ Len(ms) = k
  BY <1>1
<1>3. QED
  BY <1>1, <1>2 DEF Sorted

\* An element of a sequence is in the sequence's set.
LEMMA SeqElem ==
    ASSUME NEW S, NEW s \in Seq(S), NEW k \in 1 .. Len(s)
    PROVE  s[k] \in S
OBVIOUS

\* The fields of a message.
LEMMA MsgFields ==
    ASSUME NEW m \in Msgs
    PROVE  /\ m.ts \in Times /\ m.thread \in Threads \cup {NoThread}
           /\ m.parts \in 1 .. MaxParts /\ m.disappear \in BOOLEAN
BY DEF Msgs

\* The bound on the batch's length is a natural number.
LEMMA BoundNat == MaxMsgs * MaxParts \in Nat /\ MaxMsgs <= MaxMsgs * MaxParts
BY BackfillAssumption

\* Event IDs are pairs of positive indices, unlike the three markers.
LEMMA EventIDFacts ==
    /\ \A m \in 1 .. MaxMsgs, p \in 1 .. MaxParts : EvtID(m, p) \in EventIDs
    /\ \A e \in EventIDs : e # None /\ e # DBLast /\ e # Empty
    /\ None # DBLast /\ None # Empty /\ DBLast # Empty
BY DEF EvtID, EventIDs, None, DBLast, Empty

\* The latest of a set is the element every other one is at most.
LEMMA LatestIs ==
    ASSUME NEW S \in SUBSET Nat, NEW e \in S, \A f \in S : f <= e
    PROVE  Latest(S) = e
<1>1. Latest(S) \in S /\ \A f \in S : f <= Latest(S)
  BY DEF Latest
<1>2. Latest(S) <= e /\ e <= Latest(S) /\ Latest(S) \in Nat /\ e \in Nat
  BY <1>1
<1>3. QED
  BY <1>2

\* Part j of message i is within the batch's bound when i and j are in range.
LEMMA BatchBound ==
    ASSUME NEW n \in 0 .. MaxMsgs, NEW a \in 1 .. n + 1, NEW b \in 1 .. MaxParts,
           a = n + 1 => b = 1
    PROVE  (a - 1) * MaxParts + (b - 1) <= MaxMsgs * MaxParts
<1>1. CASE a = n + 1
  <2>1. (a - 1) * MaxParts = n * MaxParts /\ n * MaxParts <= MaxMsgs * MaxParts
    BY <1>1, BackfillAssumption
  <2>2. QED
    BY <1>1, <2>1, BackfillAssumption
<1>2. CASE a <= n
  <2>1. (a - 1) * MaxParts + MaxParts = a * MaxParts
    BY BackfillAssumption
  <2>2. a * MaxParts <= n * MaxParts /\ n * MaxParts <= MaxMsgs * MaxParts
    BY <1>2, BackfillAssumption
  <2>3. QED
    BY <2>1, <2>2, BackfillAssumption
<1>3. QED
  BY <1>1, <1>2

-----------------------------------------------------------------------------
(* BInv holds initially and after each action.                            *)

LEMMA InitBInv == Init => BInv
<1> SUFFICES ASSUME Init PROVE BInv
  OBVIOUS
<1>1. TypeOK
  <2>1. pc \in {"fetch", "cutoff", "batch", "insert", "legacy", "done"} /\ lastTs \in Times
    BY DEF Init
  <2>2. fetched \in Seq(Msgs) /\ messages \in Seq(Msgs) /\ markRead \in BOOLEAN
    <3>1. <<>> \in Seq(Msgs)
      OBVIOUS
    <3>2. QED
      BY <3>1 DEF Init
  <2>3. i \in 1 .. MaxMsgs * MaxParts + 1 /\ j \in 1 .. MaxParts /\ cutoff \in 0 .. MaxMsgs
    BY BoundNat, BackfillAssumption DEF Init
  <2>4. prevThreadEvents \in [Threads -> EventIDs \cup {None, DBLast}]
        /\ prevThreadEvent \in EventIDs \cup {None, DBLast}
    BY DEF Init
  <2>5. events \in Seq([id : EventIDs, thread : Threads \cup {NoThread},
                       prev : EventIDs \cup {None, DBLast}])
        /\ dbMessages \in Seq(EventIDs) /\ disappearing \in Seq(EventIDs)
    BY DEF Init
  <2>6. QED
    BY <2>1, <2>2, <2>3, <2>4, <2>5 DEF Init, TypeOK
<1>2. ChainInv /\ ThreadEventsChained /\ LatestDefined
  BY DEF Init, ChainInv, ChainAt, ThreadEventsChained, LatestDefined, LatestAt
<1>3. QED
  BY <1>1, <1>2, BackfillAssumption DEF Init, BInv, Sorted, StartInv, CutInv,
     BatchInv, LegacyInv, NothingNewerDropped

\* A step that leaves the batch and its threads alone keeps the chaining.
LEMMA ChainUnchanged ==
    ASSUME ChainInv, ThreadEventsChained, LatestDefined,
           UNCHANGED <<events, prevThreadEvents, threadMeta>>
    PROVE  ChainInv' /\ ThreadEventsChained' /\ LatestDefined'
<1>1. ChainInv'
  BY DEF ChainInv, ChainAt, LastRelated, Related
<1>2. \A k \in 1 .. Len(events) : RelatedBefore(k)' = RelatedBefore(k)
  BY DEF RelatedBefore
<1>3. QED
  BY <1>1, <1>2 DEF ThreadEventsChained, PrevInThread, LatestDefined, LatestAt

LEMMA FetchStep ==
    ASSUME BInv, doForwardBackfill
    PROVE  BInv'
<1>1. CASE pc' = "done" /\ UNCHANGED <<fetched, markRead>>
  <2>1. ChainInv' /\ ThreadEventsChained' /\ LatestDefined'
    BY ChainUnchanged DEF BInv, doForwardBackfill
  <2>2. QED
    BY <1>1, <2>1 DEF doForwardBackfill, BInv, TypeOK, Sorted, StartInv,
       CutInv, BatchInv, LegacyInv, NothingNewerDropped
<1>2. CASE \E ms \in Chronological(MaxMsgs), mr \in BOOLEAN :
              fetched' = ms /\ markRead' = mr /\ pc' = "cutoff"
  <2>1. PICK ms \in Chronological(MaxMsgs) : fetched' = ms /\ pc' = "cutoff"
                                           /\ markRead' \in BOOLEAN
    BY <1>2
  <2>2. fetched' \in Seq(Msgs) /\ Len(fetched') <= MaxMsgs /\ Sorted(fetched')
    BY <2>1, ChronologicalSeq, BackfillAssumption
  <2>3. ChainInv' /\ ThreadEventsChained' /\ LatestDefined'
    BY ChainUnchanged DEF BInv, doForwardBackfill
  <2>4. QED
    BY <2>1, <2>2, <2>3 DEF doForwardBackfill, BInv, TypeOK, StartInv,
       CutInv, BatchInv, LegacyInv, NothingNewerDropped
<1>3. QED
  BY <1>1, <1>2 DEF doForwardBackfill

LEMMA CutoffStepStep ==
    ASSUME BInv, CutoffStep
    PROVE  BInv'
<1>1. i \in 1 .. Len(fetched) /\ Len(fetched) <= MaxMsgs /\ fetched \in Seq(Msgs)
  BY DEF BInv, CutInv, CutoffStep, TypeOK
<1>2. /\ cutoff' \in 0 .. MaxMsgs /\ i' \in 1 .. MaxMsgs * MaxParts + 1
      /\ i' \in 1 .. Len(fetched) + 1
  <2>1. cutoff' \in {i - 1, cutoff} /\ i' = i + 1
    BY DEF CutoffStep
  <2>2. cutoff \in 0 .. MaxMsgs
    BY DEF BInv, TypeOK
  <2>3. QED
    BY <1>1, <2>1, <2>2, BoundNat, BackfillAssumption
<1>3. CutInv'
  BY <1>1 DEF CutoffStep, BInv, CutInv, TypeOK
<1>4. ChainInv' /\ ThreadEventsChained' /\ LatestDefined'
  BY ChainUnchanged DEF BInv, CutoffStep
<1>5. QED
  BY <1>2, <1>3, <1>4 DEF CutoffStep, BInv, TypeOK, Sorted, StartInv,
     BatchInv, LegacyInv, NothingNewerDropped

\* sendBackfill keeps fetched[cutoff+1 ..], and what it drops is older than
\* the message at cutoff+1, which the loop found older than lastMessage.
LEMMA SendBackfillStep ==
    ASSUME BInv, sendBackfill
    PROVE  BInv'
<1> DEFINE L == Len(fetched)
<1>1. /\ fetched \in Seq(Msgs) /\ L <= MaxMsgs /\ Sorted(fetched)
      /\ i = L + 1 /\ cutoff \in 0 .. L
      /\ cutoff > 0 => cutoff + 1 <= L /\ fetched[cutoff + 1].ts < lastTs
  <2>1. fetched \in Seq(Msgs) /\ L <= MaxMsgs /\ Sorted(fetched)
        /\ cutoff \in 0 .. MaxMsgs /\ pc = "cutoff" /\ i > L
    BY DEF BInv, TypeOK, sendBackfill
  <2>2. /\ i \in 1 .. L + 1
        /\ cutoff > 0 => cutoff + 1 <= i - 1 /\ fetched[cutoff + 1].ts < lastTs
    BY <2>1 DEF BInv, CutInv
  <2>3. QED
    BY <2>1, <2>2
<1>2. messages' = SubSeq(fetched, cutoff + 1, L)
  BY <1>1 DEF sendBackfill
<1>3. messages' \in Seq(Msgs) /\ Len(messages') = L - cutoff
      /\ \A k \in 1 .. Len(messages') : messages'[k] = fetched[cutoff + k]
  BY <1>1, <1>2
<1>4. \A k \in 1 .. cutoff : fetched[k].ts < lastTs
  <2> SUFFICES ASSUME NEW k \in 1 .. cutoff PROVE fetched[k].ts < lastTs
    OBVIOUS
  <2>1. fetched[k].ts <= fetched[cutoff + 1].ts
    BY <1>1 DEF Sorted
  <2>2. fetched[k] \in Msgs /\ fetched[cutoff + 1] \in Msgs
    BY <1>1
  <2>3. fetched[k].ts \in Nat /\ fetched[cutoff + 1].ts \in Nat /\ lastTs \in Nat
    BY <2>2, BackfillAssumption DEF Msgs, BInv, TypeOK
  <2>4. QED
    BY <1>1, <2>1, <2>3
<1>5. NothingNewerDropped'
  <2>1. Len(fetched') - Len(messages') = cutoff /\ fetched' = fetched /\ lastTs' = lastTs
    BY <1>1, <1>3 DEF sendBackfill
  <2>2. /\ cutoff >= 0
        /\ messages' = SubSeq(fetched', cutoff + 1, Len(fetched'))
        /\ \A k \in 1 .. cutoff : fetched'[k].ts < lastTs'
    BY <1>1, <1>2, <1>4, <2>1
  <2>3. QED
    BY <2>1, <2>2 DEF NothingNewerDropped
<1>6. /\ pc' \in {"batch", "legacy"} /\ i' = 1
      /\ UNCHANGED <<lastTs, fetched, markRead, threadMeta, j, cutoff,
                     prevThreadEvent, prevThreadEvents, events, dbMessages,
                     disappearing, matrix, inserted, scheduled, lastPart,
                     readMarker>>
  BY DEF sendBackfill
<1>7. /\ events = <<>> /\ dbMessages = <<>> /\ matrix = {} /\ j = 1
      /\ lastPart = Empty /\ readMarker = None
  BY DEF BInv, StartInv, sendBackfill
<1>8. Len(messages') >= 1 => messages'[1].parts \in 1 .. MaxParts
  <2>1. ASSUME NEW m \in Msgs PROVE m.parts \in 1 .. MaxParts
    BY DEF Msgs
  <2>2. Len(messages') >= 1 => messages'[1] \in Msgs
    BY <1>3
  <2>3. QED
    BY <2>1, <2>2
<1>9. TypeOK'
  BY <1>3, <1>6, BoundNat, BackfillAssumption DEF BInv, TypeOK
<1>10. ChainInv' /\ ThreadEventsChained' /\ LatestDefined'
  BY <1>6, ChainUnchanged DEF BInv
<1>11. (Len(fetched) <= MaxMsgs /\ Sorted(fetched))' /\ StartInv' /\ CutInv'
  BY <1>1, <1>6 DEF StartInv, CutInv, Sorted
<1>12. BatchInv'
  <2>1. Len(events') = 0 /\ Len(dbMessages') = 0 /\ j' = 1 /\ i' = 1
    BY <1>6, <1>7
  <2>2. 0 <= MaxMsgs * MaxParts /\ 0 <= (i' - 1) * MaxParts + (j' - 1)
    BY <2>1, BoundNat, BackfillAssumption
  <2>3. QED
    BY <1>3, <1>6, <1>7, <1>8, <2>1, <2>2 DEF BatchInv
<1>13. LegacyInv'
  BY <1>3, <1>6, <1>7 DEF LegacyInv, LastPartInv
<1>14. QED
  BY <1>5, <1>9, <1>10, <1>11, <1>12, <1>13 DEF BInv

\* Sending the batch adds its events to the homeserver and starts the
\* insert loop; nothing the invariant constrains about the batch changes.
LEMMA BatchSendStep ==
    ASSUME BInv, BatchSend
    PROVE  BInv'
<1>1. {events[k].id : k \in 1 .. Len(events)} \subseteq EventIDs
  <2>1. ASSUME NEW k \in 1 .. Len(events) PROVE events[k].id \in EventIDs
    <3>1. events[k] \in [id : EventIDs, thread : Threads \cup {NoThread},
                         prev : EventIDs \cup {None, DBLast}]
      BY SeqElem DEF BInv, TypeOK
    <3>2. QED
      BY <3>1
  <2>2. QED
    BY <2>1
<1>2. matrix' \subseteq EventIDs
  BY <1>1 DEF BatchSend, BInv, TypeOK
<1>3. i' = 1 /\ pc' = "insert" /\ 1 \in 1 .. MaxMsgs * MaxParts + 1
  BY BoundNat DEF BatchSend
<1>4. ChainInv' /\ ThreadEventsChained' /\ LatestDefined'
  BY ChainUnchanged DEF BInv, BatchSend
<1>5. readMarker = None /\ lastPart = Empty
  BY DEF BInv, BatchInv, BatchSend
<1>6. QED
  BY <1>2, <1>3, <1>4, <1>5 DEF BatchSend, BInv, TypeOK, Sorted, StartInv,
     CutInv, BatchInv, LegacyInv, NothingNewerDropped

\* The disappearing-message goroutine only adds to what is scheduled.
LEMMA DisappearStep ==
    ASSUME BInv, DisappearLoopAdd
    PROVE  BInv'
<1>1. scheduled' \subseteq EventIDs
  <2>1. PICK k \in 1 .. Len(disappearing) : scheduled' = scheduled \cup {disappearing[k]}
    BY DEF DisappearLoopAdd
  <2>2. QED
    BY <2>1 DEF BInv, TypeOK
<1>2. ChainInv' /\ ThreadEventsChained' /\ LatestDefined'
  BY ChainUnchanged DEF BInv, DisappearLoopAdd
<1>3. QED
  BY <1>1, <1>2 DEF DisappearLoopAdd, BInv, TypeOK, Sorted, StartInv,
     CutInv, BatchInv, LegacyInv, LastPartInv, NothingNewerDropped

\* One iteration of the insert loop.
LEMMA InsertMessageStep ==
    ASSUME BInv, InsertMessage
    PROVE  BInv'
<1>1. i \in 1 .. Len(dbMessages) /\ Len(dbMessages) <= MaxMsgs * MaxParts
      /\ dbMessages \in Seq(EventIDs)
  BY DEF BInv, BatchInv, TypeOK, InsertMessage
<1>2. i' = i + 1 /\ i' \in 1 .. MaxMsgs * MaxParts + 1
  BY <1>1, BoundNat DEF InsertMessage
<1>3. inserted' \subseteq EventIDs
  BY <1>1 DEF InsertMessage, BInv, TypeOK
<1>4. pc' \in {"insert", "done"} /\ (pc' = "insert" => i' \in 1 .. Len(dbMessages) + 1)
  BY <1>1, <1>2 DEF InsertMessage
<1>5. ChainInv' /\ ThreadEventsChained' /\ LatestDefined'
  BY ChainUnchanged DEF BInv, InsertMessage
<1>6. readMarker = None /\ lastPart = Empty
  BY DEF BInv, BatchInv, InsertMessage
<1>7. QED
  BY <1>2, <1>3, <1>4, <1>5, <1>6 DEF InsertMessage, BInv, TypeOK, Sorted,
     StartInv, CutInv, BatchInv, LegacyInv, NothingNewerDropped

\* An empty batch ends the backfill.
LEMMA InsertNothingStep ==
    ASSUME BInv, InsertNothing
    PROVE  BInv'
<1>1. ChainInv' /\ ThreadEventsChained' /\ LatestDefined'
  BY ChainUnchanged DEF BInv, InsertNothing
<1>2. readMarker = None
  BY DEF BInv, BatchInv, InsertNothing
<1>3. QED
  BY <1>1, <1>2 DEF InsertNothing, BInv, TypeOK, Sorted, StartInv, CutInv,
     BatchInv, LegacyInv, NothingNewerDropped

\* MarkRead is called, if at all, with the current lastPart.
LEMMA LegacyMarkReadStep ==
    ASSUME BInv, LegacyMarkRead
    PROVE  BInv'
<1>1. readMarker' \in {lastPart, readMarker} /\ readMarker = None /\ LastPartInv
  BY DEF LegacyMarkRead, BInv, LegacyInv
<1>2. lastPart \in EventIDs \cup {Empty}
  BY DEF BInv, TypeOK
<1>3. LegacyInv'
  BY <1>1 DEF LegacyMarkRead, LegacyInv, LastPartInv
<1>4. ChainInv' /\ ThreadEventsChained' /\ LatestDefined'
  BY ChainUnchanged DEF BInv, LegacyMarkRead
<1>5. QED
  BY <1>1, <1>2, <1>3, <1>4 DEF LegacyMarkRead, BInv, TypeOK, Sorted,
     StartInv, CutInv, BatchInv, NothingNewerDropped

\* A step that changes nothing keeps the invariant.
LEMMA StutterStep ==
    ASSUME BInv, UNCHANGED vars
    PROVE  BInv'
<1>1. ChainInv' /\ ThreadEventsChained' /\ LatestDefined'
  BY ChainUnchanged DEF BInv, vars
<1>2. QED
  BY <1>1 DEF vars, BInv, TypeOK, Sorted, StartInv, CutInv, BatchInv,
     LegacyInv, LastPartInv, NothingNewerDropped, HasLast

\* One message of the legacy loop: the parts it sent are the latest sent so
\* far, and lastPart is the last of them.
LEMMA LegacySendStep ==
    ASSUME BInv, LegacySend
    PROVE  BInv'
<1>1. /\ i \in 1 .. Len(messages) /\ Len(messages) <= MaxMsgs
      /\ messages \in Seq(Msgs) /\ readMarker = None /\ LastPartInv
      /\ \A f \in matrix : f[1] \in 1 .. i - 1
  <2>1. i \in 1 .. Len(messages) /\ readMarker = None /\ LastPartInv
        /\ \A f \in matrix : f[1] \in 1 .. i - 1
    BY DEF BInv, LegacyInv, LegacySend
  <2>2. Len(fetched) - Len(messages) >= 0 /\ Len(fetched) <= MaxMsgs
        /\ messages \in Seq(Msgs) /\ fetched \in Seq(Msgs)
    BY DEF BInv, TypeOK, NothingNewerDropped, LegacySend
  <2>3. Len(messages) <= MaxMsgs
    BY <2>2, BackfillAssumption
  <2>4. QED
    BY <2>1, <2>2, <2>3, Zenon
<1>2. messages[i].parts \in 1 .. MaxParts
  BY <1>1, SeqElem, MsgFields
<1>3. PICK n \in 0 .. messages[i].parts :
        /\ matrix' = matrix \cup {EvtID(i, p) : p \in 1 .. n}
        /\ inserted' = inserted \cup {EvtID(i, p) : p \in 1 .. n}
        /\ lastPart' = NewLastPart(i, n)
  BY DEF LegacySend
<1>4. {EvtID(i, p) : p \in 1 .. n} \subseteq EventIDs
  <2>1. i \in 1 .. MaxMsgs /\ 1 .. n \subseteq 1 .. MaxParts
    BY <1>1, <1>2, <1>3, BackfillAssumption
  <2>2. QED
    BY <2>1, EventIDFacts
<1>5. i' = i + 1 /\ i' \in 1 .. MaxMsgs * MaxParts + 1 /\ i' \in 1 .. Len(messages) + 1
  BY <1>1, BoundNat, BackfillAssumption DEF LegacySend
<1>6. lastPart' \in EventIDs \cup {Empty}
  <2>1. n # 0 => EvtID(i, n) \in EventIDs
    BY <1>3, <1>4
  <2>2. QED
    BY <1>3, <2>1 DEF NewLastPart, BInv, TypeOK
<1>7. TypeOK'
  BY <1>3, <1>4, <1>5, <1>6 DEF LegacySend, BInv, TypeOK
<1>8. LastPartInv'
  <2>1. CASE n = 0
    BY <1>1, <1>3, <2>1 DEF NewLastPart, LastPartInv
  <2>2. CASE n # 0
    <3>1. lastPart' = <<i, n>> /\ lastPart' \in matrix'
      BY <1>3, <2>2 DEF NewLastPart, EvtID
    <3>2. ASSUME NEW f \in matrix'
          PROVE  f[1] < i \/ (f[1] = i /\ f[2] <= n)
      BY <1>1, <1>3 DEF EvtID
    <3>3. QED
      BY <3>1, <3>2 DEF LastPartInv
  <2>3. QED
    BY <2>1, <2>2
<1>9. \A f \in matrix' : f[1] \in 1 .. i' - 1
  BY <1>1, <1>3, <1>5 DEF EvtID
<1>10. LegacyInv'
  BY <1>1, <1>5, <1>8, <1>9 DEF LegacySend, LegacyInv
<1>11. ChainInv' /\ ThreadEventsChained' /\ LatestDefined'
  BY ChainUnchanged DEF BInv, LegacySend
<1>12. QED
  BY <1>7, <1>10, <1>11 DEF LegacySend, BInv, Sorted, StartInv, CutInv,
     BatchInv, NothingNewerDropped

-----------------------------------------------------------------------------
(* One iteration of sendBatch's loops.                                     *)

\* The record of a batch event.
EventRec == [id : EventIDs, thread : Threads \cup {NoThread},
             prev : EventIDs \cup {None, DBLast}]

\* The names BatchPart gives to the message, part and event of an iteration.
CurMsg == messages[i]
CurID == EvtID(i, j)
CurHasRoot == CurMsg.thread # NoThread /\ threadMeta[CurMsg.thread] # "unknown"
CurPrev == IF j > 1 THEN prevThreadEvent ELSE ThreadPrev(CurMsg)
CurEvent == [id |-> CurID, thread |-> IF CurHasRoot THEN CurMsg.thread ELSE NoThread,
             prev |-> CurPrev]

\* The previous thread event of a part: at a later part, the one kept from
\* the first part; at the first part, ThreadPrev, where ChainInv rules out a
\* batch event for a thread whose last event is unknown.
LEMMA BatchPartPrev ==
    ASSUME BInv, BatchPart
    PROVE  /\ pc = "batch" /\ i \in 1 .. Len(messages) /\ Len(messages) <= MaxMsgs
           /\ CurMsg \in Msgs /\ j \in 1 .. CurMsg.parts
           /\ Len(events) <= (i - 1) * MaxParts + (j - 1)
           /\ HasLast(CurMsg) => CurMsg.thread \in Threads /\ CurHasRoot
           /\ CurPrev = IF HasLast(CurMsg)
                        THEN IF prevThreadEvents[CurMsg.thread] # None
                             THEN prevThreadEvents[CurMsg.thread] ELSE DBLast
                        ELSE None
<1>1. /\ pc = "batch" /\ i \in 1 .. Len(messages) /\ messages \in Seq(Msgs)
      /\ j <= CurMsg.parts /\ j \in 1 .. MaxParts
      /\ Len(events) <= (i - 1) * MaxParts + (j - 1)
  BY DEF BInv, BatchInv, TypeOK, BatchPart, CurMsg
<1>2. Len(messages) <= MaxMsgs
  <2>1. Len(fetched) - Len(messages) >= 0 /\ Len(fetched) <= MaxMsgs
        /\ fetched \in Seq(Msgs)
    BY <1>1 DEF BInv, TypeOK, NothingNewerDropped
  <2>2. QED
    BY <1>1, <2>1, BackfillAssumption
<1>3. CurMsg \in Msgs /\ CurMsg.thread \in Threads \cup {NoThread}
  BY <1>1, SeqElem, MsgFields DEF CurMsg
<1>4. HasLast(CurMsg) => CurMsg.thread \in Threads /\ CurHasRoot
  BY <1>3 DEF HasLast, CurHasRoot
<1>5. CurPrev = IF HasLast(CurMsg)
                THEN IF prevThreadEvents[CurMsg.thread] # None
                     THEN prevThreadEvents[CurMsg.thread] ELSE DBLast
                ELSE None
  <2>1. CASE j > 1
    <3>1. /\ prevThreadEvent = IF HasLast(CurMsg) THEN prevThreadEvents[CurMsg.thread]
                               ELSE None
          /\ HasLast(CurMsg) => prevThreadEvents[CurMsg.thread] # None
      BY <1>1, <2>1 DEF BInv, BatchInv, CurMsg
    <3>2. CurPrev = prevThreadEvent
      BY <2>1 DEF CurPrev
    <3>3. CASE HasLast(CurMsg)
      BY <3>1, <3>2, <3>3
    <3>4. CASE ~HasLast(CurMsg)
      BY <3>1, <3>2, <3>4
    <3>5. QED
      BY <3>3, <3>4
  <2>2. CASE ~(j > 1)
    <3>1. CurMsg.thread \in Threads /\ prevThreadEvents[CurMsg.thread] # None
            => threadMeta[CurMsg.thread] = "last"
      BY DEF BInv, ChainInv, ChainAt
    <3>2. CurPrev = ThreadPrev(CurMsg)
      BY <2>2 DEF CurPrev
    <3>3. CASE HasLast(CurMsg)
      <4>1. CurMsg.thread # NoThread /\ threadMeta[CurMsg.thread] = "last"
        BY <3>3 DEF HasLast
      <4>2. QED
        BY <3>2, <3>3, <4>1 DEF ThreadPrev
    <3>4. CASE ~HasLast(CurMsg) /\ CurMsg.thread = NoThread
      BY <3>2, <3>4 DEF ThreadPrev
    <3>5. CASE ~HasLast(CurMsg) /\ CurMsg.thread # NoThread
      <4>1. CurMsg.thread \in Threads /\ threadMeta[CurMsg.thread] # "last"
        BY <1>3, <3>5 DEF HasLast
      <4>2. prevThreadEvents[CurMsg.thread] = None
        BY <3>1, <4>1
      <4>3. QED
        BY <3>2, <3>5, <4>1, <4>2 DEF ThreadPrev
    <3>6. QED
      BY <3>3, <3>4, <3>5
  <2>3. QED
    BY <2>1, <2>2
<1>7. QED
  BY <1>1, <1>2, <1>3, <1>4, <1>5

\* What an iteration of sendBatch's loops does, in the names above.
LEMMA BatchPartEffect ==
    ASSUME BInv, BatchPart
    PROVE  /\ CurPrev # None <=> HasLast(CurMsg)
           /\ CurID \in EventIDs /\ CurID # None
           /\ CurEvent \in EventRec
           /\ events' = Append(events, CurEvent)
           /\ dbMessages' = Append(dbMessages, CurID)
           /\ disappearing' \in {Append(disappearing, CurID), disappearing}
           /\ prevThreadEvent' = IF HasLast(CurMsg) THEN CurID ELSE None
           /\ prevThreadEvents' =
                 IF HasLast(CurMsg)
                 THEN [prevThreadEvents EXCEPT ![CurMsg.thread] = CurID]
                 ELSE prevThreadEvents
           /\ j < CurMsg.parts => j' = j + 1 /\ i' = i
           /\ ~(j < CurMsg.parts) => j' = 1 /\ i' = i + 1
           /\ UNCHANGED <<pc, lastTs, fetched, markRead, messages, threadMeta,
                          cutoff, matrix, inserted, scheduled, lastPart, readMarker>>
<1>1. /\ i \in 1 .. Len(messages) /\ Len(messages) <= MaxMsgs
      /\ CurMsg \in Msgs /\ j \in 1 .. CurMsg.parts
      /\ HasLast(CurMsg) => CurMsg.thread \in Threads /\ CurHasRoot
      /\ CurPrev = IF HasLast(CurMsg)
                   THEN IF prevThreadEvents[CurMsg.thread] # None
                        THEN prevThreadEvents[CurMsg.thread] ELSE DBLast
                   ELSE None
  BY BatchPartPrev
<1>2. prevThreadEvents \in [Threads -> EventIDs \cup {None, DBLast}]
  BY DEF BInv, TypeOK
<1>3. CurPrev # None <=> HasLast(CurMsg)
  BY <1>1, EventIDFacts
<1>4. CurPrev \in EventIDs \cup {None, DBLast}
  BY <1>1, <1>2
<1>5. CurID \in EventIDs /\ CurID # None
  <2>1. i \in 1 .. MaxMsgs /\ j \in 1 .. MaxParts
    BY <1>1, MsgFields, BackfillAssumption
  <2>2. QED
    BY <2>1, EventIDFacts DEF CurID
<1>6. CurEvent \in EventRec
  <2>1. (IF CurHasRoot THEN CurMsg.thread ELSE NoThread) \in Threads \cup {NoThread}
    BY <1>1, MsgFields
  <2>2. QED
    BY <1>4, <1>5, <2>1 DEF CurEvent, EventRec
<1>7. /\ events' = Append(events, CurEvent)
      /\ dbMessages' = Append(dbMessages, CurID)
      /\ disappearing' \in {Append(disappearing, CurID), disappearing}
  BY DEF BatchPart, CurEvent, CurMsg, CurID, CurHasRoot, CurPrev
<1>8. /\ prevThreadEvent' = IF CurPrev # None THEN CurID ELSE CurPrev
      /\ prevThreadEvents' =
            IF CurPrev # None
            THEN [prevThreadEvents EXCEPT ![CurMsg.thread] = CurID]
            ELSE prevThreadEvents
  BY DEF BatchPart, CurMsg, CurID, CurPrev
<1>9. /\ j < CurMsg.parts => j' = j + 1 /\ i' = i
      /\ ~(j < CurMsg.parts) => j' = 1 /\ i' = i + 1
      /\ UNCHANGED <<pc, lastTs, fetched, markRead, messages, threadMeta,
                     cutoff, matrix, inserted, scheduled, lastPart, readMarker>>
  BY DEF BatchPart, CurMsg
<1>10. QED
  BY <1>3, <1>5, <1>6, <1>7, <1>8, <1>9

LEMMA BatchPartType ==
    ASSUME BInv, BatchPart
    PROVE  TypeOK'
<1>1. /\ i \in 1 .. Len(messages) /\ Len(messages) <= MaxMsgs
      /\ CurMsg \in Msgs /\ j \in 1 .. CurMsg.parts
  BY BatchPartPrev
<1>2. CurMsg.parts \in 1 .. MaxParts
  BY <1>1, MsgFields
<1>3. i' \in 1 .. MaxMsgs * MaxParts + 1 /\ j' \in 1 .. MaxParts
  <2>1. /\ j < CurMsg.parts => j' = j + 1 /\ i' = i
        /\ ~(j < CurMsg.parts) => j' = 1 /\ i' = i + 1
    BY BatchPartEffect
  <2>2. i \in 1 .. MaxMsgs /\ MaxMsgs + 1 <= MaxMsgs * MaxParts + 1
    BY <1>1, BoundNat, BackfillAssumption
  <2>3. QED
    BY <1>1, <1>2, <2>1, <2>2, BackfillAssumption
<1>4. /\ prevThreadEvent' \in EventIDs \cup {None, DBLast}
      /\ prevThreadEvents' \in [Threads -> EventIDs \cup {None, DBLast}]
  BY BatchPartEffect DEF BInv, TypeOK
<1>5. /\ events' \in Seq(EventRec)
      /\ dbMessages' \in Seq(EventIDs) /\ disappearing' \in Seq(EventIDs)
  <2>1. /\ CurID \in EventIDs /\ CurEvent \in EventRec
        /\ events' = Append(events, CurEvent)
        /\ dbMessages' = Append(dbMessages, CurID)
        /\ disappearing' \in {Append(disappearing, CurID), disappearing}
    BY BatchPartEffect
  <2>2. events \in Seq(EventRec) /\ dbMessages \in Seq(EventIDs)
        /\ disappearing \in Seq(EventIDs)
    BY DEF BInv, TypeOK, EventRec
  <2>3. events' \in Seq(EventRec)
    BY <2>1, <2>2
  <2>4. dbMessages' \in Seq(EventIDs) /\ Append(disappearing, CurID) \in Seq(EventIDs)
    BY <2>1, <2>2
  <2>5. QED
    BY <2>1, <2>2, <2>3, <2>4
<1>6. UNCHANGED <<pc, lastTs, fetched, markRead, messages, threadMeta,
                  cutoff, matrix, inserted, scheduled, lastPart, readMarker>>
  BY BatchPartEffect
<1>7. QED
  BY <1>3, <1>4, <1>5, <1>6 DEF BInv, TypeOK, EventRec

LEMMA BatchPartBatchInv ==
    ASSUME BInv, BatchPart
    PROVE  BatchInv'
<1> DEFINE L == Len(events)
<1>1. /\ i \in 1 .. Len(messages) /\ Len(messages) <= MaxMsgs
      /\ CurMsg \in Msgs /\ j \in 1 .. CurMsg.parts
      /\ L <= (i - 1) * MaxParts + (j - 1)
      /\ HasLast(CurMsg) => CurMsg.thread \in Threads
  BY BatchPartPrev
<1>2. /\ CurID # None
      /\ events' = Append(events, CurEvent)
      /\ dbMessages' = Append(dbMessages, CurID)
      /\ prevThreadEvent' = IF HasLast(CurMsg) THEN CurID ELSE None
      /\ prevThreadEvents' =
            IF HasLast(CurMsg)
            THEN [prevThreadEvents EXCEPT ![CurMsg.thread] = CurID]
            ELSE prevThreadEvents
      /\ j < CurMsg.parts => j' = j + 1 /\ i' = i
      /\ ~(j < CurMsg.parts) => j' = 1 /\ i' = i + 1
      /\ UNCHANGED <<pc, messages, threadMeta, lastPart, readMarker>>
  BY BatchPartEffect
<1>3. /\ messages \in Seq(Msgs) /\ events \in Seq(EventRec)
      /\ dbMessages \in Seq(EventIDs) /\ Len(dbMessages) = L
      /\ prevThreadEvents \in [Threads -> EventIDs \cup {None, DBLast}]
      /\ readMarker = None /\ lastPart = Empty
  BY DEF BInv, TypeOK, BatchInv, EventRec, BatchPart
<1>4. Len(events') = L + 1 /\ Len(dbMessages') = L + 1
  BY <1>2, <1>3
<1>5. CurMsg.parts \in 1 .. MaxParts
  BY <1>1, MsgFields
<1>6. /\ i' \in 1 .. Len(messages) + 1 /\ j' \in 1 .. MaxParts
      /\ i' <= Len(messages) => j' <= messages[i'].parts
      /\ i' = Len(messages) + 1 => j' = 1
      /\ L + 1 <= (i' - 1) * MaxParts + (j' - 1)
  <2>1. CASE j < CurMsg.parts
    <3>1. j' = j + 1 /\ i' = i
      BY <1>2, <2>1
    <3>2. j \in Nat /\ CurMsg.parts \in Nat /\ j + 1 <= CurMsg.parts
      BY <1>1, <1>5, <2>1
    <3>3. i \in 1 .. Len(messages) /\ Len(messages) \in Nat
      BY <1>1, <1>3
    <3>4. i' \in 1 .. Len(messages) + 1 /\ j' \in 1 .. MaxParts
      BY <1>5, <3>1, <3>2, <3>3, BackfillAssumption
    <3>5. i' <= Len(messages) => j' <= messages[i'].parts
      BY <3>1, <3>2 DEF CurMsg
    <3>6. i' # Len(messages) + 1
      BY <3>1, <3>3
    <3>7. L + 1 <= (i' - 1) * MaxParts + (j' - 1)
      BY <1>1, <3>1, <3>2, <3>3, BackfillAssumption
    <3>8. QED
      BY <3>4, <3>5, <3>6, <3>7
  <2>2. CASE ~(j < CurMsg.parts)
    <3>1. j' = 1 /\ i' = i + 1 /\ j = CurMsg.parts
      BY <1>1, <1>2, <1>5, <2>2
    <3>2. i + 1 <= Len(messages) => messages[i + 1].parts \in 1 .. MaxParts
      BY <1>1, <1>3, SeqElem, MsgFields
    <3>3. (i - 1) * MaxParts + MaxParts = i * MaxParts
      BY <1>1, BackfillAssumption
    <3>4. L + 1 <= (i' - 1) * MaxParts + (j' - 1)
      <4>1. (i' - 1) * MaxParts + (j' - 1) = i * MaxParts
        BY <1>1, <3>1, <3>3, BackfillAssumption
      <4>2. L + 1 <= (i - 1) * MaxParts + MaxParts
        BY <1>1, <1>5, <3>1, BackfillAssumption
      <4>3. QED
        BY <3>3, <4>1, <4>2
    <3>5. QED
      BY <1>1, <3>1, <3>2, <3>4, BackfillAssumption
  <2>3. QED
    BY <2>1, <2>2
<1>7. L + 1 <= MaxMsgs * MaxParts
  <2>1. Len(messages) \in 0 .. MaxMsgs /\ L \in Nat
    BY <1>1, <1>3
  <2>2. PICK a \in 1 .. Len(messages) + 1, b \in 1 .. MaxParts : a = i' /\ b = j'
    BY <1>6
  <2>3. /\ a = Len(messages) + 1 => b = 1
        /\ L + 1 <= (a - 1) * MaxParts + (b - 1)
    BY <1>6, <2>2
  <2>4. (a - 1) * MaxParts + (b - 1) <= MaxMsgs * MaxParts
    BY <2>1, <2>3, BatchBound
  <2>5. QED
    BY <2>1, <2>3, <2>4, BoundNat, BackfillAssumption
<1>8. (j > 1 => prevThreadEvent = IF HasLast(messages[i])
                                  THEN prevThreadEvents[messages[i].thread]
                                  ELSE None)'
      /\ (j > 1 /\ HasLast(messages[i]) => prevThreadEvents[messages[i].thread] # None)'
  <2>1. j' > 1 => i' = i
    BY <1>1, <1>2
  <2>2. HasLast(CurMsg) => prevThreadEvents'[CurMsg.thread] = CurID
    BY <1>1, <1>2, <1>3
  <2>3. (HasLast(messages[i]))' = HasLast(CurMsg) \/ j' = 1
    BY <1>2, <2>1 DEF HasLast, CurMsg
  <2>4. j' > 1 => messages'[i'] = CurMsg
    BY <1>2, <2>1 DEF CurMsg
  <2>5. QED
    BY <1>2, <2>1, <2>2, <2>3, <2>4
<1>9. pc' = "batch"
  BY <1>2 DEF BatchPart
<1>10. QED
  BY <1>2, <1>3, <1>4, <1>6, <1>7, <1>8, <1>9 DEF BatchInv

\* The relations of the batch after an iteration: the old events keep
\* theirs, and the new one is related to the message's thread exactly when
\* its last event is known.
LEMMA BatchPartRelated ==
    ASSUME BInv, BatchPart
    PROVE  /\ Len(events') = Len(events) + 1
           /\ \A e \in 1 .. Len(events) : events'[e] = events[e]
           /\ events'[Len(events) + 1] = CurEvent
           /\ \A e \in 1 .. Len(events) + 1, u \in Threads \cup {NoThread} :
                 Related(e, u)' <=>
                    \/ e \in 1 .. Len(events) /\ Related(e, u)
                    \/ e = Len(events) + 1 /\ HasLast(CurMsg) /\ u = CurMsg.thread
<1>1. /\ events' = Append(events, CurEvent)
      /\ CurPrev # None <=> HasLast(CurMsg)
      /\ HasLast(CurMsg) => CurHasRoot
  BY BatchPartEffect, BatchPartPrev
<1>2. events \in Seq(EventRec)
  BY DEF BInv, TypeOK, EventRec
<1>3. /\ Len(events') = Len(events) + 1
      /\ \A e \in 1 .. Len(events) : events'[e] = events[e]
      /\ events'[Len(events) + 1] = CurEvent
  BY <1>1, <1>2
<1>4. ASSUME NEW e \in 1 .. Len(events) + 1, NEW u \in Threads \cup {NoThread}
      PROVE  Related(e, u)' <=>
                \/ e \in 1 .. Len(events) /\ Related(e, u)
                \/ e = Len(events) + 1 /\ HasLast(CurMsg) /\ u = CurMsg.thread
  <2>1. CASE e \in 1 .. Len(events)
    BY <1>3, <2>1 DEF Related
  <2>2. CASE e = Len(events) + 1
    <3>1. Related(e, u)' <=> CurEvent.thread = u /\ CurEvent.prev # None
      BY <1>3, <2>2 DEF Related
    <3>2. CurEvent.prev = CurPrev
      BY DEF CurEvent
    <3>3. HasLast(CurMsg) => CurEvent.thread = CurMsg.thread
      BY <1>1 DEF CurEvent
    <3>4. CurEvent.thread = u /\ CurPrev # None => HasLast(CurMsg) /\ u = CurMsg.thread
      BY <1>1, <3>3
    <3>5. e \notin 1 .. Len(events)
      BY <1>2, <2>2
    <3>6. QED
      BY <1>1, <2>2, <3>1, <3>2, <3>3, <3>4, <3>5
  <2>3. QED
    BY <2>1, <2>2, <1>2
<1>5. QED
  BY <1>3, <1>4

LEMMA BatchPartChain ==
    ASSUME BInv, BatchPart
    PROVE  ChainInv'
<1> DEFINE t == CurMsg.thread
<1>0. PICK n \in Nat : n = Len(events) + 1
  BY DEF BInv, TypeOK
<1>1. /\ Len(events') = n
      /\ \A e \in 1 .. n - 1 : events'[e] = events[e]
      /\ events'[n] = CurEvent
      /\ \A e \in 1 .. n, u \in Threads \cup {NoThread} :
            Related(e, u)' <=> \/ e \in 1 .. n - 1 /\ Related(e, u)
                               \/ e = n /\ HasLast(CurMsg) /\ u = t
  BY <1>0, BatchPartRelated
<1>2. /\ CurID # None
      /\ prevThreadEvents' =
            IF HasLast(CurMsg)
            THEN [prevThreadEvents EXCEPT ![t] = CurID]
            ELSE prevThreadEvents
      /\ threadMeta' = threadMeta
      /\ HasLast(CurMsg) => t \in Threads
  BY BatchPartEffect, BatchPartPrev
<1>3. /\ prevThreadEvents \in [Threads -> EventIDs \cup {None, DBLast}]
      /\ events \in Seq(EventRec) /\ Len(events) = n - 1
  BY <1>0 DEF BInv, TypeOK, EventRec
<1> SUFFICES ASSUME NEW u \in Threads PROVE ChainAt(u)'
  BY DEF ChainInv
<1>4. ChainAt(u)
  BY DEF BInv, ChainInv
<1>5. CASE HasLast(CurMsg) /\ u = t
  <2>1. prevThreadEvents'[u] = CurID /\ threadMeta[u] = "last"
    BY <1>2, <1>3, <1>5 DEF HasLast
  <2>2. LastRelated(n, u)'
    <3>1. Related(n, u)'
      BY <1>0, <1>1, <1>5
    <3>2. \A f \in 1 .. n : Related(f, u)' => f <= n
      BY <1>0
    <3>3. QED
      BY <1>0, <1>1, <3>1, <3>2 DEF LastRelated
  <2>3. events'[n].id = CurID
    BY <1>1 DEF CurEvent
  <2>4. QED
    BY <1>0, <1>1, <1>2, <2>1, <2>2, <2>3 DEF ChainAt
<1>6. CASE ~(HasLast(CurMsg) /\ u = t)
  <2>1. prevThreadEvents'[u] = prevThreadEvents[u]
    BY <1>2, <1>3, <1>6
  <2>2. \A e \in 1 .. n : Related(e, u)' <=> e \in 1 .. n - 1 /\ Related(e, u)
    BY <1>1, <1>6
  <2>3. CASE prevThreadEvents[u] = None
    <3>1. threadMeta[u] = "last" => \A e \in 1 .. n - 1 : ~Related(e, u)
      BY <1>3, <1>4, <2>3 DEF ChainAt
    <3>2. QED
      BY <1>1, <1>2, <2>1, <2>2, <2>3, <3>1 DEF ChainAt
  <2>4. CASE prevThreadEvents[u] # None
    <3>1. threadMeta[u] = "last"
      BY <1>4, <2>4 DEF ChainAt
    <3>2. PICK e \in 1 .. n - 1 : LastRelated(e, u) /\ events[e].id = prevThreadEvents[u]
      BY <1>3, <1>4, <2>4, <3>1 DEF ChainAt
    <3>3. LastRelated(e, u)'
      <4>1. e \in 1 .. n /\ Related(e, u)'
        BY <1>0, <2>2, <3>2 DEF LastRelated
      <4>2. \A f \in 1 .. n : Related(f, u)' => f <= e
        BY <1>3, <2>2, <3>2 DEF LastRelated
      <4>3. QED
        BY <1>1, <4>1, <4>2 DEF LastRelated
    <3>4. events'[e].id = prevThreadEvents'[u]
      BY <1>1, <2>1, <3>2
    <3>5. QED
      BY <1>1, <1>2, <2>1, <2>4, <3>1, <3>3, <3>4 DEF ChainAt
  <2>5. QED
    BY <2>3, <2>4
<1>7. QED
  BY <1>5, <1>6

\* The predecessor of an event of the batch is an earlier event.
LEMMA PrevInThreadEarlier ==
    ASSUME NEW k \in Nat, LatestAt(k), PrevInThread(k) # 0
    PROVE  PrevInThread(k) \in RelatedBefore(k) /\ PrevInThread(k) \in 1 .. k - 1
<1>1. RelatedBefore(k) # {}
  BY DEF PrevInThread
<1>2. PICK e \in RelatedBefore(k) : \A f \in RelatedBefore(k) : f <= e
  BY <1>1 DEF LatestAt
<1>3. RelatedBefore(k) \subseteq 1 .. k - 1
  BY DEF RelatedBefore
<1>4. Latest(RelatedBefore(k)) = e
  BY <1>2, <1>3, LatestIs
<1>5. PrevInThread(k) = e
  BY <1>1, <1>4 DEF PrevInThread
<1>6. QED
  BY <1>2, <1>3, <1>5

\* An iteration chains its event onto the previous related event of the
\* message's thread, and leaves the chaining of the earlier events alone.
LEMMA BatchPartChained ==
    ASSUME BInv, BatchPart
    PROVE  ThreadEventsChained' /\ LatestDefined'
<1> DEFINE t == CurMsg.thread
<1>0. PICK n \in Nat : n = Len(events) + 1
  BY DEF BInv, TypeOK
<1>1. /\ Len(events') = n
      /\ \A e \in 1 .. n - 1 : events'[e] = events[e]
      /\ events'[n] = CurEvent
  BY <1>0, BatchPartRelated
<1>2. /\ CurPrev # None <=> HasLast(CurMsg)
      /\ threadMeta' = threadMeta
      /\ HasLast(CurMsg) => t \in Threads /\ CurHasRoot
      /\ CurPrev = IF HasLast(CurMsg)
                   THEN IF prevThreadEvents[t] # None
                        THEN prevThreadEvents[t] ELSE DBLast
                   ELSE None
      /\ CurMsg.thread \in Threads \cup {NoThread}
  <2>1. CurMsg \in Msgs
    BY BatchPartPrev
  <2>2. QED
    BY <2>1, MsgFields, BatchPartEffect, BatchPartPrev
<1>3. /\ \A k \in 1 .. n - 1 : ChainedAt(k) /\ LatestAt(k)
      /\ ChainInv
  BY <1>0 DEF BInv, ThreadEventsChained, ChainedAt, LatestDefined
<1>4. ASSUME NEW k \in 1 .. n - 1 PROVE ChainedAt(k)' /\ LatestAt(k)'
  <2>1. RelatedBefore(k)' = RelatedBefore(k)
    BY <1>1 DEF RelatedBefore
  <2>2. PrevInThread(k)' = PrevInThread(k)
    BY <2>1 DEF PrevInThread
  <2>3. PrevInThread(k) # 0 => PrevInThread(k) \in 1 .. n - 1
    BY <1>3, PrevInThreadEarlier
  <2>4. events'[k] = events[k]
      /\ (PrevInThread(k) # 0 => events'[PrevInThread(k)] = events[PrevInThread(k)])
    BY <1>1, <2>3
  <2>5. ChainedAt(k)'
    BY <1>2, <1>3, <2>2, <2>4 DEF ChainedAt
  <2>6. QED
    BY <1>3, <2>1, <2>5 DEF LatestAt
<1>5. RelatedBefore(n)' = {e \in 1 .. n - 1 : Related(e, CurEvent.thread)}
  BY <1>0, <1>1 DEF RelatedBefore, Related
<1>6. ChainedAt(n)' /\ LatestAt(n)'
  <2>1. /\ events'[n].prev = CurPrev
        /\ events'[n].thread = IF CurHasRoot THEN t ELSE NoThread
        /\ CurEvent.thread = IF CurHasRoot THEN t ELSE NoThread
    BY <1>1 DEF CurEvent
  <2>2. CASE HasLast(CurMsg) /\ prevThreadEvents[t] = None
    <3>1. \A e \in 1 .. n - 1 : ~Related(e, t)
      BY <1>0, <1>2, <1>3, <2>2 DEF ChainInv, ChainAt, HasLast
    <3>2. RelatedBefore(n)' = {} /\ PrevInThread(n)' = 0
      BY <1>2, <1>5, <2>1, <2>2, <3>1 DEF PrevInThread
    <3>3. CurPrev = DBLast /\ DBLast # None /\ t # NoThread /\ threadMeta[t] = "last"
      BY <1>2, <2>2, EventIDFacts DEF HasLast
    <3>4. QED
      BY <1>2, <2>1, <2>2, <3>2, <3>3 DEF ChainedAt, LatestAt
  <2>3. CASE HasLast(CurMsg) /\ prevThreadEvents[t] # None
    <3>1. PICK e \in 1 .. n - 1 : LastRelated(e, t) /\ events[e].id = prevThreadEvents[t]
      <4>1. threadMeta[t] = "last" /\ t \in Threads
        BY <1>2, <2>3 DEF HasLast
      <4>2. QED
        BY <1>0, <1>3, <2>3, <4>1 DEF ChainInv, ChainAt
    <3>2. RelatedBefore(n)' = {f \in 1 .. n - 1 : Related(f, t)}
      BY <1>2, <1>5, <2>1, <2>3
    <3>3. e \in RelatedBefore(n)' /\ \A f \in RelatedBefore(n)' : f <= e
      BY <1>0, <3>1, <3>2 DEF LastRelated
    <3>4. Latest(RelatedBefore(n)') = e
      <4>1. RelatedBefore(n)' \subseteq Nat
        BY <3>2
      <4>2. QED
        BY <3>3, <4>1, LatestIs
    <3>5. PrevInThread(n)' = e
      BY <3>3, <3>4 DEF PrevInThread
    <3>6. events'[e].id = CurPrev /\ CurPrev # None
      BY <1>1, <1>2, <2>3, <3>1
    <3>7. t # NoThread /\ threadMeta[t] = "last"
      BY <2>3 DEF HasLast
    <3>8. e # 0
      OBVIOUS
    <3>9. QED
      BY <1>2, <2>1, <2>3, <3>3, <3>5, <3>6, <3>7, <3>8 DEF ChainedAt, LatestAt
  <2>4. CASE ~HasLast(CurMsg)
    <3>1. CurPrev = None
      BY <1>2, <2>4
    <3>2. ~(events'[n].thread # NoThread /\ threadMeta[events'[n].thread] = "last")
      BY <1>2, <2>1, <2>4 DEF HasLast, CurHasRoot
    <3>3. RelatedBefore(n)' = {}
      <4>1. SUFFICES ASSUME NEW e \in 1 .. n - 1, Related(e, CurEvent.thread)
                     PROVE  FALSE
        BY <1>5
      <4>2. events[e].prev # None /\ events[e].thread = CurEvent.thread
        BY <4>1 DEF Related
      <4>3. events[e].thread # NoThread /\ threadMeta[events[e].thread] = "last"
        BY <1>3, <4>2 DEF ChainedAt
      <4>4. QED
        BY <1>1, <1>2, <3>2, <4>2, <4>3
    <3>4. QED
      BY <1>2, <2>1, <3>1, <3>2, <3>3 DEF ChainedAt, LatestAt
  <2>5. QED
    BY <2>2, <2>3, <2>4
<1>7. QED
  <2>1. \A k \in 1 .. Len(events') : ChainedAt(k)' /\ LatestAt(k)'
    BY <1>0, <1>1, <1>4, <1>6
  <2>2. QED
    BY <2>1 DEF ThreadEventsChained, ChainedAt, LatestDefined

LEMMA BatchPartStep ==
    ASSUME BInv, BatchPart
    PROVE  BInv'
<1>1. TypeOK' /\ BatchInv' /\ ChainInv' /\ ThreadEventsChained' /\ LatestDefined'
  BY BatchPartType, BatchPartBatchInv, BatchPartChain, BatchPartChained
<1>2. /\ pc = "batch" /\ pc' = "batch" /\ readMarker' = None
      /\ UNCHANGED <<lastTs, fetched, messages>>
  BY DEF BatchPart, BInv, BatchInv
<1>3. (Len(fetched) <= MaxMsgs /\ Sorted(fetched) /\ NothingNewerDropped)'
  <2>1. Len(fetched) <= MaxMsgs /\ Sorted(fetched) /\ NothingNewerDropped
    BY DEF BInv
  <2>2. QED
    BY <1>2, <2>1 DEF Sorted, NothingNewerDropped
<1>4. StartInv' /\ CutInv' /\ LegacyInv'
  BY <1>2 DEF StartInv, CutInv, LegacyInv
<1>5. QED
  BY <1>1, <1>3, <1>4 DEF BInv

-----------------------------------------------------------------------------
(* The invariant and the theorems.                                         *)

LEMMA StepBInv == BInv /\ [Next]_vars => BInv'
<1> SUFFICES ASSUME BInv, [Next]_vars PROVE BInv'
  OBVIOUS
<1>1. CASE doForwardBackfill
  BY <1>1, FetchStep
<1>2. CASE CutoffStep
  BY <1>2, CutoffStepStep
<1>3. CASE sendBackfill
  BY <1>3, SendBackfillStep
<1>4. CASE BatchPart
  BY <1>4, BatchPartStep
<1>5. CASE BatchSend
  BY <1>5, BatchSendStep
<1>6. CASE DisappearLoopAdd
  BY <1>6, DisappearStep
<1>7. CASE InsertMessage
  BY <1>7, InsertMessageStep
<1>8. CASE InsertNothing
  BY <1>8, InsertNothingStep
<1>9. CASE LegacySend
  BY <1>9, LegacySendStep
<1>10. CASE LegacyMarkRead
  BY <1>10, LegacyMarkReadStep
<1>11. CASE Finished \/ UNCHANGED vars
  BY <1>11, StutterStep DEF Finished
<1>12. QED
  BY <1>1, <1>2, <1>3, <1>4, <1>5, <1>6, <1>7, <1>8, <1>9, <1>10, <1>11 DEF Next

(***************************************************************************)
(* For any timestamps, threads and bounds, every state of the forward      *)
(* backfill satisfies BInv: the cutoff loop's index and result, the        *)
(* cursor of sendBatch's loops with the per-thread latest events of lines  *)
(* 105-147, and sendLegacyBackfill's lastPart each describe exactly what   *)
(* has been fetched, built and sent so far.                                *)
(***************************************************************************)
THEOREM BackfillInductiveInvariant == Spec => []BInv
BY InitBInv, StepBInv, PTL DEF Spec

(***************************************************************************)
(* The backfill goroutine's state stays well typed for any timestamps,     *)
(* threads and bounds: in particular every event ID it builds (line 116)   *)
(* is a pair of a message index and a part index within the bounds.        *)
(***************************************************************************)
THEOREM BackfillTypeCorrect == Spec => []TypeOK
BY BackfillInductiveInvariant, PTL DEF BInv

(***************************************************************************)
(* sendBackfill's cutoff loop (lines 68-83) drops only a prefix of older   *)
(* messages: what is sent is the suffix of the fetched messages after the *)
(* last one older than lastMessage, for any sequence FetchMessages returns *)
(* in chronological order.                                                 *)
(***************************************************************************)
THEOREM CutoffDropsOnlyOlder == Spec => []NothingNewerDropped
BY BackfillInductiveInvariant, PTL DEF BInv

(***************************************************************************)
(* sendBatch's thread chaining (lines 105-147) for any batch: an event     *)
(* carries a previous thread event exactly when its thread's root and last *)
(* event are known, and it is the latest related event of its thread       *)
(* earlier in the batch, or the database's last one when there is none.    *)
(***************************************************************************)
THEOREM BatchThreadsChained == Spec => []ThreadEventsChained
BY BackfillInductiveInvariant, PTL DEF BInv

\* The last sent of a set of event IDs is the one no other one follows.
LEMMA LastSentIs ==
    ASSUME NEW S \in SUBSET EventIDs, NEW x \in S,
           \A f \in S : f[1] < x[1] \/ (f[1] = x[1] /\ f[2] <= x[2])
    PROVE  LastSent(S) = x
<1> DEFINE y == LastSent(S)
<1>1. y \in S /\ \A f \in S : f[1] < y[1] \/ (f[1] = y[1] /\ f[2] <= y[2])
  BY DEF LastSent
<1>2. PICK a \in 1 .. MaxMsgs, b \in 1 .. MaxParts : x = <<a, b>>
  BY DEF EventIDs, EvtID
<1>3. PICK c \in 1 .. MaxMsgs, d \in 1 .. MaxParts : y = <<c, d>>
  BY <1>1 DEF EventIDs, EvtID
<1>4. (a < c \/ (a = c /\ b <= d)) /\ (c < a \/ (c = a /\ d <= b))
  BY <1>1, <1>2, <1>3
<1>5. a = c /\ b = d
  BY <1>4, BackfillAssumption
<1>6. QED
  BY <1>2, <1>3, <1>5

\* In every reachable state, a read marker is at the last part sent.
LEMMA BInvReadMarker == BInv => ReadMarkerAtLastSent
<1> SUFFICES ASSUME BInv, readMarker # None, matrix # {}
             PROVE  readMarker = LastSent(matrix)
  BY DEF ReadMarkerAtLastSent
<1>1. readMarker = lastPart /\ lastPart \in matrix
      /\ \A f \in matrix : f[1] < lastPart[1] \/ (f[1] = lastPart[1] /\ f[2] <= lastPart[2])
  BY DEF BInv, LegacyInv, LastPartInv
<1>2. matrix \subseteq EventIDs
  BY DEF BInv, TypeOK
<1>3. QED
  BY <1>1, <1>2, LastSentIs

(***************************************************************************)
(* sendLegacyBackfill (lines 186-205) for any backfill: MarkRead is called *)
(* with the last part sent, whichever messages failed to send in between.  *)
(***************************************************************************)
THEOREM ReadMarkerIsLastSent == Spec => []ReadMarkerAtLastSent
BY BackfillInductiveInvariant, BInvReadMarker, PTL

=============================================================================
