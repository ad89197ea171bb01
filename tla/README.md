# Formal models of mautrix-go: hicli sending, bridge commands, bridgev2 backfill, SAS verification

This directory holds TLA+ models of parts of the mautrix-go code under `src/`,
TLC configurations that check them on small instances, and TLAPS proofs of
their main safety properties for every value of the constants.

## The system and its parts

| Part | Source | Module | Status |
|---|---|---|---|
| hicli outbound path: `SendMessage`, `Send`, `Encrypt`, `EnsureGroupSessionShared`, `loadMembers`, `shareGroupSession`, `SetTyping` | `src/unnamed/part_000` lines 35-287 | `HiSend`, proofs in `HiSendProofs` | partly (no `MarkRead`) |
| bridge command wrapper: `FullHandler.Run`, `userHasRoomPermission` | `src/unnamed/part_000` lines 327-383 | `Commands` (with its proof) | partly (help getters left out) |
| bridgev2 forward backfill: `doForwardBackfill`, `sendBackfill`, `sendBatch`, `sendLegacyBackfill` | `src/bridgev2/portalbackfill.go` | `Backfill`, proofs in `BackfillProofs` | modelled |
| SAS device verification: the transaction state machine of both devices | spec.md section 4.3 (the helper is not under `src/`); test scenario in `src/unnamed/part_001` lines 16-292 | `Sas`, abstract `SasOutcome`, proofs in `SasProofs` | modelled from the spec |
| `go.mod` | `src/unnamed/part_001` lines 1-15 | none | not modelled (no behaviour) |

How the parts interact:
- **hicli.** A `Send` runs in its caller's goroutine. For an encrypted room it serialises on `encryptLock` with every other `Encrypt` and `EnsureGroupSessionShared`. It writes a local echo row, starts a goroutine that stops the typing notification, and starts a sender goroutine. The sender calls the homeserver, updates the row and the returned `dbEvt`, and reports `SendComplete` to the event handler.
- **Commands.** The command wrapper is synchronous. Its one remote call is `GetPowerLevels`.
- **Backfill.** One backfill runs as one goroutine. `sendBatch` starts a second goroutine that hands disappearing messages to the `DisappearLoop`.
- **SAS.** Two devices each run one transaction. They talk only through to-device events, which the homeserver queues per device and which each device dispatches one at a time (the test's `DeviceInbox` and `dispatchToDevice`). The users act locally: they accept the request, start SAS, and confirm or reject the codes.

## Modules

### `HiSend`: hicli send and encryption
State:
- `pc`, `op`, `room`, `evtType` and `snapMembers`, per call (one element of `Calls` is one public-method invocation). `snapMembers` is the `roomMeta.HasMemberList` that `Send` read at line 88.
- `lockHolder`: `encryptLock`.
- `hasMemberList` and `memberLoads`, per room: the database flag, and how many times the members were fetched.
- `sessionShared`: an outbound Megolm session exists, is shared and is unexpired.
- `db` and `mem`: the row in the database and the in-memory `dbEvt`, each an `event_id` and a `send_error`.
- `sendPc`, `server` and `sendComplete`: the sender goroutine, what the homeserver accepted, and what the client was told.
- `typing` and `stopTyping`.

Actions follow the code's control flow, with every error return.
- **`Send(c, kind)`**, lines 87-110. It reads the room: an error or an unknown room returns an error. It then branches on `NeedsEncryption` (line 97), where a marshal error also returns.
- **`Lock`**: `encryptLock.Lock`.
- **`Encrypt`**: the first attempt. It ends in ok, a session error (go on to share), or another error (returned).
- **`EncryptShare`**: `shareGroupSession` with the stale room struct. It covers `loadMembers`' early return, the fetch, and the transaction. A fetch, transaction, member query or share error is returned.
- **`EncryptRetry`**: the single retry.
- **`EnsureGroupSessionShared`**, lines 194-208. It reads the room again under the lock.
- **`Insert`**: the marshal and the local echo insert, then both goroutines start.
- **`StopTyping`**: `SetTyping(ctx, roomID, 0)`.
- **`SendMessageEvent`** and **`UpdateAndComplete`**: the sender, lines 148-176. This includes the failing `UpdateSendError` and `UpdateID`, and the deferred `EventHandler`.
- **`SetTyping`**: the user.

`SessionInvalidated` is the Megolm machine expiring a session. It is environment, not code of this repository.

### `Backfill`: forward backfill
The `messages` that `FetchMessages` returns are records of a timestamp, a thread, a number of parts and a disappear flag, in chronological order. That order is the contract of the network connector and is not code here.

`threadMeta` is what `getRelationMeta` finds per thread: nothing, the root only, or the root and its last event. It is constant during one backfill, since the database is not written until after `BatchSend`.

Actions:
- **`doForwardBackfill`** (lines 23-44). It ends on an API without backfilling or a fetch error. Otherwise it enters `sendBackfill`.
- **`CutoffStep`**: one iteration of `sendBackfill`'s cutoff loop (lines 68-74), which records the index of the last message older than the last bridged one.
- **`sendBackfill`** (lines 75-92): the loop is over; it slices `messages[cutoff:]` when `cutoff != 0` and chooses batch or legacy sending.
- **`BatchPart`**: one part of sendBatch's loops, with `ThreadPrev` for lines 110-113.
- **`BatchSend`**: its failure is only logged.
- **`DisappearLoopAdd`**: the goroutine of lines 168-172.
- **`InsertMessage`**: one database insert.
- **`LegacySend`**: one `sendConvertedMessage`, which sends some prefix of the parts.
- **`LegacyMarkRead`**.

### `Commands`: FullHandler.Run
The inputs are the handler's flags, the user's permissions, and the answer of `GetPowerLevels` (an error, or a user level and a needed level). `Run(c)` is one step: the if-chain of lines 370-382, in order. The power levels are fetched only when the first two checks pass and the user is not a bridge admin, because Go's `&&` short-circuits.

### `Sas`: the SAS transaction (spec.md 4.3, modelled from the spec)
State, per side:
- `st`: the state of section 4.3.
- `role`: initiator or responder.
- `commitment`: the key the accept committed to.
- `theirKey`: the peer's ephemeral key as received.
- `confirmed` and `macReceived`: `confirmed_locally` and `mac_received`.
- `trusted`: the trust store.
- `signed`: what cross-signing signed.
- `code`: the cancel reason.
- `inbox`: the device's FIFO queue of to-device events.

Cryptography is reduced to which key an object was made with:
- A key is `EphKey(p)`.
- A commitment is the committed key.
- The shared secret of side s is `{EphKey(s), theirKey[s]}`. The two sides' codes are equal exactly when their secrets are.
- A MAC verifies when it was made with the receiver's secret.

Actions:
- **Local actions.** `AcceptVerification`, `StartSAS`, `ConfirmSAS` (which finishes at once if the peer's MAC came first), `RejectSAS`, and `Cancel` (by the user, or on expiry).
- **Dispatch.** `Dispatch(s)` handles the head of s's queue. It is one of the receive handlers of steps 1-9, or the cancellation of an unexpected event, or the dropping of an event for an ended transaction.
- **Environment.** Mallory (`TamperKey`, `ForgeMac`) and the transport (`Lose`) are environment.

`SasOutcome` is the abstract promise:
- Each side goes once from pending to done or cancelled.
- A done side has verified exactly `PeerKeys[s]`, the keys its peer owns.

`ImplementsOutcome` instantiates `SasOutcome` with this mapping:
- Done becomes done, and Cancelled becomes cancelled.
- `verified` is `trusted` of Done sides.

## Runs

| Run | cfg | Checks | Result |
|---|---|---|---|
| `hisend_safety` | `MC_HiSend.cfg` | `TypeOK`, `EncryptedRoomsStayEncrypted`, `NoTraceOfFailedSend`, `SendCompleteTruthful`, `EncryptLockHeldInside` | pass, 56,496 states |
| `hisend_liveness` | `MC_HiSend_live.cfg` | `SendEventuallyCompletes`, `CallsReturn` | pass, 111,928 states |
| `hisend_member_reload` | `MC_HiSend_members.cfg` | `MemberListLoadedOnce` | violation (finding) |
| `backfill_safety` | `MC_Backfill.cfg` | `TypeOK`, `NothingNewerDropped`, `ThreadEventsChained`, `ReadMarkerAtLastSent` | pass, about 1.07M states |
| `backfill_liveness` | `MC_Backfill_live.cfg` | `DisappearingEventuallyScheduled` | pass, 79,764 states |
| `backfill_cutoff` | `MC_Backfill_cutoff.cfg` | `NoOlderMessageSent` | violation (finding) |
| `backfill_inductive` | `MC_BackfillProofs.cfg` | `BInv` | pass, about 2.54M states |
| `commands_authorization` | `MC_Commands.cfg` | `FuncRunsOnlyWhenAllowed`, `AllowedCommandsRun` | pass, 1,456 states |
| `sas_safety` | `MC_Sas.cfg` | `TypeOK`, `CommitmentDetectsTamper`, `ImplementsOutcome` | pass, 18,068 states |
| `sas_trust` | `MC_Sas_trust.cfg` | `PeerKeysOnlyTrusted` | violation (finding) |
| `sas_liveness` | `MC_Sas_live.cfg` | `BothSidesEnd` | pass, 11,161 states |

What the properties say:
- **EncryptedRoomsStayEncrypted.** Whatever path `Encrypt` takes, a message for an encrypted room reaches the homeserver only as `m.room.encrypted`.
- **NoTraceOfFailedSend.** A `Send` that returned an error left no row, no event and no goroutine, and no event reaches the homeserver without a local echo row.
- **SendCompleteTruthful.** The `SendComplete` error is nil exactly when the homeserver accepted the event and the row carries the remote ID. A failing `UpdateID` after a successful send makes it an error.
- **EncryptLockHeldInside.** A call holds `encryptLock` exactly while it is inside `Encrypt` or `EnsureGroupSessionShared`. So every return path, those through `shareGroupSession` included, unlocks, and no two calls are inside at once.
- **SendEventuallyCompletes.** Every returned local echo is eventually followed by a `SendComplete`.
- **CallsReturn.** Every call returns, so no caller waits forever for `encryptLock`.
- **NothingNewerDropped.** The cutoff only drops messages older than the last bridged one.
- **ThreadEventsChained.** A batch event carries a previous-thread event exactly when the thread is known. That event is the latest earlier event of the same thread in the batch, including earlier parts of the same message, or the database's last thread event.
- **ReadMarkerAtLastSent.** Legacy `MarkRead` targets the last part actually sent.
- **BInv.** The inductive invariant of `BackfillProofs` (below) holds in every reachable state, here with two threads so that one thread's events are chained past another's.
- **DisappearingEventuallyScheduled.** Every disappearing message is eventually handed to the `DisappearLoop`.
- **FuncRunsOnlyWhenAllowed.** `Func` runs only when every requirement is met. In particular, a failed power-level fetch never counts as permission.
- **AllowedCommandsRun.** The converse: a handled command that meets every requirement had `Func` run. A bridge admin is not asked for power levels, and a user at exactly the required level passes the `>=` of line 366.
- **CommitmentDetectsTamper.** An initiator that shows the SAS holds its peer's real ephemeral key. This holds even when Mallory rewrote the key event.
- **ImplementsOutcome.** The transaction refines `SasOutcome`. It holds with Mallory forging MACs and rewriting keys, with lost events, and with cancellations racing the exchange.
- **BothSidesEnd.** On a reliable transport, both sides end. This holds whichever side starts, whichever side confirms first, and when a MAC arrives before confirmation.

Each property of a passing run has a mutant in PROJECT.json. Each mutant is a plausible bug in the mapped code that TLC catches:
- a dropped `Unlock` (against `CallsReturn` and `EncryptLockHeldInside`);
- an inverted reaction test;
- goroutines started after a failed insert;
- an ignored `UpdateID` error;
- a non-deferred `EventHandler`;
- a reversed timestamp comparison in the cutoff loop;
- lines 111-113 removed (twice: against `ThreadEventsChained` and against `BInv`);
- the first part instead of the last;
- a goroutine loop that stops after one message;
- a power-level error treated as permission;
- a strict `>` in `userHasRoomPermission`;
- the MAC attesting the ephemeral key instead of the device key;
- the commitment check dropped;
- the MAC check dropped;
- `ConfirmSAS` ignoring a MAC that came first.

### Findings
1. **Redundant member-list loads** (`hisend_member_reload`). `Send` reads the room at line 88, then waits for `encryptLock`. Meanwhile an `EnsureGroupSessionShared` loads the member list (`HasMemberList` becomes true in the database) and then fails to share. The waiting `Encrypt` gets a session error and calls `shareGroupSession` with its stale struct. `loadMembers`' guard (line 211) passes, and the whole member list is fetched and processed again.
2. **Forward-backfill cutoff off by one** (`backfill_cutoff`). `cutoff` is the index of the last message older than the last bridged one, and `messages[cutoff:]` keeps that message. When only the first message is older, `cutoff` stays 0 and nothing is cut. The log text at line 80 says older messages are cut off. TLC finds a one-message counterexample.
3. **SAS trust written before the codes are compared** (`sas_trust`, a gap in spec.md). Step 7 marks the peer's keys verified as soon as its MAC checks out. This includes a side in SasShown whose user has not yet compared the codes, the case the test drives at `part_001` lines 227-233. Section 5 says the trust store is written only once, at Done. TLC finds an 11-step trace:
   - Mallory replaces the key the responder receives with Mallory's own key.
   - Mallory sends the responder a MAC made with the secret they now share.
   - The responder trusts `DeviceKey(Mallory)`.
   - The codes then differ and the user rejects them, but the trust entry stays.
   - `ImplementsOutcome` still holds, because the abstract outcome only reads the trust store of Done sides.

## Bounds

| Instance | Bounds | Why they are enough |
|---|---|---|
| HiSend | 2 calls; 3 rooms (encrypted, plaintext, unknown); symmetry over calls in the safety run | Two calls are the fewest that contend for `encryptLock` and race on the member list. Every outcome of every collaborator call is enumerated. |
| Backfill safety | ≤ 2 messages of ≤ 2 parts, 1 thread, 3 timestamps | Enough for an older and a newer message, two thread events in one batch, and the chaining of a second part. |
| Backfill inductive | ≤ 2 messages of ≤ 2 parts, 2 threads, 2 timestamps | Two threads are needed for `ChainInv` and `LatestDefined` to say something about events of another thread in between. |
| Backfill liveness | 1 part per message | Keeps the liveness graph small. Two disappearing messages remain possible. |
| Commands | 1 command; levels {0, 50, 100} | Commands do not interact. The levels cover below, equal and above the required level. |
| Sas | 2 devices, one cross-signing, and Mallory; Mallory forges at most one copy of each MAC; cancel reasons user and timeout | Two devices are the protocol. One event of each kind is in flight per step of the exchange, so the queues stay short. Every order of start, confirmation, MAC arrival, cancel, loss and tampering is explored. The forged MAC needs no second copy, since a copy is handled identically. |

## Fairness
- **Goroutines (weak fairness).** Every caller, sender and stop-typing goroutine is weakly fair (`WF`). So are the backfill goroutine and its disappearing-message goroutine. The Go scheduler eventually runs a runnable goroutine.
- **`Lock` (strong fairness).** `Lock` is strongly fair (`SF`). `sync.Mutex` switches to starvation mode after a waiter has waited 1 ms, and then hands the lock to the waiter.
- **No fairness.** The user (`SetTyping`) and the Megolm machine (`SessionInvalidated`) are not required to act.
- **SAS (liveness run only).** The liveness run assumes the following:
  - Dispatch of a non-empty inbox is weakly fair. The test dispatches until both sides are done.
  - The receiving user accepts the request, some user starts SAS, and each user eventually confirms or rejects the codes shown.
  - Cancel, expiry, loss and Mallory are never required. Loss is off in that run, because termination after a loss rests on the expiry timer.

## Proofs (TLAPS)
- **`HiSendProofs`.**
  - `TypeCorrect`: `Spec => []TypeOK`, for any sets of calls and rooms satisfying `RoomsAssumption`.
  - `SendSafety`: the three safety invariants of `hisend_safety`. The corollaries `SendCompleteIsTruthful`, `FailedSendLeavesNoTrace` and `EncryptedRoomsNeverPlaintext` each state one of them.
  - The invariants are not inductive alone. A failed send, for example, is only traceless if calls that are not yet inserted have no sender. The inductive invariant `IInv` is `TypeOK /\ \A c : EchoInv(c) /\ CallerInv(c)`:
    - `EchoInv(c)` ties each sender state (none, sending, updating, done) to the database row, the in-memory row, the homeserver and `sendComplete`.
    - `CallerInv(c)` ties the caller's program point to the sender state and the event type.
  - `IInv` was checked with TLC first. The proof has three lemmas: `InitIInv`, `IInvStep` (one step per action) and `IInvSafe`. Helper lemmas: `RowsClosed`, `LoadedMembersType`, `ShareType` and `TypeStep`.
  - `EncryptLockDiscipline`: `Spec => []EncryptLockHeldInside`. It is inductive together with `TypeOK`. `LockStep` has one case per action: a call outside the locked section that stays outside leaves the lock alone (`OutsideMove`), and one entering or leaving it takes or frees the lock.
- **`Commands`.** `FuncRunsOnlyWhenAllowedHolds` and `AllowedCommandsAreRun`, from the inductive invariant `CInv`: the types of the inputs and of `state`, plus both properties. Its step lemma proves that Run's output is empty exactly when the command meets its requirements with the levels recorded. `Func` ran only if every guard was false, and every guard is false when every requirement holds.

- **`SasProofs`.** Both theorems hold for any devices and cross-signing choice, with or without Mallory and loss.
  - `CommitmentProtects`: `Spec => []CommitmentDetectsTamper`.
  - `OutcomeRefinement`: `Spec => ImplementsOutcome`.
  - Both rest on the inductive invariant `SInv`:
    - every queued event is well formed: an accept carries the committing peer's key, and a MAC attests the peer's own keys or was made with the secret Mallory shares with the receiver;
    - a confirmed side holds its peer's real key;
    - a side that accepted a MAC trusts its peer's keys or holds Mallory's key;
    - a Done side trusts its peer's keys.
  - `SasTypeCorrect`: `Spec => []TypeOK`, from the same `SInv`.
  - `SInv` was checked with TLC first. There is one step lemma per group of actions.
  - For the refinement, `SideStep` says that a step moves at most one side, and never an ended one. `MappedStep` maps such a step, with `DoneInv` in the next state, to `Complete`, `Abandon` or a stutter.

- **`BackfillProofs`.** For any timestamps, threads, `MaxMsgs` in `Nat` and `MaxParts` in `Nat \ {0}` (`BackfillAssumption`):
  - `BackfillTypeCorrect`: `Spec => []TypeOK`;
  - `CutoffDropsOnlyOlder`: `Spec => []NothingNewerDropped`;
  - `BatchThreadsChained`: `Spec => []ThreadEventsChained`;
  - `ReadMarkerIsLastSent`: `Spec => []ReadMarkerAtLastSent`;
  - `BackfillInductiveInvariant`: `Spec => []BInv`, the invariant the `backfill_inductive` run checks.
  - They rest on the inductive invariant `BInv`, checked with TLC first (`backfill_inductive`). Besides the four properties it holds:
    - `Sorted(fetched)`: the connector's chronological order, which the cutoff argument needs;
    - `StartInv`: before and during the cutoff loop nothing has been built, sent, inserted or scheduled;
    - `CutInv`: while the cutoff loop runs, the cursor stays within the fetched messages and a non-zero `cutoff` names an already visited message older than the last bridged one; this is what makes the slice drop only older messages;
    - `BatchInv`: the cursor `(i, j)` of `sendBatch`'s loops stays within the messages and their parts, the events built are bounded by it, and within a message `prevThreadEvent` is the one computed for its first part;
    - `ChainInv`: for each thread, the recorded previous event is set only for threads whose last event is known, and is then the latest related event built so far, or absent exactly when none was built;
    - `LegacyInv`: `lastPart` is the last part sent so far;
    - `LatestDefined`: every non-empty set of earlier related events has a greatest element. `ThreadEventsChained` names that element with `CHOOSE`; that a finite set of numbers has a maximum is an induction over data the provers cannot instantiate, so the invariant carries it from step to step instead.
  - The step lemma has one lemma per action; `BatchPart` is split into lemmas for its effect, its typing, `BatchInv`, the chain and the property. `LatestIs` and `LastSentIs` turn the `CHOOSE` into the element the invariant names.

Only TLC checks these:
- **Liveness.** `SendEventuallyCompletes`, `CallsReturn`, `DisappearingEventuallyScheduled` and `BothSidesEnd` need fairness and `ENABLED`, which the provers do not handle.
- **Reasoning by induction over data.** Where a property would need it (the maximum of a finite set, above), the inductive invariant carries the fact instead; nothing in the project is proved by a recursive definition.

## Not modelled, and abstractions
- **Left out of hicli.** `MarkRead`, and the choice of members (`shouldShareKeysToInvitedUsers`). A possible nil history-visibility row (line 273) is listed as a hazard.
- **Abstracted data.** Content, event IDs and error texts are reduced to the outcomes the code branches on.
- **SAS verification.** The helper is not under `src/`, so `Sas` is modelled from spec.md section 4.3 and its map entries are marked `spec_modelled`. Left out of the model:
  - the negotiation of methods (`unknown_method`);
  - the SAS encoding (section 4.2), which is data only;
  - several concurrent transactions;
  - the erasure of secrets.
- **`go.mod`.** It has no behaviour.
- **Backfill details.** Reactions are a TODO in the code. The `DisappearAt` computation of line 150 is data only.
