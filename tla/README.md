# Verification of the offline inspection sync

TLA+ models of the offline-first inspection system in this repository, the TLC
runs that check small instances of them, and TLAPS proofs of what matters most
for every instance. Paths below are relative to the repository.

## 1. The system

Field devices edit inspections offline and synchronise with a Go server that
keeps its state in PostgreSQL and photos in MinIO.

| component | state | operations | hard behaviour |
|---|---|---|---|
| **Sync server** `backend/internal/api/handlers_sync.go`, `models.go` | `inspections`, `field_revs`, `conflicts`, `processed_ops` | `POST /api/sync`: a batch of ops (`upsert`, `delete`, `resolve_conflict`), each in a transaction of its own; `POST /api/conflicts/{id}/resolve` (the same path with one op) | redelivered and concurrent ops, several devices per inspection, lost commits, crashes between ops |
| **Decision procedure** same files | none (pure) | three-way merge per field, conflicts, tombstones, submit gate, replay | order of the checks, self-conflicts, operations that skip a check |
| **Upload handlers** `handlers_uploads.go`, `store/store.go` | `attachments`, `upload_parts`, MinIO's multipart uploads | create, put part, status, complete | database and MinIO change in separate steps; retries after lost answers |
| **Client upload loop** `frontend/src/offline/store.js` 126-222 | one IndexedDB record per photo | `stagePhoto`, `processUploads`, `_uploadOne` | restarts, overlapping cycles, stale copies of records |
| **Client outbox** `store.js`, `merge.js`, `db.js` | ops, snapshots | `stageOp`, `stageCreate`, `stageDelete`, `resolveConflict`, `syncOps`, `pull`, `login`, `logout` | bases computed from a queue, lost answers, stale snapshots, wall-clock order |
| **Read endpoints** `handlers_inspection.go` | none | list, detail | snapshots read outside the writers' transactions |
| **Authentication** `auth/`, `handlers_auth.go`, `server.go` | signing key | login, `auth` middleware | none of state |
| **Seed and migration** `db/db.go`, `db/migrations` | schema, demo rows | run at boot | none once started |
| **UI / PWA** `App.jsx`, `components/` | view state | calls into the store | none of its own |

How they interact: the UI calls the store; `fullSync` runs the upload loop, then
pushes the outbox with `POST /api/sync`, then pulls snapshots. The sync handlers
and the upload handlers meet in one place: the submit gate counts an
inspection's incomplete attachments, and the foreign key of `attachments` takes
a share lock on the inspection. Everything else they share is the network,
which loses requests and answers.

What makes each part correct:

* sync server: an op takes effect at most once and its answer agrees with the
  ledger; a server value is never overwritten without its author having seen it
  or a human choosing; conflicts end by choice; tombstones hold; an inspection
  is not submitted with incomplete attachments; every request ends;
* uploads: a completed attachment has the whole photo; the ledger claims no part
  MinIO lacks; a photo the device shows as uploaded is; every photo is uploaded
  in the end, wherever the upload was interrupted;
* outbox: no edit is lost, none is shown as saved that is not, a parked conflict
  waits for a human, chains of offline edits apply without conflicts of their
  own, every op is decided and every device ends with the server's rows.

## 2. Modules

| module | what it is |
|---|---|
| `SyncRules` | the decision procedure as pure operators: `Outcome(user, op, row, waiting)` is what one op does to one inspection, and `Entry`, `MarkDuplicate` what the ledger keeps and replays |
| `AtomicSync` | the abstract specification: every op is decided in one step against the state at that step, and its outcome enters the ledger with its effect |
| `SyncServer` | the handlers as they run: connections, batches, advisory and row locks, rollback, failures; shown to implement `AtomicSync` |
| `MCSyncServer` | scenarios (payload functions and requests) for TLC |
| `SyncRulesProofs` | facts about `Outcome` for every op, row and user |
| `SyncServerProofs` | the inductive invariant of `SyncServer` and the theorems about it |
| `SyncServerSteps` | the theorems that a step of `SyncServer` may never break |
| `SyncServerRefinement` | the theorem that `SyncServer` implements `AtomicSync` |
| `SyncServerLedger` | the theorems about what the server's ledger holds: answers, and the origin of values and conflicts |
| `Uploads` | upload loop, upload handlers and MinIO |
| `UploadsProofs` | the inductive invariant of `Uploads` and the theorems about it |
| `MCUploads` | symmetry for TLC |
| `OfflineSync` | devices, their outboxes and snapshots, their sync cycles and the network, composed with `AtomicSync` |
| `OfflineSyncProofs` | the inductive invariant of `OfflineSync` and the theorems about it |
| `OfflineSyncOrder` | the theorems about the order in which a device absorbs what happened to its own ops |
| `MCOfflineSync` | scenarios (who may mint which payload) and bounds for TLC |

### Correspondence of `SyncServer`

An inspection is one record (`Row`): its row in `inspections`, its `field_revs`
(`val`, `by`) and its open `conflicts`, which the code reads and writes under
the row's lock. Fields are the constants `Editable`; the column and the lineage
value of a field are always written together (`writeField`), so there is one
`val`. A payload is what the constant `OpOf` gives an op id: the client keeps
one op id per mutation and resends the same body. `waiting` is the set of
inspections with an attachment that is not completed.

A handler goes through the places

    idle -> next -> ledger -> load -> decide -> commit -> next ... -> idle

`next` is the loop of `sync`; `LockOp` is BEGIN and the advisory lock;
`Replay`/`FirstDelivery` the two ledger queries (one step: the advisory lock
excludes every writer of that entry); `LoadRow` the `SELECT ... FOR UPDATE`;
`Decide` the rest of `applyOpTx`, up to and including the gate's count; `Create`
the same when it ends in the INSERT of a new inspection, which waits for
a concurrent INSERT of that id; `Commit` the ledger INSERT and COMMIT. `Fail`
is any statement failing, `CommitUnacked` a commit whose acknowledgement was
lost, `Abandon` the client or the server going away. Merging the statements
after the load into one step loses nothing, since what they read is under the
row's lock, except attachments: the gate reads them at one moment, `Decide`,
and `DecisionIsFresh` says that the answer still holds at the commit.

`RecordConflict` opens a conflict. The statement of `recordConflict` that should
refresh one that is open (`handlers_sync.go` 411-413) passes a parameter it does
not use, whose type PostgreSQL cannot determine (error 42P18), so it fails each
time and the operation with it (`CannotRefresh`, `MergeOrFail`): a second losing
edit of a field is rolled back and answered `error`, and not ledgered.

PostgreSQL is external and modelled by what the code uses: READ COMMITTED
statements, advisory locks keyed by a 32-bit hash (`Hash`, where collisions are
allowed), row locks only on rows that exist, share locks of foreign keys, unique
keys, locks that end with the transaction.

`ApplyToNothing` in `AtomicSync` is the one concession of the abstract
specification: `FOR UPDATE` locks nothing when there is no row, so an op that
found no inspection and writes none (a delete, an invalid op, a resolution) may
be recorded after another op created the inspection. In a serial order it comes
before the creation; its ledger entry is just written later.

### Correspondence of `Uploads`

`att` and `ledger` are the tables `attachments` and `upload_parts`, `multi`,
`stored` and `object` what MinIO holds. A request is at a step (`at`), one per
access to the database or to MinIO. `rec` is IndexedDB; `cyc` the local
variables of a running `processUploads`, which works on copies (`list`) of the
records; two cycles model two tabs, or two `fullSync` calls that both passed
the test of `_syncing` before either set it. `NetworkFails` loses a request or
an answer while the handler may go on or be cancelled (`ServerFails`), `Reload`
ends a cycle at any await. The catch block of `processUploads` is two steps,
`OnError` and `Mark`, as it reads a record, awaits, and writes it back. The part
bytes, sizes and captions are left out; part
numbers are `1..NumParts`. Tests of owner, tombstone and existence by
`createUpload` are among its failures.

### Correspondence of `OfflineSync`

The server is `AtomicSync` (`Server`), which `SyncServer` is shown to implement,
so a request's ops are processed one by one in `Serve` without locks. A device
is its IndexedDB: `session` (the token's user), `snap` (store `entities`) and
`box` (store `ops`); `at` is `created_at`. An op's payload is `OpOf`, and `Home`
says which device may mint it: a device mints the op whose base is the one
`baseAfterOps` computes, so the constants list the edits users may make and the
code decides which of them come about. `writing` are the edits between
`getEntity` and `makeOp` in `stageOp`; the other staging operations read
nothing before they enqueue.

A cycle (`fullSync` after its upload phase) goes through the places

    idle -> send -> wait -> absorb -> save [-> sweep] ... -> list -> conflicts -> read -> merge -> idle

`SyncOps` reads the due ops and sends them; `AbsorbResult` stores the snapshot
of a result and does the `get` of `updateOp`, `UpdateOp` its `put`; `Sweep` is
the loop after a resolution; `ListRows` and `ListConflicts` are the two
statements of the list that a snapshot consists of; `ReadLocal` is pull's copy
of the outbox and `MergeSnapshot` one round of its loop. The loops over the
records of one inspection (in `Sweep`, `MergeSnapshot` and `DiscardOps`) are
single steps. Two cycles of a device are two tabs, or two `fullSync` calls that
both passed the test of `_syncing`.

`request` are the handlers at work. One whose client is gone (`by = None`) may
go on, or end at any time, since the request's context is cancelled.
`NetworkFails` is status 0: the outbox is left alone and the pull follows.
`RequestFails` is a 5xx ("unavailable") or any other failure ("refused": 4xx, an
expired token, an answer cut off while it is read), as the catch block of
`syncOps` tells them apart. `OpFails` is the answer `error` for one op, with or
without its effect. `Reload` leaves only IndexedDB. `RemoteApply` is any other
client of the server. The photos of module `Uploads` enter as
`OpenAttachment` and `CompleteAttachments`, which is all the gate sees of them.
The user's actions are guarded by what the card offers (`Deleted`,
`OpenConflicts`, `DiscardOps`).

`past` is history, which no action of the code depends on: the number of
incidents (which bounds them) and of photos, the ops the user gave up, and
whether two cycles of a device ever overlapped. Properties with a premise about
the past (`NoOverlap`, `NothingPutOff`) read it there.

### Deliberately wrong operators

Definitions with a comment that starts with "Mutant" are variants of the
definition that follows them, with a plausible bug. No specification uses them.
Each property is checked to fail when one of them takes the place of the right
definition, so no property holds by the shape of the model (`PROJECT.json`,
`mutants`).

## 3. Runs

| run | config | question | result |
|---|---|---|---|
| merge | `SyncServer_merge.cfg` | two devices create one inspection, or edit the same two fields of it from one base, one submits, an edit builds on another, a human resolves, requests are redelivered; two op ids share a lock key; does every request end? | holds; 61 521 states |
| life | `SyncServer_life.cfg` | an inspection is created (blank title), submitted, deleted, by its owner and by another user, malformed ops in the batch, attachments open and complete | holds; 186 415 states |
| resolve | `SyncServer_resolve.cfg` | README: no submit while attachments are incomplete, no late modification of a deleted inspection | **violated**, both at once |
| refresh | `SyncServer_refresh.cfg` | comment: an open conflict is refreshed by a newer edit | **violated** |
| uploads | `Uploads_safe.cfg` | two overlapping cycles, two handlers, two faults of any kind | holds; 872 231 states |
| uploads_live | `Uploads_live.cfg` | two photos, one cycle at a time, a fault anywhere but in the completion | holds; 63 336 states |
| uploads_stuck | `Uploads_stuck.cfg` | the same with a fault in the completion | **violated** |
| uploads_orphan | `Uploads_orphan.cfg` | once the photos are uploaded nothing blocks the submit | **violated** |
| uploads_setback | `Uploads_setback.cfg` | two overlapping cycles and no fault: does an uploaded photo stay so? | **violated** |
| outbox | `OfflineSync_outbox.cfg` | two cycles, which may overlap, of one device that creates, edits and deletes a card which an API client edits too; one incident out of six kinds | holds; 1 204 291 states |
| outbox_live | `OfflineSync_live.cfg` | three user actions (a chain of edits, another field, a resolution) against an API client's edit of both fields; one incident out of eight kinds | holds; 194 025 states |
| lost_conflict | `OfflineSync_lost.cfg` | two devices edit one field, an answer may be lost: is the loser parked until a human chooses? | **violated** |

What the two runs of the outbox show: whatever op is shown as applied or parked
is in the ledger as such (`SavedIsLedgered`); an op leaves the outbox decided,
overtaken by a deletion, or given up (`KeptUntilDecided`); an applied op is
contained in the snapshot that replaces it in the view (`AppliedIsShown`); a
chain does not lose to its own device (`ChainsStayLinear`); a parked op waits
for a choice that takes effect after it (`ParkedUntilChosen`); every op is
decided, or waits for an attachment that is incomplete to this day
(`EveryOpDecided`); and the devices converge to the server's rows (`Converges`).

Three of them have premises, which are part of their formulas:

* `NoOverlap` (all three): cycles of one device have not overlapped. `fullSync`
  tests `_syncing` before an await and tabs share the database (`store.js` 232),
  so the code does not ensure it, and without it the properties fail. In the
  instance of `outbox`, a page asked for before an op took effect is merged
  after its answer was absorbed (`AppliedIsShown`, a trace of 18 states). In
  that of `outbox_live` with two cycles and no incident, a resent op's
  `duplicate` is absorbed over its `conflict` (`ParkedUntilChosen`, 16 states;
  `LoserIsParked`, 13). `outbox` has two cycles, so that its behaviours include
  those in which the cycles take turns, with a request of the other still in
  hand at the server.
* `NothingPutOff` (`AppliedIsShown` and `ChainsStayLinear`): an op that the gate
  put off is sent again after later edits of the same field, takes effect after
  them, and if an answer is lost as well the view goes back until the next pull.
* `EffectsInOrder` (all three): the ops of a device took effect on an inspection
  in the order of their stamps. `handlers_sync.go` 31-35 goes on to the next op
  when the transaction of one fails; if the answer is lost as well, the op is
  repeated after a later one, and an instance with two incidents shows
  `AppliedIsShown` and `ChainsStayLinear` violated without the premise. With one
  incident and no overlap the premise always holds.

The seven violated runs are disagreements of code and documentation:

1. `resolve`: `resolve_conflict` writes `status = submitted` without the submit
   gate (`applyResolve`, against README line 67) ...
2. ... and, in the same trace, on a deleted inspection (`applyResolve` does not
   read `is_deleted`, against README line 35).
3. `refresh`: an edit that loses on a field already in conflict fails instead of
   refreshing the conflict (against the comment at `handlers_sync.go` 408-409),
   and the client takes the `error` for final (`store.js` 306-309).
4. `uploads_stuck`: a lost answer of `completeUpload` leaves the photo failing
   for ever on the device: the next cycle asks for the status of an upload that
   MinIO no longer has, and gets 502 each time (against `store.js` 7-8, README
   line 74).
5. `uploads_orphan`: a lost answer of `createUpload` leaves an attachment nobody
   completes, which blocks every submit (against `store.js` 302).
6. `uploads_setback`: a cycle works on the copies of the records it listed. If
   another cycle has completed a photo meanwhile, the copy is written back as
   `creating`, or the status of the finished upload is asked for and the catch
   block marks the record `failed`, so a photo that was shown as uploaded is
   sent again from the start or shown as failed (against `store.js` 7-8, README
   line 74).
7. `lost_conflict`: a lost answer `conflict` becomes `duplicate` when the op is
   resent, and `_absorbResult` takes a duplicate for applied: the op is pruned,
   and nobody is shown the conflict, which stays open on the server (against
   `store.js` 9-10, README line 34).

**Bounds.** Two handlers are enough for every lock conflict, since a transaction
waits for at most one lock at a time and holds at most one of each kind. The
scenarios give each op id one payload, and between them every branch of
`applyOpTx` and `applyResolve` is taken: fast-forward, no-op, conflict, a second
loss on a field in conflict, gate, tombstone, creation, blank title, missing base, foreign user, no
open conflict, malformed. Redeliveries come from `Batches`, which may be sent
any number of times. A few batches suffice, since `Abandon` delivers any prefix
of one and `Fail` lets any part of it take effect. In `Uploads`, `MaxFaults` bounds failures, lost messages
and reloads together; `NumParts = 2` tells the first and the last part apart;
there is an upload id for every creation that faults and cycles can cause, save
in `uploads`, where a creation that finds none left just waits. Failures of
requests whose client is gone are not bounded. In `OfflineSync`, `Limit` bounds
the ops devices mint, the edits being staged on a device at one time (one, as a
person edits one field at a time although the code does not enforce it; with
two, `ChainsStayLinear` fails, see the hazard at `store.js` 71) and the incidents of
all kinds together; `Incidents` are the kinds of a run. An incident of every
kind happens at every point of the cycles. Two incidents make the run too long
to be kept; tried on their own, with {error, network, reload}, they broke none
of the safety properties of `outbox_live` (441 661 states). Two handlers are
enough for the request of a cycle and one whose client is gone; a cycle that
finds none free waits. Users log in again as they like.

**Fairness.** `SyncServer!Fairness`: weak fairness of a handler (goroutines are
scheduled, PostgreSQL answers) and strong fairness of the three lock requests,
since PostgreSQL queues waiters in order. Nothing is assumed of clients, of
failures or of uploads. `Uploads!FairSpec`: handlers run on, and the 15 s ticker
and the `online` event start cycles again and again (`startTicker`).
`OfflineSync!Fairness`: a cycle and a handler run on, the IndexedDB write of a
staged edit is done. Nothing makes a user act, log in again, or fail, and
nothing makes an attachment complete, since `uploads_orphan` and `uploads_stuck`
show how one stays open for ever; so `EveryOpDecided` and `Converges` let an op
be put off as long as there is one (`PutOff`), and demand that it is decided
when there is none. The runs with liveness bound faults, as the claim is about what happens once they
stop.

**Deadlock** is checked for `SyncServer` and `OfflineSync`; `Uploads` really stops when every
photo is uploaded, so its configurations say `CHECK_DEADLOCK FALSE`.

## 4. Proofs

Every theorem holds for any number of handlers, users, op ids, inspections,
photos, parts, devices and cycles, any payloads, any batches, any lock key
function and any kinds and numbers of failures. The assumptions are the named
ones in `SyncRules`, `SyncServer`, `Uploads` and `OfflineSync`, all of them
about constants (field names, that `None` is no value, the shape of payloads);
TLC evaluates them in every run. No theorem has another hypothesis: what
`ShownSafety` and `ChoiceSafety` presuppose is in the properties (section 3). The
runs check the same properties on instances.

| theorems | module | properties |
|---|---|---|
| `TypeCorrect`, `LockSafety`, `AtMostOnce`, `Freshness` | `SyncServerProofs` | `TypeOK`, `LocksHeld`, `NoLedgerClash`, `DecisionIsFresh` |
| `OverwriteSafety`, `ConflictSafety`, `TombstoneSafety`, `GateSafety` | `SyncServerSteps` | `NoSilentOverwrite`, `ConflictsEndByChoice`, `TombstoneHolds`, `SubmitGate` |
| `Refinement` | `SyncServerRefinement` | `ImplementsAtomicSync` |
| `AnswerSafety`, `LineageSafety` | `SyncServerLedger` | `AnswersAreDurable`, `LineageIsLedgered` |
| `TypeCorrect`, `LedgerSafety`, `WholeObjects`, `ClientHonesty` | `UploadsProofs` | `TypeOK`, `LedgerIsStored`, `CompletedIsWhole`, `ClientTruth` |
| `TypeCorrect`, `SavedSafety`, `NoEditLost` | `OfflineSyncProofs` | `TypeOK`, `SavedIsLedgered`, `KeptUntilDecided` |
| `ShownSafety`, `ChoiceSafety` | `OfflineSyncOrder` | `AppliedIsShown`, `ParkedUntilChosen` |

### The sync server

The inductive invariant `Inv` is the conjunction of the four properties of
`SyncServerProofs`. None of the last three is
inductive alone: that a decision is fresh rests on the row lock its handler
holds, that the ledger has no entry yet on the advisory lock, and that the locks
are the ones of the op in hand on the types. The argument is rely-guarantee:
`HandlerInv(c)` is what `Inv` says of handler `c`; `OthersStay` shows that a
step of `c` which keeps the others' locks and writes only what `c` has locked
keeps `HandlerInv(d)` of every other `d`; `AnswerInv`, `LeaveInv`, `CommitInv`
and `WithinTxn` reduce each action to that lemma and to `HandlerInv(c)'`; and
`AttachmentInv` shows that attachments do not make a decision stale: one cannot
be opened while the row is held, and closing one only turns a refusal that is
never committed (`GateOnlyRefuses`). `SyncRulesProofs` has the facts about
`Outcome` this needs: `OutcomeType` (outcomes are well formed, rows are never
lost), `AbsentIgnoresWaiting` and `CreationIsLedgered`.

The action properties follow from `Inv`. `StoreStep`: a step leaves the store
alone or commits a transaction. `CommitFacts` and `RowStep`: a row that changes
becomes, by `DecisionIsFresh`, the outcome of an operation *on the row it
replaces*, an operation that was not in the ledger and now is. What is left are
facts about `Outcome` alone (`OutcomeOverwrites`, `OutcomeKeepsConflicts`,
`OutcomeOfDeadRow`, `OutcomeSubmits`). `GateSafety` needs one invariant more,
`WaitingExist`: an inspection with an incomplete attachment exists, so it is not
being created.

The refinement maps the committed state to the state of `AtomicSync`. A step that is
no commit, and opens or completes no attachment, stutters. A commit (`CommitIsAtomic`) is
`Apply`, as the decision is fresh, unless the handler found no inspection and
creates none: then another may have created it, the store's row is left alone,
and the step is `ApplyToNothing`. The two specifications share `Outcome`: the
refinement is about locks, failures and interleaving, and says nothing of what
one op should do to a row.

`AnswerSafety` needs that entries of the ledger never change (`LedgerGrows`);
its invariant says of each answer already given what `AnswersAreDurable` says of
it, at every place of the handler. `LineageSafety` goes through the refinement:
a row changes only as an outcome says, and `OutcomeLineage` lists the ops an
outcome may name: those the row named before, and the op itself, with the status
that its entry gets in the same step.

### Uploads

`Inv` says what each party knows of the server, and that this cannot become
false: uploads, recorded parts and completed attachments never go away. A
request to complete exists only when the ledger has all parts, a part is
recorded only after it is stored, and a cycle's answer is the one its request
computed (`RequestOK`, `CycleOK`, `LinkOK`). A handler's step concerns the
cycle it works for and what only it may touch (`HandlerInv`), the others keep
theirs (`RequestStays`, `CycleStays`).

### Devices

What a device, a request, an answer, a listed page or a copy of the outbox says
of the server may be old, but it is true: the three things they tell of, the
entry of an op, that an inspection exists, and its tombstone, never change
again (`Grows`). So each of them has its conjunct in `Inv`
(`OutboxTrue`, `AnswersTrue`, `PageTrue`, `CopyTrue`), and a step only carries
truth from one place to the next. That a cycle absorbs an answer for each op it
sent, and no other's, is `CycleOK`, `RequestOK` and `OneRequestEach`. This holds
with any number of cycles on a device, and `SavedSafety` and `NoEditLost`
follow.

`ShownSafety` and `ChoiceSafety` are about age, and old truths are not enough
for them. The invariant is `Inv /\ OrderInv`. `OrderInv` says first that a device
whose cycles have not overlapped has one at work at most (`Alone`, which
`AloneStep` shows to be inductive), and then that as long as no cycles overlapped
the ages are in order (`Ordered`). Revisions order what happens to an
inspection, and `Ordered` compares two ops of a device: one whose answer is
absorbed and one that is still to be. `LateIsLater`: if the earlier stamped one
is absorbed later, it took effect later. It holds since a cycle absorbs in the
order of the stamps, so that the earlier op can only be one that was not sent in
that request, or the request failed as a whole (`LateIsUnsent`, `WholeOrNot`,
`TodoIsDue`); if it is the later stamped one, `EffectsInOrder` says the same.
With `Exact` (an answer carries the snapshot of the ledger) each result that is
absorbed is as new as all that are (`AbsorbedIsShown`); for pages that is
`PageIsNew`. `ChoiceSafety` needs what the server does with a conflict in
between: it stays open in the row and in every later snapshot until a resolution
of its field takes effect (`ConflictsLast`), so a snapshot that no longer has it
proves that one has. The rest of `Ordered` are facts that these rest on: stamps
are distinct, ops stay on their device, an op is not decided before it is
minted, and one given up is remembered. `OrderInv` was also checked by TLC on
the instance of `outbox_live`.

### Checked by TLC only

`ChainsStayLinear`, and all liveness (`RequestsEnd`, `EveryPhotoUploaded`,
`EveryOpDecided`, `Converges`), since fairness and ENABLED are out of the
prover's reach. `ChainsStayLinear` needs an invariant about the base of every
edit of an outbox against the value the server will hold when its turn comes,
and holds only while one edit is staged at a time; it is the next one to prove.

## 5. Not modelled

Downloads and presigned URLs, the detail endpoint (no device calls it), how
passwords and tokens are checked, connecting and migrating, rendering, the
service worker and nginx. Times, messages and result codes are not in any model.
A snapshot has no attachments, so `pull`'s removal of completed upload records
is left out of `Uploads` and `OfflineSync`. Entering a value of one's own in the
conflict panel is left out too: the choices are the two sides. `deleteEntity` and
`wipeData` of `db.js` are called by nobody. An upload cycle and the outbox are
not in one model: `Uploads` alone fills what TLC can do, and the two meet only at
the set of inspections with incomplete attachments; that a submit may overtake
a photo whose upload could not even be created (`store.js` 236) is therefore
listed as a hazard and covered by no property.

## 6. Plan

1. A proof of `ChainsStayLinear`: for each op of an outbox that is neither
   parked nor failed, its base is what the ops before it leave of the field,
   where the first of them starts from a value that was the row's when the
   snapshot was taken. It supposes `Limit["overlap"] = 1`.
2. The order of a chain: a property of what the server may do with the ops of
   one device when the gate puts one off.
