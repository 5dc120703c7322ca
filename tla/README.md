# smart-db: a verification project

TLA+ models of [smart-db](../src): an inventory of electronic parts with QR
labels (a Fastify/SQLite middleware and a browser frontend) that mirrors itself
into a Part-DB server through a durable outbox. TLC checks the models on small
instances; TLAPS proves the invariants listed under *Proofs* for every value of
the constants.

Run from this directory:

    tlc -workers 2 -config OutboxLeased.cfg MCOutbox     # one run per .cfg
    tlapm OutboxProofs.tla                               # and the other *Proofs modules

## 1. The system

| component | state | operations | interacts with |
|---|---|---|---|
| Outbox table (`middleware/src/outbox/partdb-outbox.ts`) | rows of `partdb_outbox`; `partdb_*_id` and `partdb_sync_status` of the inventory's rows | `enqueue` (INSERT OR IGNORE on a content hash), `claimBatch`, `markDelivered`, `markFailed`, `retry`, `findLatestPendingTarget` | called inside the inventory's transactions and by the worker |
| Outbox worker (`outbox/partdb-worker.ts`) | the batch each running `tick` still has to process, the call it awaits | `tick` from a timer and from `POST /drain`, `hydrateOperation`, `processOne` | outbox, Part-DB operations |
| Part-DB operations and REST client (`partdb/partdb-operations.ts`, `partdb-rest.ts`, `retry.ts`) | none | one HTTP exchange per operation, retried, timed out after 10 s | Part-DB (external) |
| Category and location resolvers (`partdb/*-resolver.ts`) | caches of remote ids | look up, create, cache, with awaits in between | Part-DB |
| Inventory service (`services/inventory-service.ts`) | `qrcodes`, `physical_instances`, `bulk_stocks`, `stock_events`, `part_types`, `borrow_records`, `correction_events` | assign, event, move, split, void, merge, reassign, edit, reverse, scan, backfill, reset; one SQLite transaction each | outbox, Part-DB lookup |
| Reconciler (`partdb/partdb-reconciler.ts`) | none | clears remote ids that Part-DB no longer has | outbox tables, Part-DB |
| Idempotency middleware (`middleware/idempotency.ts`) | `idempotency_keys` | reserve, replay, conflict, clean-up | every mutating route |
| Sessions and login (`auth/*`) | `auth_sessions`, token cache | login, callback, refresh, logout | identity provider (external) |
| Frontend controller and machines (`frontend/src/rewrite/app-controller.ts`, `machines/*`) | UI state, requests in flight, scan/bulk/auth machines | scans, forms, queue, navigation | middleware API, camera |
| Camera scanner (`frontend/src/rewrite/services/camera-scanner-service.ts`) | MediaStream, video element, timer, session token, snapshot | `start`, `attachVideoElement`, `stop`, `destroy`, `scanFrame` | browser, controller |
| Views, parsers, contracts, PDF labels, scripts | none, or run by hand | | |

**What is hard.** SQLite is synchronous and Node runs one callback at a time,
so code between two `await`s is atomic, and everything difficult lies across
one:

* Nothing keeps a second tick from starting while the first awaits Part-DB. A
  row belongs to a tick only through its 30 s lease, while a batch of ten calls
  of up to 10 s each may last longer.
* Part-DB may carry a call out whose answer is lost; the process may stop
  between the call and `markDelivered`.
* `attemptCount` and the rows of a batch are read at the claim and used later.
* Operations depend on each other, across retries, back-off and death of a row.
* Deduplication by content compares with rows delivered long ago.
* Look-up, creation and cache of a category or location are separate calls to
  Part-DB, and the reconciler asks in one process what another one changes.
* A scan reads its label, waits for Part-DB, and writes by what it read. Many
  commands write four tables that repeat each other.
* A mutation is sent again while the first still runs, was refused, or was cut
  short by a restart; tabs sign in and out over one cookie.
* In the browser, answers, permission dialogs, `play()` and frame decoding are
  awaited while the user starts, stops, changes tab, mode or page, or signs out.

**What makes each component correct.** *Outbox and worker*: a row is held by
one tick; nothing is carried out before its dependency, nor needlessly twice;
a delivered row is final; nothing is stuck after a restart. *Inventory sync*:
once everything is delivered Part-DB says what the inventory says, and has no
lot nobody knows. *Resolvers and reconciler*: what is filed is filed where its
operation said, nothing is doubled but by a race, only what is gone is forgotten.
*Idempotency and sessions*: a mutation takes effect once per key, answers are
true, and nothing is done with a session that was signed out. *Lifecycle*: a QR
code names one item, an open borrow belongs to an instance that is out, copies
agree. *Frontend*: one submission at a time, nothing stays locked, a form acts on
what is shown.
*Camera*: no stream is lost or runs unseen; a start reports one code.

`PROJECT.json` lists the hazards at their lines with the properties that cover
them.

## 2. Modules

    Delivery          what the outbox promises (abstract)
      ^ implemented by
    Outbox            table, worker, Part-DB, crashes   <- OutboxProofs
      ^ extends                                              ^
      |                                                  OutboxLeaseProofs
      |                                                      ^
    LotSync           InventoryService's commands       <- LotSyncProofs
                      over the outbox
    Remote            the calls behind an operation:    <- RemoteProofs
                      resolvers, REST, reconciler
    Inventory         codes, items, borrows, copies     <- InventoryProofs
    Requests          sessions and idempotency          <- RequestsProofs
    Controller        the browser's forms, scans, queue <- ControllerProofs
    CameraScanner     camera service and its controller <- CameraProofs
    MC*               symmetry sets and data for TLC

A request of `Controller` reaches the handlers through `Requests`, which run the
commands of `Inventory`; those that concern Part-DB enqueue (`LotSync`), the
worker delivers (`Outbox`), and each delivery is the calls of `Remote`. Every
interface is cut where the code has one transaction or one await: what the next
part may answer is chosen freely above it.

Every definition that models code is in `PROJECT.json` under `map` with its
lines. Definitions marked `mutant` stand right before the one they vary and are
used by no specification: each is a plausible bug, and `PROJECT.json` says which
property it breaks.

### Outbox

| variable | code |
|---|---|
| `rows` | `partdb_outbox`; a row's number is its place in `ORDER BY created_at, id` |
| `column`, `syncStatus` | `partdb_part_id`/`partdb_lot_id` and `partdb_sync_status` of part types and items |
| `ticks` | for each running tick: claimed rows not yet settled, the attempts it saw, the call it awaits |
| `remote` | Part-DB's parts and lots |
| `effects`, `lost` | history: how often Part-DB carried a row's operation out, and how often the answer was lost |
| `spent` | counters for the bounds |

`Enqueue` is `PartDbOutbox.enqueue` with any operation its callers can build
(`Requests`). `Claim` is all of `claimBatch`: it gives ended leases back,
selects what is due and unblocked, leases it. `Send`/`HydrateFails` are
`processOne` up to its await, `SettleDelivered`/`SettleFailed` what follows it
(`markDelivered`, or `markFailed` with the verdict on the attempts seen at the
claim). `Accept`, `LoseAnswer` and `Refuse` are Part-DB: done, done but the
answer lost, not done. `Elapse` lets time pass for all leases, `BackoffElapses`
for one back-off, `Retry` is the administrator's retry, `Crash` a restart: the
table survives and the ticks do not.

Times are not numbers: a lease counts down from `LeaseTime`, a back-off is due or
not. `MaxOverruns` bounds how often a lease may end while its tick still works
on the row. `0` is the assumption that leases outlive batches; the code does not
guarantee it, so what holds without it is checked apart (`OutboxOverrun`), and
what fails is a finding (`OutboxReplay`).

### Delivery

The abstract specification: operations are absent, queued, done or given up; one
is carried out only while queued and after what it depends on is done, is done
only once it was carried out, and is taken up again only by hand. `Outbox`
implements it (`ImplementsDelivery`) when no lease is overrun: `pending`,
`leased` and `failed` rows are queued, `effects` counts the carrying out.

### LotSync

`stock` holds the items, `parts` the part types. An item is a bulk stock with
its amount; a physical instance is one whose amount never changes (no
`RecordEvent`, no split). Each command is one action and does what its
transaction does, in its order, including how it reads outbox rows it has just
written: `Begin`, then functions on the transaction record, then `Commit`.
`EnsurePart`, `CreateLot`, `UpdateLot`, `DeleteLot` and `DropLot` are
`ensurePartTypeSync`, `enqueueCreateLot`, `enqueueLotUpdate`,
`enqueueDeleteLot` and the targetless deletion of a correction. The worker and
Part-DB are those of `Outbox` (`Delivering`).

### Remote

`remote` is Part-DB as a sequence of objects (categories, locations, parts,
lots), `cache` the two cache tables of the resolvers, `column` the references
the inventory stores, `op`, `dead`, `drops`, `keys` and `made` the outbox: the open
row of each target, the dead rows, open deletions of lots, the idempotency keys
(`KeyOf`), and the answers of the delivered rows about part types. `work` is where
each tick is, `pass` where the reconciler is. `def` is the definition of each part
type (name, tags, category, review): its `create_part` says it, so a part type that was
edited, approved or merged into is asked for under another key.

A tick `Take`s an operation, for whose path the cache may have all or any part;
`Find` is the GET of a node and `Create` the POST when it is
missing, each followed by the cache write; `Call` is the operation's own
request and `Settle` what the worker then stores. `CreateUnanswered` is the POST
that was carried out and whose answer was lost: `withRetry` sends it again
(`again`), or the operation fails and is tried by a later tick. `Fails` and
`GivesUp` are a refused call and a dead row, `Retry` the administrator's retry of one,
with the payload it had, whatever became of its target. `StartPass`, `Ask`, `Clear`,
`PassGoesOn` and `PassFails` are the reconciler script, one table after the
other; `DeletedByHand` is what it is for. The inventory's commands appear with
what they enqueue about parts and locations: `AssignQr`, `Move`, `ReassignPartType`,
`EditPartType`, and `ApprovePartType` and `MergePartTypes`, which enqueue nothing.

`FiledUnderPath` says that a chain of nodes leads from the root to the parent of an
object, with the names of the path its operation named (`LeadsTo`). The model compares
names as the code does: exactly at Part-DB, in lower case in the cache.

### Inventory

`qr`, `item`, `open`, `entities` and `types` are the tables; a record of `item`
is an instance or a bin. Every command is one action with all that its
transaction does: `RegisterQrBatch`, `AssignQr`, `BulkAssignQrs`, `VoidQrCode`,
`InstanceEvent` (with the transition table of the contracts and
`applyBorrowSideEffect`), `BulkEvent`, `MovedWhole`, `SplitInto`, `SplitToNew`,
`ReassignPartType`, `ReassignQr`, `MergePartTypes`, the corrections, and
`Reset`. `scanCode` is three: `ScanReads` up to its await of Part-DB, then
`ScanCounts` (an external code of a bin adds to it) or `ScanAnswers`. `ScanKey` is
`scanLookupCompactKey`, which folds separators and case, and `StoredKey` what SQL
makes of a stored code to compare it with that, which folds fewer of both; `Found`
is `findQrRowByScannedCode`, which uses both. `NextBulkQuantity` and `Accepts` are
`getNextBulkQuantity`, null being what is not accepted.

`entities` is written by each action for the items its command hands to
`syncEntityFromInstance` or `syncEntityFromBulk` (`SyncEntities`), so
`EntitiesMirror` is about which those are.

### Requests

`sessions` and `rows` are the tables `auth_sessions` and `idempotency_keys`,
`cookie` and `authCookie` the browser's cookies, `logins` the tabs, `reqs` the
mutations. A mutation is `Send`, `Admit` or `Unauthenticated` (`requireAuth`,
with the sweep of expired sessions), `Reserve` or `PassKeyless` (the preHandler: a
look-up, which replays or refuses, and the reservation), `Handle` (the handler's
transaction, committed or refused, or committed before the handler throws) and
`Answer` (onSend, which stores the answer or releases the reservation, whoever's the
row is by then). `HandleReset` is a handler whose transaction deletes the table
too. `Crash` ends all that is under way;
`DayPasses` makes rows old enough for the clean-up. Signing in is `StartLogin`, `Callback`,
`LoginCompletes` or `LoginFails`; signing out `Logout` and `LogoutAnswered`, the
moment between them being when another tab still has the cookie.

### Controller

`pending` is `pendingAction`, `lookup` the scan the current `scanRequestId`
belongs to, `jobs` the handlers of submissions with the await each is at
(`sent`, `rescan`, `refresh`, `reload`); `queue` is the bulk queue machine and
`view` the copy of it the page draws and submits. What the user can do is what
`render.ts` draws enabled (`DrawsCard`, `DrawsQueueForm`, `Unlocked`). Each
handler is an action up to its first await and one per later piece: `Scan`,
`Answered`, `Queued`, `LookupFails`, `LookupRefused`, `LookupDropped`; `Assign`,
`RecordEvent`, `Correct`, `Administer`, `BulkSubmit` and what ends them. A 401
may be the answer to anything (`LookupRefused`, `JobRefused`, `PollRefused`). The
server's answer to a look-up is any of `Answers`: other users move labels, so the
same code may be on another item the next time (`Answered`, `Refreshed`).

### CameraScanner

`cam` is the service (snapshot, stream, element, timer, frame in flight), `live`
the real camera: the streams with running tracks. A call of `startCamera` is in
`calls` at the await it is at (`asking` getUserMedia, `binding` or `attaching`
an element) with whether its token is still the current one; `sessionToken` is
only ever compared for equality with the current, so nothing else of it matters.
`tab`, `view`, `suppressed`, `hidden` and `destroyed` are the controller and the
page. Tapping, typing, hiding, tabs by click (`ChangeTab`) and by key or history
(`GoToTab`) and `Dispose` are the user's actions. The user acts on what `view`
shows, which may be behind `cam` while rendering is suppressed.

## 3. Runs

The bounds named in a configuration (`MaxRows`, `MaxRemote`, `MaxObjects`,
`MaxQty` and so on) limit what a run explores; commands that would go beyond are
not taken, never cut short. Deadlock is checked for `Inventory`, in which something
can always be done. It is not elsewhere: with the bounds used up and all rows
settled the outbox models stop, as the outbox does when nothing is left to do;
the camera stops for good after `Dispose`, the browser when it is signed out,
and requests when each was answered.

| run | shows | instance |
|---|---|---|
| `OutboxLeased` | `OneHolder`, `NoNeedlessRepeat`, `DeliveredIsFinal`, `ImplementsDelivery` while leases outlive ticks | 2 ticks, 3 rows, one restart, one retry by hand, one lost answer |
| `OutboxOverrun` | `TypeOK`, `EffectsFollowDependencies`, `NamesOwnObject` also when a lease ends under a working tick | 2 ticks, 3 rows, one overrun, one lost answer |
| `OutboxReplay` | **violated** `ReplayIsIdempotent`: two ticks carry out one creation twice | 2 ticks, 2 rows, one overrun |
| `LotSyncMirror` | `MirrorSettles`, `NoOrphanLots` over every command but splits and backfills | 1 item, 2 part types, 5 rows |
| `LotSyncOrder` | `InOrder`, `PendingIsWaiting` with splits and failed attempts | 2 items, 1 part type, 4 rows, 2 attempts |
| `LotSyncLive` | `LabelledGetsLot`, `LeasesReclaimed`, `Finishes` under fairness | 1 item, 3 rows, restart, lost answer, backfill |
| `LotSyncIgnored` | **violated** `MirrorAlwaysSettles`: an amount that returns to an earlier value is dropped | 1 item, 5 rows |
| `Remote` | `TypeOK`, `FiledUnderPath`, `OneNodePerPath`, `ForgetsOnlyTheGone` | 2 ticks, 2 part types with 2 definitions in one category, 1 item, 2 locations, 6 objects at Part-DB, one mishap, one pass of the reconciler, one move, reassignment, edit or approval, one retry, any merge |
| `Inventory` | `TypeOK`, `CodeNamesOneItem`, `BorrowMatchesStatus`, `EntitiesMirror`, `NeverAmbiguous` over every command | 3 codes, two of them spellings of one barcode, 2 items, 3 part types, 2 places, amounts to 3, 1 waiting scan |
| `Requests` | `TypeOK`, `TakesEffectOnce`, `AnswersAreTrue`, `ReservationsHaveOwners`, `SignOutHolds` | 3 mutations, 1 key, 2 sessions, 2 tabs, restarts, resets, clean-up |
| `Controller` | `TypeOK`, `RowsFitRequest`, `NothingStaysLocked`, `OneAtATime`, `SubmissionHoldsQueue`, `FormActsOnCard` | 2 codes, an instance and a bin, 2 submissions, one bypass of the lock |
| `Camera` | `TypeOK`, `NoStrayStream`, `HiddenIsOff`, `OneScanPerStart`, `NeverFrozen` | 3 calls, 2 frames at once |

**Why the bounds are enough to be interesting.** *Outbox*: a dependency, its
dependant and an independent row need three rows; a row handed from one tick to
another needs two ticks; death after a retry needs two attempts. `BatchSize` 2
makes a batch with a second row processed after the await of the first, and
leaves a third row behind. `LeaseTime` 1 with `Elapse` lets a lease end before or
after any other step. *LotSync*: five rows are a part, a lot, an update, a
deletion and one more lot, the whole of a reassignment. With six rows and one amount
(1.7 million states) both properties hold as well; six rows are what showed that a
correction's deletion, which has no target, can die while its item says synced,
so `Settled` asks for it by the lot it names (`Drops`). `SplitToNew` and `SplitInto` take
only amounts that leave both bins with one of `Values`. *Remote*: two locations,
`Shelf` and `shelf/shelf`, share a cache entry in two spellings and a name at
two depths; six objects are a category, a part, two locations, a lot and one that
should not be there. A failed call, a lost answer or a deletion by hand is enough
to set a look-up, a creation and the cache against each other; two part types in two
definitions, one change and one retry make a second part for one part type, a lot under
the part type its item had before, and a part type that is asked for anew. *Inventory*: a
printed label and one barcode in two spellings meet every look-up; SQL and
`scanLookupCompactKey` have the same keys for these two, and where their keys differ is
left to the proof of `Unambiguous`; two items are what a label, a split or a
reassignment can confuse; amounts to 3 leave a rest after
a split and allow a scan to add to it. *Requests*: a request, the same sent again, and a third that finds what the two left; two sessions of two tabs.
*Controller*: an instance and a bin tell the item acted on from the one shown, two
codes a scan from the one before it, and two
submissions are what the lock is there to keep apart. *Camera*: an overtaken
start, the one overtaking it and a third cover every pair of token values and
what comes after.

Model values are used for codes, items, part types, places, ticks, requests,
sessions, calls and frames; symmetry is used for those which the specification
treats alike, and not with backfills (which go through the items in an order) nor
with liveness.

**Findings.** The two violated runs are disagreements with the repository's own
documents; `PROJECT.json` quotes them. The properties of the passing runs excuse
exactly what the code is known to do, mostly by history variables, so that everything
else stays checked:

* `ignored` (`MirrorSettles`): the request `INSERT OR IGNORE` dropped, which
  `LotSyncIgnored` is about. `merged`: a merge tells Part-DB nothing, so the lots of
  the merged items stay under the old part. `backfills`: a backfill makes a lot for an
  item whose label is voided.
* `raced` (`OneNodePerPath`): two ticks that resolve paths at once, or a POST that
  `withRetry` sends again after a lost connection, do double a node.
* `ForgetsOnlyTheGone` excuses by the state and needs no history: a reference that
  changed between the GET and the UPDATE, which goes by the row's id, and the lot of an
  item that lies under another part than the one that is gone, after a merge or after
  the retry of a dead `create_lot` whose item was reassigned. `clearPartReference`
  clears it all the same.
* `bypasses` (`OneAtATime`, `SubmissionHoldsQueue`, `FormActsOnCard`): "Open on
  scan" in the correction log and signing out are not held back by
  `pendingAction`, and the first to return releases it for both.
* `swapped` (`FormActsOnCard`): the look-up after a correction or a quick event was
  answered with another item than the card had; it lasts until a scan fills the form
  again or the card is put away.
* `Threw` and `adrift` (`TakesEffectOnce`): a handler that throws after its commit
  releases its key; a reset deletes the reservations of requests under way, of which one
  may then answer into a row another has made.
* `late` (`NeverFrozen`): the `catch` of `start()` does not compare tokens, so the
  failure of an overtaken start overwrites the snapshot of a running camera, or
  takes the newer start's stream away and lets that one end with an exception
  before rendering is allowed again.
* `BorrowMatchesStatus` allows an instance that was reported damaged while it was
  out to keep its open borrow: `closeMap` has no entry for it.

**Fairness.** Only `LotSyncLive` assumes any: weak fairness of `Claim`
(setInterval keeps firing), of the worker's continuation (a settled promise is
taken up), of Part-DB's answer (each call ends by answer, error or the 10 s
timeout), of time and of back-offs. Nothing is assumed of users, administrators
or restarts, nor that Part-DB ever accepts: `Finishes` includes dead rows and
`LabelledGetsLot` excuses them.

## 4. Proofs

Each module of proofs extends the one it is about and uses the assumption named
there, which only says that the constants are of their kinds. All bounds, and the
numbers of rows, ticks, items, codes, requests, sessions, jobs and calls, are
arbitrary.

`OutboxProofs` (from `OutboxAssumption`: finitely many ticks, positive attempts,
batch size and lease time):

* `TypeCorrect`: `Spec => []TypeOK`. The inductive invariant is `TypeInv`:
  `TypeOK` and that a tick whose call is under way has a row it is under way
  for, without which `Head` denotes nothing.
* `DependenciesFirst`: `Spec => []EffectsFollowDependencies`, overruns, lost
  answers and restarts included. The property alone is not inductive:
  a tick acts on what was true when it claimed its batch, and a late tick may since
  have failed the dependency. `DepInv` adds what a claim leaves true for as long as
  the row is held (`HeldReady`: its dependency was carried out), that an answer not
  stored yet stands for an effect (`AnswersCarriedOut`), and that only rows that
  exist have effects.
* `OwnObjects`: `Spec => []NamesOwnObject`, also with overruns,
  restarts and retries. `OwnInv` follows an id from Part-DB's answer to the column:
  what a tick was answered (`CallOwns`), what a delivered row carries and an
  open one names (`RowOwns`) and what the columns hold (`ColumnOwns`) is an object
  made for that target. Objects never change kind or owner (`Kept`), so what was true
  of an id stays true.

`OutboxLeaseProofs` assumes besides that
`MaxOverruns = 0`, that leases outlive their ticks; ticks, rows, restarts, lost
answers and everything else stay arbitrary:

* `HeldByOne`: `Spec => []OneHolder` and `FailedHasAttempts`:
  `Spec => []AttemptsLeft`. The inductive invariant `LeaseInv` adds that a held
  row has lease left and that its tick knows its attempts (`Running`; so a claim
  takes no held row back and a failure is judged on the true count), and that
  only leased rows have a lease and only failed ones back off (`Resting`).
* `Implements`: `Spec => ImplementsDelivery`, and with it `DeliveredStays`:
  `Spec => DeliveredIsFinal`. `RefInv` is `LeaseInv`, `DepInv` and that what a
  held row depends on is delivered (`DepDone`, which holds from the claim on
  because delivered rows stay so). Each action is mapped: a new row is `Submit`,
  Part-DB's effect is `CarryOut`, an answer stored is `Finish`, a final failure
  is `GiveUp`, a retry by hand is `TakeUp`, all else stutters.
* `NothingRepeated`: `Spec => []NoNeedlessRepeat`. `RepeatInv` adds `Accounted`:
  each effect of a row has been answered for, is about to be, or was lost.

`LotSyncProofs` (from `LotSyncAssumption` and `OutboxAssumption`). All four theorems
assume `MaxBackfills = 0`: what a backfill asks for is a fold over a set, and what a
fold returns is an induction over data. `Asks` says what any other command does to the
outbox, for each target by itself: it leaves the rows of the target alone, or adds
exactly the operation its transaction asks for, or that operation is known already
and ignored (`CommandForm`, from one lemma per command, `DidAssign` to `DidMerge`, each of
which follows the transaction through what it has just written).
`FormInv` is `DepInv`, `OwnInv`, the types of the inventory, that rows have no gaps, that
an item not yet made has no rows, and that every row is one of the forms commands make
(`Fits`).

* `PendingWaits`: `LotSpec => []PendingIsWaiting`, by `Waiting`, whatever fails, is lost,
  overrun, interrupted or retried.
* `OneAfterOther`: `LotSpec => []InOrder` with `MaxOverruns = 0` and `MaxRetries = 0`.
  `InOrder` is not inductive: that only one row can be claimed follows from `Chain`, by which
  each open row of a target but the oldest depends on an open one at least as new as
  all older ones. `Chain` in turn needs leases that outlive ticks
  (`LeaseInv`) and dependencies of held rows that are delivered (`DepDone`), so that
  only the oldest open row is ever held and closed (`HeldOldest`). A retry by hand of a dead
  row does break the order.
* `LotsAreKnown`: `LotSpec => []NoOrphanLots`, besides with `MaxCrashes = 0` and
  `MaxLost = 0`: a creation whose answer is lost, on the way or with its tick, does leave a
  lot nobody knows, which is the `OutboxReplay` finding in another place. `LotInv`
  says who may name a lot: while one is to be created
  there is none and what waits behind it names none (`CreateFirst`); what an update or
  deletion names, itself or through its dependency, is the item's lot or is gone
  (`RowNamesLot`, `CallNamesLot`); what a correction drops is no item's lot any
  more (`Dropped`); the lot in a column is there until its deletion is answered
  (`ColumnLives`).
* `MirrorHolds`: `LotSpec => []MirrorSettles`, under the same conditions. Each is needed: a lot
  whose creation was answered to nobody outlives its item, and rows out of their order leave an
  amount that is not the last. Failed attempts are not excluded, but an item with a dead row is
  not settled. Besides `FormInv`, `Chain`, `LeaseInv` and `LotInv` it needs `MirrorInv`: the
  rows of an item are closed from the oldest on (`DoneFirst`); the newest row carries the item's
  amount unless the request was dropped (`Latest`), so it does not matter what the rows before it
  said; a voided item with a lot has a deletion open (`Voiding`); the lot bears what the
  last row delivered said, or an update of it is answered (`Content`, `CallVal`); and a lot lies
  under the part of its item, by the reference or the dependency of the row that
  creates it, but for merged items (`RowPart`, `CallPart`). `Settled` then
  makes the newest row the last one delivered.

`RemoteProofs` (from `RemoteAssumption`):

* `Typed`: `Spec => []TypeOK`, by `ShapeInv`: which kinds of object a column, an open
  or dead row (`Fits`, `DeadFits`), a dropped lot, the reconciler's list (`EntryFits`)
  and each stage of a tick (`TickFits`) may name. Objects are only ever added, and keep
  kind, name and parent (`Kept`).
* `Filed`: `Spec => []FiledUnderPath`. `LeadsTo` states a path as a chain of nodes, so
  no induction is needed: a chain for one more name is the old one with a node at its end.
  `PathInv` adds that what the caches hold is where their key leads
  (`CacheLeads`; keys are in lower case, so it is right for every spelling of a path, and
  for no other path, `SameKey`) and where a tick has got to on its operation's path
  (`TickLeads`).
* `Single`: `Spec => []OneNodePerPath`. `NodeInv` says that while nothing raced one tick
  at most resolves in a tree (`OnePerTree`) and that what it is about to create is not
  there (`CreatesMissing`).
* `Forgotten`: `Spec => ForgetsOnlyTheGone`, an action property. `GoneInv` says that
  what the reconciler is about to clear is gone for good, and that a part's lots exist no
  longer than it does (`LotsGo`), through every row that is tried again or put back.

Only model-checked: all liveness and what is built on `ENABLED` (`LabelledGetsLot`,
`LeasesReclaimed`, `Finishes`), and everything of `LotSync` with backfills, whose fold over a
set is induction over data.

## 5. What is abstracted or left out

* `created_at` ties, broken in the code by a random id: rows have a fixed order.
* A request that times out and reaches Part-DB later than its retry; `LoseAnswer`
  has its effect when it is sent.
* `last_error_json`, `completed_at`, correlation ids, HTTP status codes beyond
  done, retryable and not retryable; parse failures of a stored payload or of a
  stored IRI, which the code itself has written.
* `create_category`, `create_measurement_unit` and `create_storage_location`,
  which the inventory never enqueues.
* `retryBackoffMs` against the lease: a back-off may end before or after anything.
* In `LotSync`: reassignment of a QR code, the reset, foreign key failures, and the
  difference of instances and bulk stocks beyond the amount. The lot runs have one
  tick: overlap is the subject of the outbox runs. Locations and moves are in
  `Remote`, which leaves amounts, units and descriptions out in turn.
* In `Remote`: leases and dependencies (those are `Outbox`'s), measurement units,
  which are looked up as categories are but without cache or parent, and the look-up
  of a location by name that is made when there is no resolver. Part-DB's filter on
  names is taken to be exact. A target has one open row: an item is moved or reassigned,
  a part type edited and a dead row put back only while none is open, and a `delete_lot`
  is tried until it is delivered. The key of an `update_part` has the whole definition,
  although its payload lacks the review. `LOWER` stands for both JavaScript's
  `toLowerCase`, by which the caches are written, and SQLite's, by which they are read
  (category-resolver.ts:74, :84; location-resolver.ts:71, :79): the second leaves upper
  case outside ASCII alone, so the code finds no cached entry for such a spelling and
  asks Part-DB again.
* In `Inventory`: what Part-DB answers a scan (it is only shown), names, units and
  tags of part types, minimum amounts, the assignee's name; amounts are whole numbers.
  `partdb_lot_id` and `partdb_sync_status`, which items and `entities` both have: see
  below. A failing COMMIT is not modelled.
* In `Requests`: roles, the identity provider's protocol. URL and body are part of what
  the storage key is hashed from (idempotency.ts:109-119), so a key sent with another
  body is another `Key` here, and is carried out. Any handler may commit and throw;
  `voidQrCode` is the one known to. `AuthTokenCache` is used by nothing.
* In `Controller`: the inventory, review and administration tabs, searches,
  part-type editing, the content of forms, and the check of the session at the start.
* In `CameraScanner`: focus and exposure, the window for repeated codes (a code
  ends the session, and a start forgets the codes), the wording of failures,
  `srcObject` of the element, what the controller does with a code.

**Not modelled.** The scan session machine: the controller sends it events, but
the view never reads it. After a split it stays in `bulkEventParsing`
(app-controller.ts:3309, :3328; the test scan-session-machine.test.ts:66 pins
this) and ignores what follows, without effect on the user. The Part-DB lookup client
only reads. Views, parsers, contracts other than the transition tables and code
normalization, the PWA shell, PDF layout, seeds and one-shot scripts have no
state of their own. A reset that empties the outbox under a working tick is left
out: `Inventory` has what it does to the inventory.

**Met on the way, without a property.** What the code does and the models have,
where no property is asked for the opposite:

* After the reconciler cleared a part, the `create_part` of the next backfill has the
  delivered row's idempotency key and is dropped, unless the part type was edited, approved
  or merged into meanwhile: a part deleted in Part-DB is not made again, and its lots are
  refused.
* `voidQrCode` with another spelling of a barcode consumes the item and leaves the
  code assigned; it then reads the row back by that spelling, finds none and throws
  (inventory-service.ts:1492-1500), and the 500 releases the idempotency key, so that the
  same mutation is carried out again under it (`Threw`).
* A barcode stored with an en dash is not found by the same barcode with a hyphen, which is
  registered as a second code: SQL's LOWER(REPLACE(...)) folds less than
  `scanLookupCompactKey` (inventory-service.ts:2930-2937), for which both are one
  (scan-normalization.test.ts:10).
* The code `splitBulkStock` makes up for a new bin is put into the external batch (:845), so
  every scan of it adds to the bin, as the comment at inventory-service.ts:714 says of
  manufacturers' barcodes only (`MadeUp`, `ScanCounts`).
* The look-up after a quick event or a correction replaces the card and leaves the form
  (app-controller.ts:2818, :2944): when the label was moved meanwhile, the form beside the
  card acts on the item it was filled for (`swapped`).
* After a merge a lot lies under the source's part. When that of the destination is deleted
  in Part-DB, `clearPartReference` clears the reference to the lot all the same, and the
  next backfill makes a second one.
* A scan counts into the bin its label named before the wait for Part-DB, whatever the
  label names by then.
* `entities` repeats `partdb_lot_id` and `partdb_sync_status`, but the outbox and the
  reconciler write both in the item's own table only (partdb-outbox.ts:202-296), so the
  copies go stale; `listEntitiesForPartType` answers by them.
* A location sent with an event that is not a move is stored, and Part-DB is told nothing
  of it (inventory-service.ts:1158, :1251).
* The frontend makes a new idempotency key for each call and never sends one
  again, so after its 15 s timeout a user's second try is a second mutation.
* A late answer to a sign-out or a 401 clears the cookie of a newer sign-in.
* An arrow key or the history leaves the scan tab with the camera running
  (app-controller.ts:1017, :405; a click stops it, :498).
* Answers that arrive after a sign-out fill the emptied view again. Switching the
  bulk action during a submission leaves the queue's own action behind.
* When COMMIT fails, `withTransaction` has lowered its depth already and lowers it again.
* The `delete_lot` of a correction has no target (inventory-service.ts:1609, :1962), so when
  it is given up no item says failed: the old lot stays in Part-DB and only the dead row
  names it.

## 6. Plan

Done, in this order: `Outbox`, `Delivery`, `LotSync` and `CameraScanner`; then
`Inventory`, `Requests`, `Controller` and `Remote`; proofs about all of them. Left:

1. The reset under working ticks, over `Outbox`: it empties the table while batches
   are held.
2. `Requests` composed with `Controller`: the retry after a timeout, once the
   frontend keeps its key.
