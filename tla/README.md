# Verification of Darth Scriptum

Darth Scriptum is a macOS Markdown editor.  Its documents are ordinary files
that other programs may write at any time, and it promises never to lose a byte
of either side.  Diagrams and formulas are drawn by JavaScript libraries in
hidden web views, which may hang, end or answer late.  This directory holds
TLA+ models of the code that keeps documents safe and of the code that draws,
TLC runs that check them on small instances, and TLAPS proofs.

Paths are relative to `Sources/` of the repository.

## 1. Inventory

| part | code | state it keeps | operations |
|---|---|---|---|
| file commit | `Document/Persistence/SafeFileCommitter`, `DurableFileIO` | none of its own; candidate file and directory, target | `commit`: candidate, validation, journal, atomic swap, directory flush, read back, acknowledgement; exclusive creation of a new file |
| commit journal | `Document/Recovery/CommitRecoveryJournalStore` | one JSON file per commit (prepared or a terminal receipt), `liveCommitIDs`, `transactionLock` | `prepare`, `pendingRecoveries`, `acknowledge`, `reconcileCommit` |
| recovery store | `Document/Recovery/SessionRecoveryStore*` | snapshots, raw entries, generation index, deletion and migration journals; FIFO of commands, startup status | `start`, `retryStartup`, `persistSnapshot`, `persistRaw`, `migrate`, `discard`, `reconcile`, `reconcileCommit` |
| synchronization reducer | `Document/Synchronization/Reducer`, `Contracts` | one value: lifecycle, attachment, local and external state, merge attempt, recovery, conflicts, tokens of running effects | one handler per event; returns a state and effects |
| coordinator | `Document/Synchronization/Coordinator` | event queue, tasks of running effects, monitor, scheduler, bridge | `dispatch`, effect execution, results of effects, close, attach |
| save bridge | `Document/Persistence/SaveTransactionBridge` | one installed save, its result | `install`, `store`, `finish`, `cancel` under a lock |
| monitor, scheduler | `Document/Monitoring`, `Contracts/SyncScheduler` | descriptor, pending deadlines | events with tokens |
| codec, merge | `TextFileCodec`, `ThreeWayTextMerger` | none | verified read, decode, three way merge |
| page scripts | `Resources/Mermaid.bundle/mermaid-renderer.js`, `Resources/MathJax.bundle/mathjax-renderer.js`, `mathjax-config.js` | nodes of the page, timers, object URLs | `renderMermaid`, `renderLaTeX`: waits with timeouts, checks of size, sanitizing, baselines, raster picture |
| render session | `Editor/Web/LocalWebRenderSession` | web view, load attempt, waiters, active evaluation, timers | `waitUntilReady`, `evaluateJavaScript`, `reload`, `dispose`, navigation callbacks |
| diagrams | `Editor/Rendering/MermaidRenderer`, `Editor/Presentation/MermaidBlockPresenter` | pending and terminal sources, attempts, cache, slot and its queue | `diagram(for:)`, `complete`, retries, eviction; the pane asks for what it shows |
| source model | `Core/Source` | text, line index, observers | edits, difference, selection transformation |
| editor | `Editor/*` | panes, rendering queues, caches, web sessions | binding, rendering, image loading |
| application, workspace | `App`, `Workspace`, `DesignSystem` | windows, documents, settings | AppKit glue |

### How they interact

`MarkdownDocument` forwards edits, opens, saves and closes to the coordinator.
The coordinator queues events, runs the reducer on each and executes the
effects it returns; every effect carries a token (lifetime, attachment epoch,
operation, attempt), and its result comes back as an event that the reducer
accepts only while that token is the active one.  A save goes through the save
bridge into NSDocument's writer, which calls the committer on a file lane.  The
committer writes a journal into the recovery directory, which the recovery
store of all documents also reads: an import for one document meets the
journals of commits of another, some of them still running.  Recovery
operations of the reducer (persist, migrate, discard, reconcile a commit) are
commands of the store's single lane.

The pane asks the provider of diagrams for every block it shows; a source that
is not cached starts a render, which takes the one slot, waits until the
session has loaded the page, and evaluates the page's function.  The answer is
decoded, cached and published, and the pane asks again.

### What is hard

* Other programs write the file at any time, between any two system calls.
* The process may end, and the power may fail, between any two system calls;
  what was not flushed may be gone.
* Every system call may fail; a failure after the swap leaves the outcome
  of a save uncertain, and the document must not guess.
* The committer, the recovery lane and the main thread run concurrently on
  shared files.
* Results of effects arrive late, after cancellation, relocation or close.
* WebKit owes no callback: a page may hang or its process end, and callbacks of
  a view or script that was given up still arrive.

### What makes each part correct

* commit and journal: bytes that were displaced without being expected are
  found again after any crash; an answer given to the document is true; a
  committed answer survives power loss; recovery can always start again.
* recovery store: a mutation is applied entirely or not at all, generations
  agree with the entries, commands are answered in order.
* reducer: no save while an observation of the file is outstanding, no change
  of attachment while a commit is undecided, no effect of a stale token, a
  close is allowed only when nothing is left to write.
* pages: below its svg element a picture is the harmless part of what the
  library drew, and it fits the limits of the page; where the host's own checks
  are stricter, it is known which pictures they refuse; every call is answered
  and leaves nothing behind.
* session and diagrams: a suspended render is resumed exactly once and with its
  own answer; what stays in view is drawn or given up; rendering comes to rest.
* pure algorithms: equal to their reference definitions.

## 2. Plan

| order | module | models | status |
|---|---|---|---|
| 1 | `FileReplacement` | abstract promise of the persistence layer for one file | done |
| 2 | `FileCommit`, `MCFileCommit` | committer, commit journal, recovery lane, other programs, failures, crashes | done |
| 3 | `FileCommitProofs` | type correctness, evidence invariant, no lost bytes; the answers of the document, and that `FileCommit` implements `FileReplacement` | done |
| 4 | `DocumentSync`, `MCDocumentSync` | reducer, coordinator and their world for a document attached to one file: edits, saves, observations, merges, conflicts, displaced files, uncertain commits, recovery operations, close | done |
| 4b | `DocumentSync` | the same with changes of the attachment (rename, save as, detach), migration of records, untitled documents | next |
| 4c | `DocumentSyncProofs` | type correctness, a writing state has its commit, conflicts are held | done |
| 4d | `DocumentSyncOrderProofs` | a save is alone, a close owes nothing, the reducer is in step with the recovery store | done |
| 5 | `RecoveryDisk`, `AtomicRecovery`, `RecoveryStore`, `MCRecoveryStore` | command queue, startup and retry, generations; deletion and migration journals with a crash at every call, against an atomic store | done |
| 6 | `SvgSanitizer`, `RenderPage`, `MCRenderPage` | the scripts of both pages | done |
| 7 | `RenderSession`, `MermaidRenderer`, `MCMermaidRenderer` | the web session, composed with the slot, the provider of diagrams and the pane | done |
| 8 | `Selection`, `DataFacts` | the members of a sequence that belong to a set; facts about sequences, recursion and arithmetic that the proofs share | done |
| 8b | `MermaidRendererProofs`, `RenderPageProofs` | the safety properties of sections 6 and 7 | done |
| 8c | `RecoveryStoreProofs` | what trimming keeps and generations leave behind; calls are held once | done |
| 8d | `RecoveryInvariant`, `RecoveryDiskProofs`, `RecoveryStoreProofs` | scripts, replays and plans; memory and directory agree; the store implements `AtomicRecovery` | done |
| 9 | `SaveBridge`, `ExclusiveCreate` | hand over of one save between threads; creation of a new file | planned |
| 10 | `SourceModel`, `TextDifference`, `ThreeWayMerge` | pure algorithms against reference definitions | planned |
| 11 | `ImageCache` | image loads, watchers and their cache | planned |

Theorems left: `DisplacedBytesAreTracked` and `CloseIsSafe`; section 8 says
what stays model-checked and why.

## 3. FileReplacement and FileCommit

`FileReplacement` says what the persistence layer promises about one file: an
attempt replaces the file at most once, in one step, by its own payload; bytes
taken out of the file without being known are held until the user discards
them; every answer is true when given and a committed one is never undone.

`FileCommit` models the code step by step.

| variable | code |
|---|---|
| `target`, `cand[c]` | the file at the document's path and at the candidate path of attempt `c` (inode and bytes) |
| `journal[c]`, `durable[c]` | terminal state in the journal file of `c`, as visible and as it survives power loss |
| `unflushed` | the attempt whose swap was not yet followed by `synchronizeDirectory` |
| `raw[c]` | `.raw` and `.raw.json` of the journal's id: payload only, intended artifact, acknowledged artifact |
| `baseline`, `current`, `phase`, `payload`, `expected`, `answer` | the document's durable state, the running attempt, the position in `commit`, its arguments and its result |
| `live`, `ack`, `lane`, `ready` | `liveCommitIDs`; the acknowledgement that holds `transactionLock`; the running command of the recovery lane; `startupStatus` |
| `displaced`, `discarded` | history: what a swap took away, what the user gave up |

The committer is `PrepareCandidate`, `PrepareCandidateFails`, `WriteJournal`,
`Swap`, `SwapFails`, `FlushSwap`, `ReadDisplaced`, `CommitterAcknowledges`.  An
acknowledgement (`AckReceipt`, `AckUnlink`, `AckJournal`) is run for the
committer, an import, `persistRaw` or `reconcileCommit`; `ack` being set is the
held `transactionLock`.  The recovery lane is `ImportScan`, `ImportNext`,
`ImportDone`, `PersistRaw`, `WriteRaw`, `AcknowledgeRaw`, `Reconcile`,
`DiscardRaw`.  `ExternalWrite` is any other program, `ProcessEnds` and
`PowerLoss` the two ways to lose memory.  Each step that performs a system call
has an alternative in which the call fails (`Fault`), and the error is handled
as the code handles it, including calls that fail after their effect (a
directory synchronization that throws after the rename).

Decisions of the model:

* A file is an inode and its bytes.  The inode of a candidate is named after
  its attempt; inodes are not reused.  Equal bytes stand for equal digests.
* Other programs act on the path.  A program that writes through a descriptor
  of the displaced inode it opened before the swap is outside the model.
* The replacement directory exists exactly while its candidate does.
* File systems order changes of a directory: an unflushed swap can be undone
  by a power loss only while it is the last change there.
* The in-place validation of the preimage is one step; everything after it,
  up to the swap, can interleave with other programs.
* Another document is an import that may start at any time.
* A scan that throws is a disabled action: nothing has changed and it may be
  tried again.
* The raw payload and its metadata are not reverted by power loss; only the
  commit journal distinguishes visible from durable contents, because its
  order with the swap is what the protocol depends on.
* Discarding a raw entry is one step here; its deletion journal belongs to
  `RecoveryDisk`.
* Journals of schema 1 and 2 are not modelled.

### Runs

| run | instance | what it shows |
|---|---|---|
| `commit_safety` | 2 attempts, 2 contents, 2 foreign inodes, 1 external write, 1 failing call of any of 11 kinds, 1 crash or power loss, fairness; 754,575 states | `TypeOK`; `ForeignBytesStayReachable`; `EvidenceIsKept` (the invariant of the proofs); `KeepsPromise` (implements `FileReplacement`); `RecoveryStarts` |
| `missing_target` | 1 attempt, no failing call | violates `UnswappedJournalIsConsumed` (section 9) |
| `journal_sync` | 1 attempt, only the directory synchronization may fail | violates `PreparedJournalOwnsCandidate` (section 9) |

Two attempts are needed for an import of one while the other is live; one
failure and one crash in any order give every combination of a failing call, a
restart and an acknowledgement that is repeated.  One run checks safety and
liveness, hence no symmetry.  The safety properties of this run are theorems
for every bound (section 8); they were also checked once with two external
writes and symmetry (831,662 states), which is what it takes to replace a file
on both sides of a swap, and with two failures and two crashes (6.8 million
states).  `CHECK_DEADLOCK` is off because the bounds on writes, failures and
crashes end behaviours.

Fairness (`FairSpec`): the recovery lane runs the commands it has begun, and a
failed startup is tried again.  The lane is an actor draining its queue, and
`retryStartup` or the next document that opens starts the import again.  No
fairness is assumed of the committer, the user or other programs.

## 4. DocumentSync

The reducer is a pure function from a state and an event to a state and
effects.  Each handler of the code is an operator from states to states; the
effects it returns are added to the field `effects` of the state, so that a
handler and the coordinator's bookkeeping are one step, as they are on the
main thread.

| variable | code |
|---|---|
| `sync` | `DocumentSyncState`: `lifecycle`, `source`, `baseline` (`durableBaseline`), `local`, `external`, `merge` (`mergeAttempt`), `signalPending`, `access` (`recoveryAccess`), `recovery`, `barrier` (`recoveryMutationBarrier`), `cleanup`, `uncertain` (`uncertainCommit`), `pendingConflict`, `pendingDisplaced`, `unresolvedDisplaced`, `issue`, `active` (`activeTokens`); and `effects`, what the coordinator has started; `displaced` is history: the texts conflicts took out of the editor |
| `file`, `inodes` | the file at the document's path: text and inode |
| `store` | the records of this document in the recovery store |
| `artifacts` | displaced files that only the commit journal holds |
| `journal` | what became of the last commit whose outcome is unknown |
| `budget` | what is left of the bounds |

An effect is a record with its operation, its token and its request.  Effects
that do input or output have two steps: they are carried out on the world
(`CommitValidates` and `CommitExecutes`, `ReconcileCommitExecutes`,
`ReadExecutes`, `RecoveryExecutes`) and get an answer, and the answer is
delivered at any later time (`FinishCommit`, `FinishReconciliation`,
`FinishRead`, `FinishRecovery`).  Deadlines, notices of the monitor,
preparations and merges are effects whose delivery is their only step.
`Receive` is `dispatch`: it ignores a result whose token is not the active one.
The user is `Edit`, `RequestSave`, `UserRetries`, `UserRestores`,
`UserDiscardsRaw`, `UserCloses`; the host is `HostCloses` and `HostCancels`;
`OtherProgram` writes the file in place, replaces it or deletes it.

Decisions of the model:

* A text is a set of atoms.  The merge decides atom by atom, and may report a
  conflict whenever both sides changed and differ.
* A token is only compared with the active one, so a new token is the smallest
  number that nothing outstanding carries; entry identifiers likewise.
* A commit is validate, then swap: other programs can come between the two,
  and their file is then the displaced one.  The details are `FileCommit`'s.
* The store serves the commands of one document in order, but for
  `reconcileCommit`, whose place among them is left open.  Other documents do
  not change its records, and their reconciliations, which import too, are left
  out.
* A reconciliation runs the import of the store (`Imported`): what lies beside
  the journal of an ended commit becomes a raw entry, and the journal goes.  It
  throws when a commit did not swap and the file is gone (`ImportThrows`).  The
  import at startup is over when the model begins; that a load may fail later is
  more than the code does.
* A commit of unknown outcome always has its journal.  An error before the
  journal that is no `CommitError` (a full disk while the candidate is written)
  makes the reducer wait for a journal that never was; that is left out, and
  ends as in the finding `journal_consumed`.
* Deadlines and computations that are cancelled do not deliver (the scheduler
  and the tasks check); input and output operations are not cancelled.
* A notice is due after each change while the monitor is active.  The gap
  while a monitor starts, and the descriptor of a replaced inode, are left out.
* The process does not end here; `FileCommit` has the crashes.
* Requests of the user other than edits and close are counted by
  `MaxDecisions`: retry without a bound repeats for ever.
* `operationFailed` of a merge is left out: the merger throws nothing but
  cancellation, which is not reported.

### Runs

| run | instance | what it shows |
|---|---|---|
| `sync_settles` | 2 edits, 2 foreign writes, 1 decision, fairness; 126,261 states | `CommitIsTracked`, `ObservationIsDecidedFirst`, `Converges` |
| `sync_faults` | records left in the store (a snapshot equal to the base or not, or none, with or without a raw entry), 1 edit, 1 foreign write, 1 decision, 1 close that may be cancelled, 1 failure of 9 kinds; 732,189 states | `TypeOK`, `NothingIsOwed`, `PersistingIsUnderWay`, `WritingIsUnderWay`, `RecordsAreKnown`, `ConflictIsHeldUntilStored`, `DisplacedBytesAreTracked`, `CloseIsSafe` |
| `conflict_lost` | 2 edits, 2 foreign writes | violates `ConflictTextIsHeld` (section 9) |
| `save_before_merge` | a snapshot in the store, a restore, a close | violates `ObservationIsDecidedFirst` (section 9) |
| `recovery_issue_erased` | a snapshot and a displaced file in the store, 1 edit, 2 failures (a commit of unknown outcome, a recovery command), 2 decisions | violates `FailedRecoveryIsShown` (section 9) |
| `journal_consumed` | the same with 3 decisions | violates `UncertainCommitIsProvable` (section 9) |

Two edits and two foreign writes are needed for a change on each side after a
commit was contested; the second write makes the merge of the displaced file
meet another change.  `sync_faults` has one of each because every failure may
come at every point of it.  Beside the run, its properties were checked once on
larger instances: two decisions (1.9 million states), two closes (3.5 million),
two foreign writes,
three decisions and saves during a merge without failures (13.9 million), and
two edits with two decisions and saves during a merge (534,000).  One atom per
side is enough: the handlers compare texts for equality only, and the merge has
its four cases per atom.  `EntryLimit` is the code's and is not reached; trimming
belongs to `RecoveryStore`, and what happens at the limit is said below.
`TypeOK`, `WritingIsUnderWay`, `RecordsAreKnown` and `ConflictIsHeldUntilStored`
are theorems for every bound, `CommitIsTracked`, `ObservationIsDecidedFirst`,
`NothingIsOwed` and `PersistingIsUnderWay` under the premises of section 8.

`DisplacedBytesAreTracked` says where the bytes are that a commit took away: in
the recovery store, known to the program, or behind the barrier.  The last is
the case of a contested commit that is answered, or found by a reconciliation,
while another recovery operation is active: `failRecovery` keeps no continuation,
but it raises the barrier, nothing is saved, and the reconciliation which alone
lowers it imports the bytes.  The durable baseline does not move while they are
behind the barrier.

`CloseIsSafe` has two parts.  For every close, after any failure and also the
second one, no cleanup is left and no displaced file that the program knows of is
outside the store.  That the file holds the editor's text, or a notice of a
later change is on its way, is claimed of the first close of a document in which
nothing has failed and whose file exists.  The code gives no more: an edit
clears the issue that a failed read or monitor left (`sourceChanged`), and a
close is then allowed without the observation that failed, also of a document
whose file is gone; a failed mutation stops the monitor, and the retry that
reconciles does not start it again; and `monitorSignaled` ignores a notice while
a close is allowed, which is lost when the host cancels the close.

`CHECK_DEADLOCK` is off because the bounds end behaviours.

Fairness: `FairSpec` is weak fairness of `ProgramStep` as a whole: while a
deadline, a task or a delivery is due, one of them happens.  The main queue,
the scheduler's timers and the tasks go on; their order is not assumed, and
nothing is assumed of the user, the host or other programs.

What the passing runs leave out, and why.  These are behaviours of the code
that were met while modelling; each makes some property of these runs false,
and the instance says so by a `Request` or a `FaultKind`:

* A save or retry asked for during a merge (`saveDuringMerge`) starts a commit
  beside the merge, the same as in the finding `save_before_merge`.
* `progressManagedClose` with a cleanup left and an observation pending
  schedules neither; only the close deadline ends the wait.  A close with a
  cleanup also breaks `ObservationIsDecidedFirst`, so `sync_settles` has none.
  With `MaxCloses = 1` and one foreign write its properties hold (281,890
  states): a close then ends, allowed or refused, and the document settles.
* Retry of a failed save while an observation is pending clears the issue and
  schedules nothing.
* At the limit of records the store trims the oldest one when it stores
  another.  `recordsPreserve` (`DocumentSyncReducer+RecoveryEvents.swift:247`)
  then takes the answer for a loss and the reducer ignores it, so the state
  stays `persisting` with an active token, no command and no issue, and the
  document does not save again; a close deadline starts a reconciliation, whose
  answer does not fit either.  No failure is needed: with `EntryLimit = 1`,
  `StoredTexts = {{"u"}}`, `StoredForeign = {}`, `MaxRevision = MaxExternal = 2`,
  `MaxFaults = MaxCloses = 0`, `MaxDecisions = 1` and the requests `restore`,
  `save`, `retry`, TLC finds it in 13 states.  `PersistingIsUnderWay` holds below
  the limit only.
* The import of a reconciliation may bring in bytes that the interrupted change
  does not expect.  `reconciliationResult` (`DocumentSyncReducer+RecoveryRecords.swift:103`)
  then recognises neither the records before the change nor those after it, and
  the reducer ignores the answer: the state stays `persisting` and `loading`,
  nothing is saved, and a reconciliation after the close deadline ends the same
  way.  No failure is needed.  It is the one exception `PersistingIsUnderWay`
  names (`BroughtIn`); without it, on the instance of `sync_faults` with
  `StoredTexts = {{}}`, `MaxFaults = 0` and `MaxDecisions = 3`, TLC finds in 16
  states: the user restores, saves, and discards a raw entry while the commit is
  contested; the answer about the commit raises the barrier, the user retries,
  and the reconciliation of the discard imports the displaced file.
* Two failures: `FailedRecoveryIsShown` and `UncertainCommitIsProvable` (section 9).
* `NothingIsOwed` needs that no save runs beside a merge.  The finding
  `save_before_merge` breaks it too, on the instance of that run with
  `MaxRevision = 3` (16 states): a restored record, a write of another program that
  is being merged, and a close, which schedules a save beside the merge; the merge
  ends, the cleanup discards the restored record, the user edits back to the
  baseline, and the close is allowed while the commit is still in the bridge.
  `sync_faults` has one edit and does not reach it.

## 5. RecoveryStore

`RecoveryDisk` is the directory and what is written to it.  A transaction is a
script, the sequence of durable calls it makes (write, rename to a tombstone
and back, unlink, generation index, the two journals), and the import is a
function from a directory to the script that replays its journals and the
memory it leaves.  A loop over artifacts is one entry of a script with the set
of them, of which a step takes any one (`Parts`, `Left`).  `RecoveryStore` is
the actor: it runs scripts one call at a time, so the process may end, or a call
throw, at every position.
`AtomicRecovery` is what the store promises: a record appears, a set of records
goes, a document moves, each in one step, and no generation falls.

| variable | code |
|---|---|
| `disk` | artifacts under their own names and under tombstone names, generation index, deletion and migration journal |
| `status`, `startupQueued` | `startupStatus`, `startupCommandQueued` |
| `memory` | `entries`, `rawEntries`, `mutationGenerations` |
| `commands`, `draining`, `run` | the FIFO, `isDraining`, the command the drain awaits with what is left of its script |
| `client` | what each document waits for or has to reconcile |
| `outdated` | history: a mutation was planned over a generation index older than the one on disk |

Calls are `RetryStartup`, `Load`, `LoadReady`, `Mutate` (`PersistSnapshot`,
`PersistRaw`, `Migrate`, `Discard`), `Reconcile` and `ReconcileCommit`; the
drain is the `Take` actions and `Work`.  `Fault` is a durable call that throws
before its effect or in the directory synchronization after it, `Crash` the end
of the process.

Decisions of the model:

* The journals are read as their code reads them: a transaction being prepared
  has not happened, a committed one has (`DurableRecords`,
  `DurableGenerations`).  This is the refinement mapping.
* Records have the size of one unit, so the byte limit of the history is
  `HistoryLimit` records; identifiers follow creation.
* Acknowledged artifacts of raw records and commit journals are `FileCommit`'s.
* A document has one recovery operation at a time, as the reducer does, and
  reconciles a mutation that failed before it sends another.
* No document opens at an identity another one is moving to (`Closed`), and a
  document moves only to an identity nobody has open.
* The code walks the artifacts of a journal in the order of its array, the model
  in any order.  A rename whose directory synchronization failed is not taken
  back.
* What an earlier process left (`Stored`) is finitely many records with numbers
  as identifiers and a generation for every key (`StoredAssumption`); the
  value that stands for no journal is no journal (`NoneAssumption`).
* Generations are natural numbers; the code's are 64 bits wide.

| run | instance | what it shows |
|---|---|---|
| `recovery_store` | 2 documents and a third identity, an empty store or one with 3 snapshots, a displaced file and advanced generations, every kind of command, 4 calls, 1 failing call, 1 crash, fairness; 625,121 states | `TypeOK`; `RestartIsPossible`; `ImportIsFaithful`; `MemoryAgrees`; `EveryCallIsHeldOnce`; `StoreIsAtomic` (implements `AtomicRecovery`); `CallsAreAnswered` |

Three snapshots with limits of two per document and one of history are enough
to trim by both limits; the third identity has a higher generation than
one of the documents, the case `MigratedGenerations` exists for.  One failure and one
crash cover a failing call, the retry that replays its journal, and a crash in
that replay.  Deadlock is not checked because the calls end.

Fairness: the actor's task takes the next command and the file lane answers
(`TakesOne`, `WorksOn`).  Nothing is assumed of the documents; mutations kept
by a store whose startup failed wait for somebody to retry it, which
`CallsAreAnswered` says.

Behaviours of the code that the properties name as exceptions:

* `TrimsOthers`: a snapshot that trims only entries of other documents writes a
  deletion journal whose generations change for the document and the trimmed
  ones while its artifacts name only the trimmed ones.  A replay requires both
  to be equal (`SessionRecoveryStore+DeletionIO.swift:82`), so after a crash in
  that window every start throws `malformedData`.
* `outdated`: when the directory synchronization after the last call of a
  command fails, the command is answered as failed, no journal is left and the
  actor keeps the generations it had.  Until the next import it plans over an
  index the directory has left behind, and a mutation of another document may
  write the older generations back.
* `OrphanPayload`: a payload without metadata stops every import.  The comment
  in `SessionRecoveryStore+DiskIO.swift:57` says that this is intended.
* A second startup that was queued while the first one ran may fail and turn a
  ready store into a failed one (`SessionRecoveryStore.swift:555`).

## 6. SvgSanitizer and RenderPage

`SvgSanitizer` is the loop `sanitize` of both pages as a fold over the snapshot
of the elements, and beside it what the loop promises, said without a loop
(`IsCleanPictureOf`).  `RenderPage` is the state of one page during the calls
of the host.

| variable | code |
|---|---|
| `page`, `loaded`, `startup` | which script it is, whether its library was loaded, `MathJax.startup.promise` |
| `call` | the call under way: its number, the await it is suspended in, font size, the picture in hand |
| `answer` | what the last call returned |
| `nodes` | nodes of pictures and of Mermaid's scratch in the document |
| `timers` | timers armed by `withTimeout` |
| `library`, `images` | external: renders the library still works for, object URLs that exist |

`RenderMermaid` and `RenderLaTeX` are the functions up to their first await,
`RenderResolved`, `RenderRejected`, `ImageLoads`, `ImageFails`,
`StartupPasses`, `StartupThrows` and `Typeset` what follows each await,
`TimerFires` a timeout.  `LateRender` and an image whose call gave up are what
a timer that won leaves running.  `HostOutcome` is `decode` of the host.

Decisions of the model:

* A drawing is a tree of nodes of six kinds below an svg element, the place of
  one text, its boxes and its lengths.  An attribute is a name and a value, of
  those that a page or the host tells apart: `href` with an anchor after a
  space, or `url()` of a file in `fill`, are cases of their own.
* The svg element carries attributes too.  `querySelectorAll("*")` does not
  return it, so the loop leaves them as they are; the Mermaid page then takes
  its `style` away (`Unstyled`).  `PictureIsClean` says both.
* The host's checks are the patterns of `isSafeSVG` (`ReadsActive`), not those
  of the pages (`ForbiddenAttributes`).  A PNG is anything of `PNGs`: with or
  without its prefix, decoded or not, taken for an image or not (`OpensAsImage`).
  The SVG of MathJax may not open as an image either.
* The cost of a picture counts the pixels of the screen (`BackingScale`).
* Without its library `MathJax.startup.promise` is undefined, so the wait passes
  at once, the nodes are emptied and `tex2svgPromise` throws.
* Lengths are integers, `Unit` of them to a pixel.
* The library draws anything of `Drawings`, in the order of its calls, may
  reject (`RenderRejected`, `TypesetRejected`) and may hang; Mermaid works on one
  render at a time.
* The limits are those of the code divided so that each can be met and
  exceeded by a small drawing.

| run | instance | what it shows |
|---|---|---|
| `render_page` | both pages, 2 calls, every tree of 3 nodes and every tree of 4 elements of 3 kinds with six attributes on each, every attribute alone on the root and below it, 64 sizes, 21 places of a text, lengths in every unit, fairness; 46,329 states | `PictureIsClean`, `TextStaysInPlace`, `RasterFits`, `HostAcceptsThePicture`, `PageIsLeftClean`, `TimeoutIsTransient`, `EveryCallIsAnswered`, `ObjectURLsAreRevoked` |

`IsDrawing` says what a drawing is: nodes numbered in document order, nothing
below a text; `DrawingAssumption` asks no more of the library.  The loop of
`sanitize` changes the tree it walks; `IsCleanPictureOf` says the result from the
document alone (`Lineage`, `Shown` as least closed sets).  All safety properties
of this run are theorems (section 8).

Two calls are what it takes for the end of one to meet the next.  A tree of
four elements has a link in a removed element in a link, the deepest case the
loop distinguishes.  Fairness: timers fire (`setTimeout`); the library and the
image may hang, and `EveryCallIsAnswered` holds all the same.  That a URL is
revoked needs that images end, well or badly: `ObjectURLsAreRevoked` has it as
its premise.

Met while modelling, and left as the code has it:

* The catch clause of the Mermaid page turns every rejection but a timeout into
  `invalid-diagram`, which the host takes for a fault of the source, also when
  only the raster picture failed (`raster-context-unavailable`,
  `raster-output-too-large`, `raster-image-failed`).
* The page limits the UTF-16 length of a picture and 24 MiB of base64; the
  host limits its UTF-8 bytes and 16 MiB of PNG.  What lies between is answered
  by the page, refused by the host as a transient failure and tried three times.
* Page and host do not look for the same things.  The host alone refuses
  `@import` and `url()` of another place in an attribute other than `style`,
  `url()` of a file in any attribute or style element, an anchor after a space,
  an attribute whose name ends in `href`, active attributes of the svg element,
  and what labels say, so a label that reads like markup is never drawn.  It
  tries each of them three times.  `HostAcceptsThePicture` lists these cases
  (`HostDisagrees`), and says that there are no others.
* The two waits of a page last up to ten seconds together, the session's six.

## 7. RenderSession and MermaidRenderer

`RenderSession` is `LocalWebRenderSession` with WebKit's callbacks as external
actions.  `MermaidRenderer` extends it by the slot of `MermaidWebRenderer`, the
provider and the pane.

| variable | code |
|---|---|
| `hasEntry`, `disposed`, `ready`, `view` | `resourcePolicy`, `isDisposed`, `isReady`, `webViewStorage` |
| `load`, `loadTimer`, `waiters` | `activeLoadAttempt` and its navigation, `loadTimeoutTask`, `loadWaiters` |
| `active`, `evaluationTimer` | `activeJavaScriptEvaluation`, `javaScriptTimeoutTask` |
| `navigations`, `calls`, `loaded` | external: navigations and scripts that have not called back, whether the page of the present view is loaded |
| `task`, `answer` | where the render of each source is suspended and what its evaluation returned |
| `rendering`, `queue` | `isRendering`, `renderWaiters` |
| `cache`, `cacheCost`, `terminal`, `attempts`, `delayed` | cached sources by recency, running cost, `terminalKeys`, `transientAttempts`, retries that sleep |
| `scheduled`, `shown`, `changes`, `resets` | the pane's pending update, the blocks it presents; bounds |

`WaitUntilReady` is `NotWaiting`, `JoinsLoad`, `BeginsLoad` or `LoadIsRefused`;
`Evaluate` and `EvaluationIsCancelled` start a script or refuse to.
`NavigationFinishes`, `NavigationFails`, `CallEnds` and `ProcessTerminates` are
callbacks, `LoadTimesOut` and `EvaluationTimesOut` the timers, `Reload` and
`Dispose` the owner.  `AcquireRenderSlot` and `RenderEnds` take and pass on the
slot; `RenderEnds` is also `complete` with its cache, marks and retries.
`Apply` is the pane asking for all it shows, `Show` another part of the document.

Decisions of the model:

* A navigation knows its load and whether its view is the present one; a script
  knows only the number of its evaluation, as its completion handler does.
* New numbers are the least that nothing in use carries.
* `Late` bounds the callbacks of loads and scripts already given up
  (`MaxLate`); which of them still come is any choice.
* `DocumentOrder` names each source once: the pane asks for a source, not for a
  block.
* The access order of the cache is the order of its keys.  `decode` refuses a
  picture that alone exceeds the cache, hence `Cost \in [Sources -> 0..MaxCost]`.
* Some sources may start with one attempt left (`FailedBefore`): a state that
  earlier transient failures and their sleeps lead to.
* A navigation that ends at another address than the page's never calls back
  here; its load ends by the timer, as in the code.
* `reload` and `dispose` have no caller outside the tests; they are actions
  because the session offers them.  Cancelled tasks and `loadsEntry: false` are
  left out: no production code reaches them.

| run | instance | what it shows |
|---|---|---|
| `render_session` | 3 diagrams of which 2 are pending at a time, documents that show two of them and then another two, room for two pictures, 2 attempts, 1 late callback, 1 reset, fairness; 130,470 states | `TypeOK`, `EveryAwaitIsHeldOnce`, `NobodyWaitsUntimed`, `ReadyMeansLoaded`, `AnswersAreOwn`, `NoRenderIsTurnedAway`, `CacheIsBounded`, `ShownIsDecided`, `RenderingSettles` |

Three diagrams that do not fit the cache together make it evict one that is
shown again; two pending at a time make the pane leave one out; a late callback
meets the load or script after it; a reset comes at every point.  Deadlock is
not checked: rendering comes to rest.

Fairness: the main actor runs what is ready, the sleeps end and the timers
fire.  WebKit owes nothing: not one navigation or script need call back, so
`ShownIsDecided` and `RenderingSettles` rest on the timeouts alone.

What the liveness properties leave out, because the code does so:

* When the limit of recorded failures is reached, `markTerminal` records and
  publishes nothing: a source that fails then may not be asked again, or be
  tried for ever.
* Two diagrams in view whose pictures do not fit the cache together evict each
  other for ever; `Documents` of the run fit.

## 8. Proofs

`FileCommitProofs` proves for every value of the constants that satisfies
`CommitAssumption` (attempts and foreign inodes are disjoint, `Nothing` is none
of the values, the bounds are naturals):

* `TypesHold`: `Spec => []TypeOK`
* `EvidenceHolds`: `Spec => []EvidenceIsKept`
* `NoForeignBytesLost`: `Spec => []ForeignBytesStayReachable`

`ForeignBytesStayReachable` is not inductive: it says nothing of who may remove
a candidate or consume a journal next.  `EvidenceIsKept` adds that, in three
parts: `Ownership` (a running committer owns its journal; the lane and its
acknowledgements work only on attempts that have answered), `Location` (where
the inode of an attempt and the inode it displaced are) and `Evidence` (a
journal leaves the prepared state, and an acknowledgement starts, only when the
displaced bytes were expected or are in a raw entry).  There is one lemma per
action; `NextKeeps` puts them together, `Inductive` is the temporal conclusion.

Its second part proves `AnswersHold` (what the document and the recovery
lane were told of an attempt is true and stays true) and from it
`CommitKeepsPromise`: `Spec => KeepsPromise`, that `FileCommit` implements
`FileReplacement`.  `EvidenceIsKept` says where the displaced bytes are; the
refinement mapping also needs what was answered about them, hence the second
invariant.  Every action has two lemmas: it keeps the invariant, and it is a
step of the promise or a stutter.

`DocumentSyncProofs` proves under `SyncAssumption` and `TextAssumption`:

* `TypesHold`: `Spec => []TypeOK`
* `WritingAnswers`: `Spec => []WritingIsUnderWay`
* `ConflictIsHeld`: `Spec => ConflictIsHeldUntilStored`

A handler of the reducer is a composition of conditional changes of one state.
`Reacts(s, r)` says what every one of them does: `r` is `Calm` (well typed,
effects belong to the state that waits for them, a held conflict has its
attempt), and it `Leads` from `s` (no commit is taken back, calls of the store only
grow and the active one is new, a conflict that is held is not dropped).  The
relation composes, so there is one lemma per handler and the events put them
together.  The invariant `IInv` adds what the world knows: an active call of the
store is alone with its token, its answer tells what is stored, a conflict the
store accepted is in the records it returned (`Current`, `StoresConflicts`), and a
writing state has its commit (`HasCommit`).

`DocumentSyncOrderProofs` goes on from there, and leaves out what makes the
properties false (section 4).  No save is asked for during a merge
(`"saveDuringMerge" \notin Requests`), and either the document is not closed
(`MaxCloses = 0`):

* `OpenCommitsAreTracked`: `Spec => []CommitIsTracked`
* `OpenObservationsAreDecidedFirst`: `Spec => []ObservationIsDecidedFirst`

or the premise `[]ClosingMergesFirst` says that a close which waits for a cleanup
has no merge under way.  It is a condition on behaviours, the one under which
`progressManagedClose` may schedule a save without looking at the merge; failures,
external writes and every other request are free:

* `CommitsAreTracked`, `ObservationsAreDecidedFirst`: the same of a document that
  is closed
* `ClosingOwesNothing`: `Spec /\ []ClosingMergesFirst => []NothingIsOwed`

`Orderly` is the inductive invariant of the first four.  `CommitIsTracked` alone is
not inductive, because a commit is forgotten by whatever moves the local state
on beside it: `SavesAlone` says that nothing does, a save that is due, prepared or
written excludes a merge, an uncertain commit and displaced bytes that wait, and
`WritesCommit` that a commit in the bridge is the only one and has both tokens.
`ClosingOwesNothing` needs `Accounted`.  While a document is open, it says that a
change of the store that has not been carried out, an active recovery token or a
barrier belong to a recovery that is persisting (`Served`), and that a preparation
whose answer is still to come is the one that is waited for (`Prepared`); once a
close is allowed, nothing is under way but answers that will be ignored (`Quiet`).
`Still` relates two states that differ in neither; the handlers compose, one
lemma each, as in `DocumentSyncProofs`.

Its last part is about the reducer and the recovery store, also under
`AnswerAssumption` (`None` is not an answer of the store):

* `StoreIsKnown`: `Spec => []RecordsAreKnown`, with no premise
* `ChangesAreAttended`: `Spec /\ [](Len(store.decoded) < EntryLimit) =>
  []PersistingIsUnderWay`.  Below the limit it is thus a failed store, or an
  import that brings in bytes the change does not expect, that leaves a recovery
  without a command; what the user is shown of a failed store is the subject of
  `FailedRecoveryIsShown` (section 9).

The inductive invariant is `InStep`.  What a state shows is what is stored, and
while it is persisting, what was stored before or after the change (`View`); a
change not yet carried out is the one remembered, was asked of the records that
are there, and is alone (`Requested`); the state is the one in which the
reducer takes the answer of the active call (`ActiveIsAwaited`), because of
which the answer of that call is not ignored; and a change
that was interrupted has raised the barrier (`ChangeIsHeld`), without which
a close deadline could forget a change that the store still carries out.
An import changes what is stored while a change waits.  What it brings in lies
beside a journal, and is in neither the records nor what a change expects
(`OutOfStore`; entries of the store get new identifiers, `FreshEntryIsNew`), so an
import is seen for what it is: the records are as before, as after the change,
or have been brought in (`ImportIsKnown`, the third case of `View`).
`Waits` adds for the second theorem that a change which is remembered has a
call under way, unless such bytes were brought in.  The answer of that call is
used or reconciled if the store kept the records that were expected of it, which
the list does while it has room (`RoomPreserves`).
Most handlers do not touch any of this (`Spares`).

`DataFacts` holds what the other proofs share.  The provers cannot instantiate
the induction theorems of the library, whose premise is an operator; here
induction is stated for sets (a set of numbers without a least counterexample) and
follows from well-foundedness.  A recursive function exists because its
initial parts do (`RecursionExists`).  `Selected`, the members of a sequence that belong to a
set, keeps their order and number (`SelectionSteps`, `SelectedMembers`,
`SelectedDistinct`, `MembersAreCounted`).

`MermaidRendererProofs` proves for every value of the constants that satisfies
`BoundsAssumption`, `SourcesAssumption`, `DocumentAssumption` and
`LimitsAssumption` (finitely many sources, each in the document order; limits
are numbers, the limit of pending renders is not zero):

* `TypesHold`: `[]TypeOK`.
* `AwaitsAreHeld`, `WaitsAreTimed`, `ReadyIsLoaded`, `AnswersBelong`,
  `NobodyIsTurnedAway`: `[]EveryAwaitIsHeldOnce`, `[]NobodyWaitsUntimed`,
  `[]ReadyMeansLoaded`, `[]AnswersAreOwn`, `[]NoRenderIsTurnedAway`.
* `CacheStaysBounded`: `[]CacheIsBounded`.

None of them is inductive alone.  `IInv` adds `CallsKnowTheirCaller` (a script
that carries the number of the active evaluation was started by it),
`PresentViewExists`, and `PendingIsBounded`.  The last carries the argument
about the slot: what the pane starts has different ranks below the number of
free places (`RankFollowsPosition`, `FirstFits`), a queue without repetitions
is as long as the set it holds (`MembersAreCounted`), and the queue, the render in
the slot and the one that asks are all pending, so there is room
(`QueueHasRoom`).

The bound of the cache is a sum over a sequence: a source that is pending is not
cached, the cost of a sequence without repetitions depends on its set alone
(`CostIsOfTheSet`), so moving a source to the end keeps it and evicting one
takes its cost away.

`RenderPageProofs` proves under `RenderPageAssumption` and `DrawingAssumption`
every safety property of `render_page`:

* `PagesAreLeftClean`: `Spec => []PageIsLeftClean`
* `TextsStay`: `Spec => []TextStaysInPlace`
* `PicturesFit`: `Spec => []RasterFits`
* `PicturesAreClean`: `Spec => []PictureIsClean`
* `PicturesAreTaken`: `Spec => []HostAcceptsThePicture`
* `TimeoutsAreTransient`: `Spec => TimeoutIsTransient`

The invariant says that a waiting call has exactly its own timer, that scratch
in the document belongs to a render the library still has, and that a picture
in hand was made from one of the drawings.  `PicturesFit` rests on integer
arithmetic: the scale is kept as a proportion and the square root is taken once, so
a raster is as large as its limits and its proportions allow.
`PicturesAreTaken` says of every drawing when the host refuses it: the patterns of
page and host are compared name by name and value by value.

Its first part is `SanitizedIsClean`: whatever document the loop of `sanitize` is
given, it leaves what `IsCleanPictureOf` says, below the root and without touching
the root's attributes.  The loop removes
nodes and unwraps links while it walks a snapshot of the elements; its invariant
`Walked` says that after `k` nodes each node holds, in document order, the nodes
still standing whose nearest ancestor that is not gone it is.  Unwrapping splices the children of a link in its
place: the order survives because a subtree has no gap in the order of the
document (`SubtreesHaveNoGap`).

`RecoveryStoreProofs` proves every safety property of `recovery_store`, under
`LimitsAssumption`, `NoneAssumption`, `DocumentsAssumption` and
`StoredAssumption`, for any documents and limits, whatever an earlier process
left, and any number of calls, failing calls and crashes:

* `CallsAreHeldOnce`: `Spec => []EveryCallIsHeldOnce`.  The queue and the running
  command together hold every call once (`Lane`), what a document waits for is
  what they hold (`Reflects`), and two documents never claim one identity
  (`Claims`), so the end of a move wakes nobody who waits for something else.
* `TypesHold`, `RestartsArePossible`, `ImportsAreFaithful`, `MemoryAlwaysAgrees`:
  `[]TypeOK`, `[]RestartIsPossible`, `[]ImportIsFaithful`, `[]MemoryAgrees`.
* `StoreKeepsPromise`: `Spec => StoreIsAtomic`, the store implements
  `AtomicRecovery`.
* `NewestIsKept`: a record that no newer one of its document follows survives
  `Trim`; with `TrimIsASelection`, `Trim` only removes.
* `AdvanceRaises`, `MoveLeavesBehind`: the generations a deletion and a move
  write are above the ones they replace, which the actions of `AtomicRecovery`
  ask of the store.

None of the state properties is inductive: they speak of moments (an import has
ended, nothing runs), and what makes them true is what the rest of a script
will still do.  `RecoveryInvariant` holds the invariant, `StoreInvariant`
(`StoreStaysSafe`: `Spec => []StoreInvariant`):

* The directory is in order (`IsDisk`): one journal at a time, a tombstone only of
  an artifact its journal names; and, unless a command was planned over an index
  left behind, it can be replayed (`IsSound`: its journal describes it).
* The script that runs `Follows`: before each of its calls, and wherever a loop
  over artifacts is interrupted, the directory is in order, and every call is a
  step of what the script is for.  A replay leaves records and generations as the
  journals give them; a transaction adds records of its own document, and once
  discards or moves records together with the generations it was planned to
  replace.  Looking ahead is what lets a step be taken: the rest of a script
  that follows follows (`StepFollows`), also when it was interrupted within a
  loop (`LoopGoesOn`, because the calls of one loop commute).
* An import that will succeed has already read what the journals promise
  (`ReplayIsSafe`); a transaction that will succeed ends with the memory it was
  planned to (`Lands`).
* Memory and directory differ by what failed writes left (`Near`): extra records
  belong to documents that have yet to reconcile (`Owes`).  This is why a
  document that reconciles later does not disturb another one's transactions, and
  why, when nobody owes anything, they are equal.
* `outdated` is the one way to lose this: then (`Trusted`) nothing is claimed
  about memory until every failed mutation has been reconciled.

`RecoveryDiskProofs` has the scripts.  `DeletionIsWritten` and
`MigrationIsWritten` say that both transactions follow from any directory in
order, `DeletionRollsBack`, `DeletionRollsForward` and `MigrationIsReplayed`
that each replay does from any directory their journal fits, `ImportReplays` and
`SoundRestarts` put the replays together.  `SnapshotIsPlanned`,
`RawIsPlanned`, `StayIsPlanned`, `MoveIsPlanned` and `DiscardIsPlanned` say that what a
command plans over a memory near the directory is such a transaction.  The `...IsSafe` lemmas
are the steps of the running command; `RecoveryStoreProofs` adds queue and
documents, one `...StaysSafe` lemma per action.  For `StoreKeepsPromise`, only a
durable call changes what the journals promise, and a call of a script that
follows is an `Add`, a `Count`, a `Discard`, a `Move` or none (`CallIsAtomic`).

TLC finds `StoreInvariant` (but for `Bounded`, which ranges over the naturals) true
on the instance of `recovery_store`, also with two failing calls (965,404
states); it is not in the run, whose state properties it implies.

Only model-checked, of `DocumentSync`:

* `PersistingIsUnderWay` without the premise of `ChangesAreAttended`: it is false
  at the limit of records (section 4), which the run does not reach.
* `DisplacedBytesAreTracked` and `CloseIsSafe`.  Both relate the steps of commits,
  reconciliations and recovery operations, whose parts of the state the
  invariants here treat one at a time; the second needs further what the
  monitor was told and when, of which they say nothing.

The liveness properties `RecoveryStarts`, `Converges`, `CallsAreAnswered`,
`EveryCallIsAnswered`, `ObjectURLsAreRevoked`, `ShownIsDecided` and
`RenderingSettles` are out of the prover's reach.

## 9. Disagreements found

* `SafeFileCommitter.commit` removes the candidate of a journal that exists
  when `prepare` throws after its rename.  The comment in `commit` says a
  prepared journal owns its candidate until it is acknowledged.  Every later
  import then throws `invalidArtifactPath`.
* A prepared journal that was never swapped cannot be consumed when its target
  does not exist: `inferredTerminalState` reads the target and throws, and the
  recovery store does not start.  The test
  `testPreparedButUnswappedJournalDoesNotCreateFalseRecovery` expects such a
  journal to be consumed.
* A conflict that is found while a displaced file is being stored loses the
  local text.  `persistLocalConflict` puts the external text into the editor
  and declares it clean, and `startRecoveryPersistence` then returns nothing
  because a recovery operation is active, before it has set
  `pendingConflict`.  It happens when a read is answered before a contested
  commit and delivered after it.
  `testFailedConflictPersistenceRetainsLocalSnapshotThroughRetry` expects the
  local snapshot to be kept.
* `progressManagedClose` with a cleanup left schedules a save without looking
  at the merge that is under way, so the text is committed before the bytes
  of the other program are merged.  The comment in `canScheduleLocalSave` says
  that every automatic write is deferred until an observation has a result.  A
  close can then be allowed while that commit is in the bridge (section 4).
* The result of a commit of unknown outcome sets `issue` to nil.  The comment there
  says that it resolves the issue the unknown outcome created, but a recovery
  command that failed meanwhile has replaced it by its own: the document then
  keeps `recoveryAccess` failed and its barrier without an issue, does not save,
  and retry returns at once.
* A reconciliation of the recovery store imports, and the import acknowledges and
  removes every journal of a commit that has ended, also of one of this document
  whose completion has not been delivered.  If its outcome is unknown, the
  reconciliation of that commit finds no journal and answers `unresolved`, after
  every retry again: the document neither saves nor closes.  The comment in `commit`
  says that reconciliation must still be able to prove an uncertain commit.

Two behaviours contradict no comment or test and are described in section 4: the
answer of a reconciliation that imported displaced bytes is ignored, and so is
the answer of a store that trimmed at its limit.

## 10. Not modelled

* Changes of a document's attachment (rename, save as, detach) and untitled
  documents in `DocumentSync`; the save bridge; the exclusive creation of a new
  file; commit journals of older schemas.
* `MathJaxFallbackRenderer`, which repeats the slot over the same session, and
  `AdaptiveLaTeXRenderer`, which chooses between it and a native renderer.
* The image provider with its watchers and coalesced loads.
* The pure algorithms of the source model and the merge.
* Layout, styling and AppKit glue (`Editor/Composition/Resize`, most of
  `Editor/Presentation`, `DesignSystem`, `Workspace`), the vendored MathJax and
  Mermaid libraries, the themes the pages hand to them, and the byte level of
  encodings.

`PROJECT.json` lists every component with its state.
