---------------------------- MODULE DocumentSync ----------------------------
(***************************************************************************)
(* The synchronization reducer of one document attached to one file, with  *)
(* the effects it has started and the world they act on: the file, the     *)
(* programs that write it, the recovery store and the commit journal.      *)
(*                                                                         *)
(* The reducer is a pure function of a state and an event; each handler is *)
(* an operator from states to states.  The effects a handler returns are   *)
(* added to the field effects of the state, and an effect that has been    *)
(* carried out holds its answer until the answer is delivered.  Deadlines  *)
(* and notices of the file monitor are effects too.                        *)
(*                                                                         *)
(* A text is a set of atoms.  A merge takes, for each atom, the side that  *)
(* changed it.  A revision is a number and a text; the durable baseline is *)
(* the revision whose text the file was last known to hold, with the       *)
(* inode it had.                                                           *)
(***************************************************************************)
EXTENDS Integers, FiniteSets, FiniteSetsExt, Sequences, SequencesExt

CONSTANTS
  UserAtoms,        \* what the user types and deletes
  ExternalAtoms,    \* what other programs write and delete
  StoredTexts,      \* texts of snapshots already in the recovery store
  StoredForeign,    \* texts of raw entries already in the recovery store
  EntryLimit,       \* perDocumentLimit of the recovery store
  MaxRevision,      \* bound: the user edits below this revision number
  MaxExternal,      \* bound: writes by other programs
  MaxFaults,        \* bound: effects that fail
  MaxCloses,        \* bound: requests to close
  MaxDecisions,     \* bound: saves, retries, restores and discards asked for
  FaultKinds,       \* the effects that may fail
  Requests,         \* what the user asks for, a subset of Asks
  None

Asks == {"save", "retry", "restore", "discardRaw", "saveDuringMerge",
         "cancelClose"}

ASSUME SyncAssumption ==
  /\ EntryLimit \in Nat \ {0}
  /\ MaxRevision \in Nat /\ MaxExternal \in Nat
  /\ MaxFaults \in Nat /\ MaxCloses \in Nat /\ MaxDecisions \in Nat
  /\ Requests \subseteq Asks
  /\ IsFiniteSet(StoredTexts) /\ IsFiniteSet(StoredForeign)

VARIABLES
  sync,         \* the reducer's state and its outstanding effects
  file,         \* the text and the inode of the file, None without one
  inodes,       \* how many inodes the path of the file has had
  store,        \* the records of this document in the recovery store
  artifacts,    \* displaced bytes that only the commit journal holds
  journal,      \* what became of the last commit whose outcome is unknown
  budget        \* what the bounds leave

vars == <<sync, file, inodes, store, artifacts, journal, budget>>

-----------------------------------------------------------------------------
(* Data.                                                                   *)

Operations == {"savePreparation", "saveCommit", "commitReconciliation",
               "externalRead", "merge", "recovery", "monitor", "close"}

Deadlines == {"localSaveDeadline", "externalReadDeadline", "closeDeadline"}

Failures == {"localSave", "externalRead", "merge", "monitor", "attachment",
             "recovery", "closeDeadline", "destinationRequiresSaveAs"}

Idle == [kind |-> "idle"]
Clean == [kind |-> "clean"]
Dirty(t) == [kind |-> "dirty", token |-> t]
Clear == [kind |-> "clear"]
Available(records) == [kind |-> "available", records |-> records]
Persisting(attempt) == [kind |-> "persisting", attempt |-> attempt]

\* A durable baseline: a revision and the inode of the file that held it.
Durable(rev, inode) ==
  [number |-> rev.number, text |-> rev.text, inode |-> inode]

Rebased(baseline, rev) == Durable(rev, baseline.inode)

\* The fingerprint of a file has its contents and its inode.
Fingerprint(baseline) == [text |-> baseline.text, inode |-> baseline.inode]

NoRecords == [decoded |-> <<>>, raw |-> {}]

\* DocumentSyncRecoveryState of a list of records.
RecoveryOf(records) ==
  IF records = NoRecords THEN Clear ELSE Available(records)

RecordSet(records) == ToSet(records.decoded) \cup records.raw

\* Mutant: records that others have added count as a difference.
RecordsAreEqual(expected, actual) == expected = actual

\* Whether every record of expected is still in actual.
RecordsPreserve(expected, actual) ==
  /\ ToSet(expected.decoded) \subseteq ToSet(actual.decoded)
  /\ expected.raw \subseteq actual.raw

DecodedTarget(entry) == [decoded |-> {entry}, raw |-> {}]
RawTarget(entries) == [decoded |-> {}, raw |-> entries]

\* A discard is possible when its target is not empty and still present.
CanDiscard(target, records) ==
  /\ target.decoded \cup target.raw # {}
  /\ target.decoded \subseteq ToSet(records.decoded)
  /\ target.raw \subseteq records.raw

\* A list without the entry that a target names, if the target names one.
DecodedAfterDiscard(decoded, entries) ==
  LET named == {i \in DOMAIN decoded : decoded[i] \in entries}
  IN  IF named = {} THEN decoded
      ELSE RemoveAt(decoded, CHOOSE i \in named : TRUE)

AfterDiscard(target, records) ==
  [decoded |-> DecodedAfterDiscard(records.decoded, target.decoded),
   raw |-> records.raw \ target.raw]

\* ThreeWayTextMerger, atom by atom.
Merged(base, local, external) ==
  {a \in base \cup local \cup external :
     IF (a \in local) # (a \in base) THEN a \in local ELSE a \in external}

MayConflict(base, local, external) ==
  local # base /\ external # base /\ local # external

-----------------------------------------------------------------------------
(* Tokens and effects.  A token is compared with the active one of its     *)
(* operation and with nothing else, so a new token is the smallest number  *)
(* that no outstanding effect and no part of the state carries.            *)

UsedTokens(s, op) ==
  {s.active[op]} \cup {e.token : e \in {f \in s.effects : f.op = op}}
    \cup (IF op = "saveCommit" /\ s.uncertain # None
          THEN {s.uncertain.token} ELSE {})
    \cup (IF op = "recovery" /\ s.recovery.kind = "persisting"
          THEN {s.recovery.attempt.token} ELSE {})

\* Mutant: tokens start at the number that means no token.
FreshTokenFromZero(s, op) ==
  LET used == UsedTokens(s, op) \ {0}
  IN  Min((0 .. Cardinality(used)) \ used)

FreshToken(s, op) ==
  LET used == UsedTokens(s, op)
  IN  Min((1 .. Cardinality(used) + 1) \ used)

Deactivate(s, op) == [s EXCEPT !.active[op] = 0]

Effect(kind, op, token, request) ==
  [kind |-> kind, op |-> op, token |-> token, request |-> request,
   answer |-> None]

Emit(s, e) == [s EXCEPT !.effects = @ \cup {e}]

\* makeToken, and the effect that carries the token.
Start(s, kind, op, request) ==
  LET t == FreshToken(s, op)
  IN  Emit([s EXCEPT !.active[op] = t], Effect(kind, op, t, request))

\* A cancelled deadline or computation never delivers; input and output
\* operations are not cancelled.
Cancel(s, op, token) ==
  [s EXCEPT !.effects =
     {e \in @ : ~(/\ e.op = op /\ e.token = token
                  /\ e.kind \in Deadlines \cup {"prepareSave", "merge"})}]

CancelAllDeadlines(s) ==
  [s EXCEPT !.effects = {e \in @ : e.kind \notin Deadlines}]

Accepts(s, op, token) == s.lifecycle # "closed" /\ s.active[op] = token

StartMonitor(s) == [s EXCEPT !.active["monitor"] = FreshToken(s, "monitor")]

\* The recovery requests that are under way or that the state remembers.
Attempts(s) ==
  {e.request : e \in {f \in s.effects : f.kind \in {"mutate", "reconcile"}}}
    \cup (IF s.recovery.kind = "persisting"
          THEN {s.recovery.attempt} ELSE {})

\* A new identifier of a recovery entry: the smallest number in no record,
\* no displaced file and no request.
FreshEntryID(s) ==
  LET used == {r.id : r \in RecordSet(store) \cup artifacts \cup
                 UNION {RecordSet(a.expected) : a \in Attempts(s)}}
                \cup {a.entry.id : a \in {b \in Attempts(s) : b.entry # None}}
  IN  Min((1 .. Cardinality(used) + 1) \ used)

-----------------------------------------------------------------------------
(* Guards shared by the handlers.                                          *)

\* Mutant: the editor stays open to edits after the close was allowed.
AcceptsUntilClosed(s) == s.lifecycle \in {"active", "closing", "allowed"}

CanAcceptSourceChanges(s) == s.lifecycle \in {"active", "closing"}

CanCoordinate(s) ==
  s.issue # "destinationRequiresSaveAs" /\ CanAcceptSourceChanges(s)

RecoveryBlocksAutomation(s) ==
  \/ s.uncertain # None
  \/ s.pendingConflict # None
  \/ s.pendingDisplaced # None
  \/ s.unresolvedDisplaced # None
  \/ s.barrier
  \/ s.access # "ready"
  \/ s.recovery.kind # "clear" /\ s.cleanup = None

\* Nothing about recovery or an earlier commit is undecided.
NothingUndecided(s) ==
  /\ s.uncertain = None
  /\ s.access = "ready"
  /\ ~s.barrier
  /\ s.pendingConflict = None
  /\ s.pendingDisplaced = None
  /\ s.unresolvedDisplaced = None

CanScheduleLocalSave(s) ==
  /\ CanCoordinate(s)
  /\ NothingUndecided(s)
  /\ ~s.signalPending
  /\ ~RecoveryBlocksAutomation(s)
  /\ \/ s.recovery.kind = "clear"
     \/ /\ s.recovery.kind = "available"
        /\ \/ s.recovery.records.raw = {}
           \/ s.recovery.records.raw \subseteq s.cleanup.target.raw
           \/ /\ s.cleanup.purpose = "discardRestoredRecords"
              /\ s.cleanup.records = s.recovery.records
              /\ s.cleanup.target.decoded # {}
              /\ CanDiscard(s.cleanup.target, s.recovery.records)

CanScheduleExternalRead(s) ==
  /\ CanCoordinate(s)
  /\ NothingUndecided(s)
  /\ \/ s.recovery.kind = "clear" /\ s.cleanup = None
     \/ /\ s.recovery.kind = "available"
        /\ s.cleanup # None
        /\ s.cleanup.records = s.recovery.records
        /\ CanDiscard(s.cleanup.target, s.recovery.records)

-----------------------------------------------------------------------------
(* Scheduling and invalidation.                                            *)

ScheduleLocalSave(s) ==
  IF CanScheduleLocalSave(s) /\ s.local = Dirty(0)
  THEN LET r == Start(s, "localSaveDeadline", "savePreparation", None)
       IN  [r EXCEPT !.local = Dirty(r.active["savePreparation"])]
  ELSE s

ScheduleExternalRead(s) ==
  IF CanScheduleExternalRead(s) /\ s.external = Idle /\ s.merge = None
  THEN LET r == Start(s, "externalReadDeadline", "externalRead", None)
       IN  [r EXCEPT !.external = [kind |-> "debouncing",
                                   token |-> r.active["externalRead"],
                                   expected |-> s.baseline],
                     !.signalPending = FALSE]
  ELSE [s EXCEPT !.signalPending = TRUE]

\* Mutant: a commit that runs is taken for a preparation.
InvalidateWriting(s) ==
  IF s.local.kind # "clean" /\ s.local.token # 0
  THEN [Cancel(Deactivate(s, "savePreparation"), "savePreparation",
               s.local.token) EXCEPT !.local = Dirty(0)]
  ELSE s

InvalidatePreparation(s) ==
  IF s.local.kind \in {"dirty", "preparing"} /\ s.local.token # 0
  THEN [Cancel(Deactivate(s, "savePreparation"), "savePreparation",
               s.local.token) EXCEPT !.local = Dirty(0)]
  ELSE s

InvalidateMerge(s) ==
  IF s.merge = None THEN s
  ELSE LET r == IF s.merge.origin = None THEN s
                ELSE [s EXCEPT
                        !.unresolvedDisplaced = s.merge.origin.continuation,
                        !.issue = "recovery"]
       IN  [Cancel(Deactivate(r, "merge"), "merge", s.merge.token)
              EXCEPT !.merge = None, !.signalPending = TRUE]

RefuseCloseIfNeeded(s) ==
  IF s.lifecycle = "closing"
  THEN [Cancel(Deactivate(s, "close"), "close", s.active["close"])
          EXCEPT !.lifecycle = "active"]
  ELSE s

\* The caller's issue is set and a close in progress is refused.
Refuse(s, failure) == RefuseCloseIfNeeded([s EXCEPT !.issue = failure])

\* Mutant: only a change that was interrupted before is remembered.
InterruptedMutationIsActive(s) == s.active["recovery"] # 0 /\ s.barrier

\* activeRecoveryMutationToken
RecoveryMutationIsActive(s) ==
  /\ s.active["recovery"] # 0
  /\ \/ s.barrier
     \/ /\ s.recovery.kind = "persisting"
        /\ s.active["recovery"] = s.recovery.attempt.token

\* Mutant: a local state that is writing is kept, whoever owns the commit.
KeptWriting(s, keepsCommit) ==
  IF s.local.kind \in {"clean", "writing"} THEN s.local ELSE Dirty(0)

LocalAfterInvalidation(s, keepsCommit) ==
  IF s.local = Clean \/ keepsCommit THEN s.local ELSE Dirty(0)

InvalidateAutomatedWork(s) ==
  LET keepsCommit == /\ s.local.kind = "writing"
                     /\ s.active["saveCommit"] = s.local.token
      keepsReconciliation ==
        /\ s.uncertain # None /\ s.uncertain.reconciliation # 0
        /\ s.active["commitReconciliation"] = s.uncertain.reconciliation
      cancelled ==
        {e \in s.effects :
           \/ /\ e.kind = "prepareSave" /\ s.local.kind = "preparing"
              /\ e.token = s.local.token
           \/ e.kind = "merge" /\ s.merge # None /\ e.token = s.merge.token}
  IN  [s EXCEPT
         !.effects = @ \ cancelled,
         !.active = [op \in Operations |->
                       IF \/ op = "saveCommit" /\ keepsCommit
                          \/ op = "commitReconciliation"
                             /\ keepsReconciliation
                       THEN s.active[op] ELSE 0],
         !.barrier = @ \/ RecoveryMutationIsActive(s),
         !.external = Idle,
         !.merge = None,
         !.signalPending = TRUE,
         !.local = LocalAfterInvalidation(s, keepsCommit)]

\* Mutant: a failure drops the text that was to be stored.
FailRecoveryAndForget(s) ==
  [CancelAllDeadlines(InvalidateAutomatedWork(s)) EXCEPT
     !.access = "failed", !.issue = "recovery", !.pendingConflict = None,
     !.lifecycle = IF @ = "closing" THEN "active" ELSE @]

FailRecovery(s) ==
  LET r == CancelAllDeadlines(InvalidateAutomatedWork(s))
  IN  [r EXCEPT !.access = "failed",
                !.issue = "recovery",
                !.lifecycle = IF @ = "closing" THEN "active" ELSE @]

-----------------------------------------------------------------------------
(* Recovery operations.                                                    *)

\* What a request to the recovery store says.  entry is what it adds,
\* discard what it removes; cleanup is the discard to leave for later when
\* a conflict has been stored, continuation the displaced file that a raw
\* entry preserves.
Attempt(token, purpose, expected) ==
  [token |-> token, purpose |-> purpose, expected |-> expected,
   entry |-> None, discard |-> None, cleanup |-> None, continuation |-> None]

StartMutation(s, attempt) ==
  LET a == [attempt EXCEPT !.token = FreshToken(s, "recovery")]
  IN  [Start(s, "mutate", "recovery", a) EXCEPT !.recovery = Persisting(a)]

StartRecoveryLoad(s) ==
  [Start(s, "load", "recovery", None) EXCEPT !.access = "loading"]

StartRecoveryReconciliation(s) ==
  [Start(s, "reconcile", "recovery", s.recovery.attempt)
     EXCEPT !.access = "loading"]

StartRecoveryPersistence(s, text, cleanup) ==
  IF s.access = "ready" /\ ~s.barrier /\ s.active["recovery"] = 0
  THEN LET expected == IF s.recovery.kind = "available"
                       THEN s.recovery.records ELSE NoRecords
       IN  StartMutation(
             [s EXCEPT !.pendingConflict = text],
             [Attempt(0, "persistConflict", expected) EXCEPT
                !.entry = [id |-> FreshEntryID(s), text |-> text],
                !.cleanup = cleanup])
  ELSE s

StartDisplacedPersistence(s, continuation) ==
  IF s.access = "ready" /\ s.active["recovery"] = 0
  THEN LET expected == CASE s.recovery.kind = "available" ->
                              s.recovery.records
                         [] s.recovery.kind = "persisting" ->
                              s.recovery.attempt.expected
                         [] OTHER -> NoRecords
       IN  StartMutation(
             s,
             [Attempt(0, "persistDisplacedPreimage", expected) EXCEPT
                !.entry = [id |-> continuation.id,
                           text |-> continuation.text],
                !.continuation = continuation])
  ELSE s

CanStartDiscard(s, target) ==
  /\ s.access = "ready" /\ ~s.barrier
  /\ s.recovery.kind = "available"
  /\ CanDiscard(target, s.recovery.records)

StartRecoveryDiscard(s, target, purpose) ==
  IF CanStartDiscard(s, target)
  THEN StartMutation(
         s, [Attempt(0, purpose, s.recovery.records) EXCEPT
               !.discard = target])
  ELSE s

\* The records that a cleanup removes have been superseded by text that the
\* file holds, as far as the reducer can tell.
CanResumeCleanup(s) ==
  /\ s.cleanup # None
  /\ s.recovery.kind = "available"
  /\ s.recovery.records = s.cleanup.records
  /\ s.baseline.number >= s.cleanup.min
  /\ CanStartDiscard(s, s.cleanup.target)

ResumeRecoveryCleanup(s) ==
  StartRecoveryDiscard(s, s.cleanup.target, s.cleanup.purpose)

CanResumeIndependentCleanup(s) ==
  /\ CanResumeCleanup(s)
  /\ s.unresolvedDisplaced.id \notin {r.id : r \in s.cleanup.target.raw}

-----------------------------------------------------------------------------
(* Progress.                                                               *)

AllowManagedClose(s) ==
  [Cancel(s, "close", s.active["close"]) EXCEPT !.lifecycle = "allowed"]

\* The cases of progressManagedClose, in the order of the code.
ProgressManagedClose(s) ==
  IF \/ s.issue # None
     \/ s.uncertain # None
     \/ s.pendingConflict # None /\ s.active["recovery"] = 0
  THEN RefuseCloseIfNeeded(s)
  ELSE IF s.merge # None /\ s.merge.origin # None THEN s
  ELSE IF s.unresolvedDisplaced # None THEN RefuseCloseIfNeeded(s)
  ELSE IF s.access = "loading" THEN s
  ELSE IF s.access = "failed" THEN RefuseCloseIfNeeded(s)
  ELSE IF s.pendingDisplaced # None
  THEN StartDisplacedPersistence(s, s.pendingDisplaced)
  ELSE IF s.recovery.kind = "persisting" THEN s
  ELSE IF s.recovery.kind = "available" /\ s.cleanup = None
  THEN RefuseCloseIfNeeded(s)
  ELSE IF CanResumeCleanup(s) THEN ResumeRecoveryCleanup(s)
  ELSE IF s.cleanup # None THEN ScheduleLocalSave(s)
  ELSE IF s.merge # None \/ s.external # Idle THEN s
  ELSE IF s.signalPending THEN ScheduleExternalRead(s)
  ELSE IF s.local = Clean /\ s.baseline = Rebased(s.baseline, s.source)
  THEN AllowManagedClose(s)
  ELSE ScheduleLocalSave(s)

ContinueSynchronization(s) ==
  LET r == ScheduleExternalRead(s) IN
  IF s.lifecycle = "closing" THEN ProgressManagedClose(s)
  ELSE IF s.lifecycle # "active" \/ s.uncertain # None THEN s
  ELSE IF s.pendingConflict # None
  THEN StartRecoveryPersistence(s, s.pendingConflict, None)
  ELSE IF s.pendingDisplaced # None
  THEN StartDisplacedPersistence(s, s.pendingDisplaced)
  ELSE IF CanResumeCleanup(s) THEN ResumeRecoveryCleanup(s)
  ELSE IF s.merge # None THEN s
  ELSE IF s.signalPending
  THEN IF r.external # Idle THEN r ELSE ScheduleLocalSave(r)
  ELSE ScheduleLocalSave(s)

FinishRecoveryMutation(s, records) ==
  LET r == [Deactivate(s, "recovery") EXCEPT
              !.access = "ready", !.barrier = FALSE,
              !.recovery = RecoveryOf(records)]
  IN  CASE r.unresolvedDisplaced = None ->
             ContinueSynchronization([r EXCEPT !.issue = None])
        [] r.unresolvedDisplaced # None /\ CanResumeIndependentCleanup(r) ->
             ResumeRecoveryCleanup(r)
        [] OTHER -> Refuse(r, "recovery")

\* The editor takes the text of the other program; the user's text is put
\* in the recovery store.
PersistLocalConflict(s, external, local) ==
  IF s.access # "ready" THEN FailRecovery(s)
  ELSE LET revision == [number |-> s.source.number + 1,
                        text |-> external.text]
       IN  StartRecoveryPersistence(
             [s EXCEPT !.source = revision,
                       !.baseline = Durable(revision, external.inode),
                       !.local = Clean, !.issue = None,
                       !.displaced = @ \cup {local}],
             local, None)

PersistDisplacedConflict(s, merge) ==
  LET number == s.source.number + 1
      cleanup == [target |-> merge.origin.target, min |-> number,
                  purpose |-> "discardResolvedDisplacedPreimage"]
  IN  IF s.recovery # Available(merge.origin.records) \/ s.access # "ready"
      THEN FailRecovery(s)
      ELSE [StartRecoveryPersistence(
              [s EXCEPT !.source = [number |-> number,
                                    text |-> merge.external.text],
                        !.local = Dirty(0), !.issue = None,
                        !.displaced = @ \cup {merge.local.text}],
              merge.local.text, cleanup)
            EXCEPT !.unresolvedDisplaced = None]

-----------------------------------------------------------------------------
(* Handlers of local events.                                               *)

SourceChanged(s, text) ==
  LET edited == [s EXCEPT !.source = [number |-> @.number + 1, text |-> text]]
      s1 == IF \/ RecoveryBlocksAutomation(edited)
               \/ s.issue = "destinationRequiresSaveAs"
            THEN edited ELSE [edited EXCEPT !.issue = None]
      s2 == InvalidatePreparation(InvalidateMerge(s1))
      cancelled == \/ s.merge # None \/ s.local.kind = "preparing"
                   \/ /\ s.local.kind = "dirty"
                      /\ s.local # Dirty(0)
      s3 == IF s2.baseline.text = text
            THEN [s2 EXCEPT !.baseline = Rebased(@, s2.source),
                            !.local = Clean,
                            !.issue = IF @ = "destinationRequiresSaveAs"
                                      THEN None ELSE @]
            ELSE [s2 EXCEPT !.local = Dirty(0)]
  IN  IF s.local.kind = "writing"
      THEN IF s2.signalPending THEN ScheduleExternalRead(s2) ELSE s2
      ELSE LET s4 == IF s3.signalPending THEN ScheduleExternalRead(s3)
                     ELSE s3
           IN  IF s3.signalPending /\ (cancelled \/ s4.external # Idle)
               THEN s4 ELSE ContinueSynchronization(s4)

SaveRequested(s) ==
  IF CanCoordinate(s) /\ s.local.kind = "dirty"
  THEN ScheduleLocalSave(InvalidatePreparation(s)) ELSE s

LocalSaveDeadlineFired(s) ==
  LET t == s.active["savePreparation"]
  IN  Emit([s EXCEPT !.local = [kind |-> "preparing", token |-> t,
                                rev |-> s.source, expected |-> s.baseline]],
           Effect("prepareSave", "savePreparation", t, None))

\* The bridge holds a commit until its completion is delivered and refuses
\* a second one.
BridgeIsBusy(s) == \E e \in s.effects : e.kind = "commit"

StartCommitReconciliation(s) ==
  IF s.uncertain = None \/ s.uncertain.reconciliation # 0 THEN s
  ELSE LET r == Start(s, "reconcileCommit", "commitReconciliation",
                      [original |-> s.uncertain.token, rev |-> s.uncertain.rev,
                       expected |-> s.uncertain.expected])
       IN  [r EXCEPT !.uncertain.reconciliation =
              r.active["commitReconciliation"]]

EnterUncertainCommitOutcome(s) ==
  LET r == [Deactivate(s, "saveCommit") EXCEPT
              !.local = Dirty(0), !.issue = "recovery",
              !.uncertain = [token |-> s.local.token, reconciliation |-> 0,
                             rev |-> s.local.rev,
                             expected |-> s.local.expected]]
  IN  RefuseCloseIfNeeded(StartCommitReconciliation(r))

SavePrepared(s) ==
  IF s.local.kind = "preparing" /\ s.baseline = s.local.expected
  THEN LET r == Deactivate(s, "savePreparation")
           t == FreshToken(s, "saveCommit")
           w == [r EXCEPT !.active["saveCommit"] = t,
                          !.local = [@ EXCEPT !.kind = "writing",
                                              !.token = t]]
       IN  IF BridgeIsBusy(s) THEN EnterUncertainCommitOutcome(w)
           ELSE Emit(w, Effect("commit", "saveCommit", t,
                               [rev |-> s.local.rev, validated |-> FALSE,
                                expected |-> s.local.expected]))
  ELSE s

SavePreparationFailed(s) ==
  Refuse([Deactivate(s, "savePreparation") EXCEPT !.local = Dirty(0)],
         "localSave")

\* answer.displaced is the entry of a file that the commit displaced and
\* that did not hold what it expected, or None.
SaveFinished(s, answer) ==
  LET rev == s.local.rev
      displaced == answer.displaced
      committed == Durable(rev, answer.inode)
      s1 == [Deactivate(s, "saveCommit") EXCEPT
               !.issue = IF @ \in {"localSave", "closeDeadline"}
                         THEN None ELSE @]
      continuation ==
        [id |-> displaced.id, text |-> displaced.text,
         mergeBase |-> s.local.expected.text, localRev |-> s.source,
         pre |-> s.local.expected, committed |-> committed]
      s2 == [s1 EXCEPT !.baseline = committed]
      s3 == IF s.merge # None /\ s.merge.baseline # committed
            THEN InvalidateMerge(s2) ELSE s2
      s4 == IF s.source.text = rev.text
            THEN [s3 EXCEPT !.baseline = Rebased(@, s.source),
                            !.local = Clean]
            ELSE [s3 EXCEPT !.local = Dirty(0)]
  IN  CASE displaced # None /\ (\/ s.access # "ready" \/ s.barrier
                                \/ s.active["recovery"] # 0) ->
             FailRecovery(s1)
        [] displaced # None /\ s.access = "ready" /\ ~s.barrier
             /\ s.active["recovery"] = 0 ->
             StartDisplacedPersistence(
               [s1 EXCEPT !.local = Dirty(0),
                          !.pendingDisplaced = continuation],
               continuation)
        [] OTHER ->
             IF s4.cleanup # None /\ rev.number >= s4.cleanup.min
             THEN ResumeRecoveryCleanup(s4)
             ELSE ContinueSynchronization(s4)

CommitProvenNotStarted(s, failure) ==
  Refuse([Deactivate(s, "saveCommit") EXCEPT !.local = Dirty(0)], failure)

CommitReconciliationFinished(s, answer) ==
  LET r == Deactivate(s, "commitReconciliation")
  IN  CASE answer.outcome = "unresolved" ->
             Refuse([r EXCEPT !.uncertain.reconciliation = 0], "recovery")
        [] answer.outcome = "notCommitted" ->
             ContinueSynchronization(
               [r EXCEPT !.uncertain = None, !.local = Dirty(0),
                         !.issue = None])
        [] answer.outcome = "committed" ->
             SaveFinished(
               [r EXCEPT !.uncertain = None, !.issue = None,
                         !.active["saveCommit"] = s.uncertain.token,
                         !.local = [kind |-> "writing",
                                    token |-> s.uncertain.token,
                                    rev |-> s.uncertain.rev,
                                    expected |-> s.uncertain.expected]],
               answer)

-----------------------------------------------------------------------------
(* Handlers of the file monitor, of reads and of merges.                   *)

\* Mutant: a notice that arrives during a read is taken to be about it.
MonitorSignalCoalesced(s) ==
  IF CanCoordinate(s) /\ s.merge = None /\ s.external = Idle
  THEN ScheduleExternalRead(s) ELSE s

MonitorSignaled(s) ==
  CASE ~CanCoordinate(s) -> s
    [] CanCoordinate(s) /\ (s.merge # None \/ s.external # Idle) ->
         [s EXCEPT !.signalPending = TRUE]
    [] OTHER -> ScheduleExternalRead(s)

ExternalReadDeadlineFired(s) ==
  LET t == s.active["externalRead"]
  IN  Emit([s EXCEPT !.external.kind = "reading"],
           Effect("read", "externalRead", t,
                  [expected |-> s.external.expected]))

StartMerge(s, merge) ==
  LET r == Start(s, "merge", "merge", None)
  IN  [r EXCEPT !.merge = [merge EXCEPT !.token = r.active["merge"]]]

ExternalMerge(s, external) ==
  [token |-> 0, baseline |-> s.baseline, base |-> s.baseline.text,
   local |-> s.source, external |-> external, origin |-> None]

\* Mutant: the save that is being prepared goes on.
MergeWhilePreparing(s, external) == StartMerge(s, ExternalMerge(s, external))

MergeWithLocal(s, external) ==
  StartMerge(InvalidatePreparation(s), ExternalMerge(s, external))

ExternalReadFinished(s, answer) ==
  LET r == [Deactivate(s, "externalRead") EXCEPT !.external = Idle]
      revision == [number |-> s.source.number + 1,
                   text |-> answer.file.text]
  IN  CASE answer.outcome = "failed" -> Refuse(r, "externalRead")
        [] answer.outcome # "failed" /\ s.external.expected # s.baseline ->
             ContinueSynchronization([r EXCEPT !.signalPending = TRUE])
        [] OTHER ->
             CASE answer.outcome = "unchanged" -> ContinueSynchronization(r)
               [] answer.outcome = "missing" -> Refuse(r, "attachment")
               [] answer.outcome = "changed" ->
                    CASE s.local.kind = "writing" ->
                           [r EXCEPT !.signalPending = TRUE]
                      [] s.local.kind \in {"dirty", "preparing"} ->
                           MergeWithLocal(r, answer.file)
                      [] s.local.kind = "clean" ->
                           ContinueSynchronization(
                             [r EXCEPT !.source = revision,
                                       !.baseline = Durable(revision,
                                                      answer.file.inode),
                                       !.issue = None])

\* outcome is the merged text, or None for a conflict.
MergeFinished(s, outcome) ==
  LET m == s.merge
      r == [Deactivate(s, "merge") EXCEPT !.merge = None]
      current == s.source = m.local /\ s.baseline = m.baseline
      observed == Durable([m.local EXCEPT !.text = m.external.text],
                          m.external.inode)
      merged == [r EXCEPT !.source = [number |-> s.source.number + 1,
                                      text |-> outcome],
                          !.local = Dirty(0), !.issue = None]
  IN  CASE ~current /\ m.origin # None ->
             Refuse([r EXCEPT !.unresolvedDisplaced =
                                m.origin.continuation], "recovery")
        [] ~current /\ m.origin = None ->
             ContinueSynchronization([r EXCEPT !.signalPending = TRUE])
        [] current /\ outcome # None /\ m.origin = None ->
             ContinueSynchronization([merged EXCEPT !.baseline = observed])
        [] current /\ outcome # None /\ m.origin # None ->
             IF s.recovery # Available(m.origin.records)
             THEN FailRecovery(merged)
             ELSE ContinueSynchronization(
                    [merged EXCEPT
                       !.unresolvedDisplaced = None,
                       !.cleanup =
                         [records |-> m.origin.records,
                          target |-> m.origin.target,
                          purpose |-> "discardResolvedDisplacedPreimage",
                          min |-> s.source.number + 1]])
        [] current /\ outcome = None /\ m.origin = None ->
             PersistLocalConflict(r, m.external, m.local.text)
        [] current /\ outcome = None /\ m.origin # None ->
             PersistDisplacedConflict(r, m)

MonitorFailed(s) == [Deactivate(s, "monitor") EXCEPT !.issue = "monitor"]

-----------------------------------------------------------------------------
(* Handlers of recovery results.                                           *)

\* A cleanup follows the records it was made for.
CarryCleanup(s, records) ==
  IF s.cleanup = None THEN s
  ELSE [s EXCEPT !.cleanup.records = records]

CleanupIsLost(s, records) ==
  s.cleanup # None /\ ~CanDiscard(s.cleanup.target, records)

RecoveryLoaded(s, records) ==
  LET s1 == [Deactivate(s, "recovery") EXCEPT !.access = "ready"]
      s2 == IF s1.active["monitor"] = 0 THEN StartMonitor(s1) ELSE s1
  IN  IF \/ CleanupIsLost(s, records)
         \/ /\ s.cleanup # None
            /\ ~RecordsPreserve(s.cleanup.records, records)
      THEN [s2 EXCEPT !.access = "failed", !.issue = "recovery"]
      ELSE ContinueSynchronization(
             [CarryCleanup(s2, records) EXCEPT
                !.recovery = RecoveryOf(records)])

\* cleanupForPersistedConflict
CleanupAfterPersist(s, attempt, records) ==
  LET next(target, purpose, min) ==
        [records |-> records, target |-> target, purpose |-> purpose,
         min |-> min]
      c == attempt.cleanup
  IN  CASE c # None -> next(c.target, c.purpose, c.min)
        [] c = None /\ s.local # Clean ->
             next(DecodedTarget(attempt.entry), "discardRestoredRecords",
                  s.source.number)
        [] OTHER -> None

ConflictPersisted(s, attempt, records) ==
  [s EXCEPT !.pendingConflict = None,
            !.cleanup = CleanupAfterPersist(s, attempt, records)]

AfterDiscardCleanup(s, attempt, records) ==
  LET c == s.cleanup IN
  IF c = None THEN s
  ELSE IF c.target = attempt.discard /\ c.purpose = attempt.purpose
  THEN [s EXCEPT !.cleanup = None]
  ELSE IF /\ CanDiscard(attempt.discard, c.records)
          /\ AfterDiscard(attempt.discard, c.records) = records
  THEN CarryCleanup(s, records)
  ELSE s

ClearUnresolved(s, attempt) ==
  IF /\ s.unresolvedDisplaced # None
     /\ s.unresolvedDisplaced.id \in {r.id : r \in attempt.discard.raw}
  THEN [s EXCEPT !.unresolvedDisplaced = None] ELSE s

Discarded(s, attempt, records) ==
  ClearUnresolved(AfterDiscardCleanup(s, attempt, records), attempt)

\* applyCommittedDisplacedPreimageBaselineIfCurrent
ApplyCommittedBaseline(s, continuation) ==
  IF s.baseline = continuation.pre
  THEN [s EXCEPT !.baseline = continuation.committed] ELSE s

\* The displaced bytes are durable; they are merged with the editor's text
\* unless it has moved on or they cannot be decoded.
RawRecoveryPersisted(s, records, decodes) ==
  LET attempt == s.recovery.attempt
      c == attempt.continuation
      s1 == CarryCleanup([s EXCEPT !.pendingDisplaced = None,
                                   !.unresolvedDisplaced = c], records)
      applies == /\ s.source = c.localRev /\ s.baseline = c.pre
                 /\ s.pendingConflict = None /\ s.cleanup = None
      s2 == ApplyCommittedBaseline(
              [Deactivate(s1, "recovery") EXCEPT
                 !.access = "ready", !.recovery = Available(records)], c)
      s3 == IF s2.merge # None /\ s2.merge.baseline # c.committed
            THEN InvalidateMerge(s2) ELSE s2
      s4 == [s3 EXCEPT
               !.unresolvedDisplaced = c,
               !.local = IF c.committed = Rebased(c.committed, c.localRev)
                         THEN Clean ELSE Dirty(0),
               !.issue = IF @ \in {"localSave", "closeDeadline"}
                         THEN None ELSE @]
  IN  IF CleanupIsLost(s, records) THEN FailRecovery(s)
      ELSE IF s.barrier THEN FinishRecoveryMutation(s1, records)
      ELSE IF ~applies
      THEN IF CanResumeIndependentCleanup(s2)
           THEN ResumeRecoveryCleanup(s2) ELSE Refuse(s2, "recovery")
      ELSE IF decodes
      THEN StartMerge(s4, [token |-> 0, baseline |-> c.committed,
                           base |-> c.mergeBase, local |-> c.localRev,
                           external |-> [text |-> c.text, inode |-> 0],
                           origin |-> [records |-> records,
                                       target |-> RawTarget({attempt.entry}),
                                       continuation |-> c]])
      ELSE Refuse(s4, "recovery")

Persisted(s, records, decodes) ==
  LET attempt == s.recovery.attempt IN
  IF ~RecordsPreserve(attempt.expected, records) THEN s
  ELSE IF attempt.purpose = "persistConflict"
  THEN FinishRecoveryMutation(ConflictPersisted(s, attempt, records), records)
  ELSE RawRecoveryPersisted(s, records, decodes)

MutationFinished(s, records, decodes) ==
  LET attempt == s.recovery.attempt IN
  IF attempt.discard # None
  THEN FinishRecoveryMutation(Discarded(s, attempt, records), records)
  ELSE Persisted(s, records, decodes)

\* The store has the entry that the attempt was to add.
Holds(records, attempt) ==
  attempt.entry \in (IF attempt.purpose = "persistConflict"
                     THEN ToSet(records.decoded) ELSE records.raw)

\* What the store holds after an interrupted mutation decides whether the
\* mutation took place.
Reconciled(s, records) ==
  LET attempt == s.recovery.attempt
      matches == IF attempt.discard # None
                 THEN records \in {attempt.expected,
                        AfterDiscard(attempt.discard, attempt.expected)}
                 ELSE /\ RecordsPreserve(attempt.expected, records)
                      /\ records = attempt.expected \/ Holds(records, attempt)
      raw == attempt.purpose = "persistDisplacedPreimage"
      happened == IF attempt.discard # None
                  THEN records # attempt.expected
                  ELSE Holds(records, attempt)
      restored == CarryCleanup([s EXCEPT
                    !.pendingDisplaced = None,
                    !.unresolvedDisplaced = attempt.continuation], records)
      restarted == [Deactivate(s, "recovery") EXCEPT !.access = "ready"]
  IN  CASE ~matches -> s
        [] matches /\ ~raw ->
             FinishRecoveryMutation(
               CASE ~happened -> s
                 [] happened /\ attempt.discard # None ->
                      Discarded(s, attempt, records)
                 [] happened /\ attempt.discard = None ->
                      ConflictPersisted(s, attempt, records),
               records)
        [] matches /\ raw /\ happened ->
             IF CleanupIsLost(s, records) THEN FailRecovery(s)
             ELSE FinishRecoveryMutation(
                    ApplyCommittedBaseline(restored, attempt.continuation),
                    records)
        [] matches /\ raw /\ ~happened ->
             StartDisplacedPersistence(restarted, attempt.continuation)

-----------------------------------------------------------------------------
(* The user's answers to an interruption, and closing.                     *)

Retry(s) ==
  LET cleared == [s EXCEPT !.issue = None] IN
  IF s.uncertain # None
  THEN IF s.uncertain.reconciliation # 0 THEN s
       ELSE StartCommitReconciliation(cleared)
  ELSE IF s.issue = None THEN s
  ELSE IF s.barrier
  THEN IF s.recovery.kind = "persisting"
       THEN StartRecoveryReconciliation(cleared) ELSE s
  ELSE IF \/ s.access = "failed"
          \/ s.access = "loading" /\ s.active["recovery"] = 0
  THEN StartRecoveryLoad(cleared)
  ELSE IF s.pendingDisplaced # None /\ s.active["recovery"] = 0
  THEN StartDisplacedPersistence(cleared, s.pendingDisplaced)
  ELSE CASE s.issue = "localSave" -> ScheduleLocalSave(cleared)
         [] s.issue \in {"externalRead", "attachment"} ->
              ScheduleExternalRead(cleared)
         [] s.issue = "monitor" ->
              ScheduleExternalRead(StartMonitor(cleared))
         [] s.issue = "closeDeadline" -> ContinueSynchronization(cleared)
         [] OTHER -> s

CanRestore(s) ==
  /\ s.lifecycle = "active" /\ s.access = "ready"
  /\ s.cleanup = None /\ s.merge = None
  /\ s.local.kind \in {"clean", "dirty"}
  /\ s.pendingDisplaced = None /\ s.unresolvedDisplaced = None
  /\ s.recovery.kind = "available" /\ s.recovery.records.decoded # <<>>

RestoreLocalRecovery(s) ==
  LET records == s.recovery.records
      entry == Head(records.decoded)
      number == s.source.number + 1
  IN  ContinueSynchronization(
        [s EXCEPT !.source = [number |-> number, text |-> entry.text],
                  !.local = Dirty(0), !.issue = None,
                  !.cleanup = [records |-> records,
                               target |-> DecodedTarget(entry),
                               purpose |-> "discardRestoredRecords",
                               min |-> number]])

CanDiscardRaw(s) ==
  /\ s.lifecycle = "active" /\ s.access = "ready" /\ s.merge = None
  /\ s.recovery.kind = "available" /\ s.recovery.records.raw # {}
  /\ s.cleanup # None => s.cleanup.target.raw = {}

DiscardRawRecovery(s) ==
  StartRecoveryDiscard(s, RawTarget(s.recovery.records.raw), "discardRaw")

RequestClose(s) ==
  ProgressManagedClose(
    [Start(s, "closeDeadline", "close", None) EXCEPT !.lifecycle = "closing"])

CloseDeadlineFired(s) ==
  LET r == CancelAllDeadlines(InvalidateAutomatedWork(s))
      reset == CASE s.active["recovery"] = 0 -> r
                 [] s.active["recovery"] # 0 /\ r.barrier ->
                      [r EXCEPT !.access = "failed"]
                 [] s.active["recovery"] # 0 /\ ~r.barrier ->
                      [r EXCEPT !.access = "loading",
                                !.recovery = IF @.kind = "persisting"
                                             THEN Clear ELSE @]
  IN  [StartMonitor(reset) EXCEPT !.issue = "closeDeadline",
                                  !.lifecycle = "active"]

CloseCommitted(s) ==
  [s EXCEPT !.lifecycle = "closed",
            !.active = [op \in Operations |-> 0],
            !.external = Idle, !.merge = None, !.signalPending = FALSE,
            !.effects = {e \in @ : e.kind \notin
                                     Deadlines \cup {"prepareSave", "merge"}}]

CloseCancelled(s) ==
  [Deactivate(s, "close") EXCEPT !.lifecycle = "active"]

-----------------------------------------------------------------------------
(* The world.                                                              *)

Contents == SUBSET (UserAtoms \cup ExternalAtoms)

\* An entry of the recovery store, and what a discard takes out of it.
Entries == [id : Nat, text : Contents]
DiscardTargets == [decoded : SUBSET Entries, raw : SUBSET Entries]

ASSUME TextAssumption ==
  /\ StoredTexts \cup StoredForeign \subseteq Contents
  /\ None \notin DiscardTargets /\ \A text \in Contents : text # None

\* An effect without an answer is told from one that the store has answered.
ASSUME AnswerAssumption ==
  None \notin [ok : BOOLEAN,
               records : [decoded : Seq(Entries), raw : SUBSET Entries]]

\* The monitor notices that the file or its directory changed.
Notice(s) ==
  IF s.active["monitor"] = 0 THEN s
  ELSE Emit(s, Effect("signal", "monitor", s.active["monitor"], None))

Answered(s, e, answer) ==
  [s EXCEPT !.effects = (@ \ {e}) \cup {[e EXCEPT !.answer = answer]}]

Without(s, e) == [s EXCEPT !.effects = @ \ {e}]

Spend(what) == /\ budget[what] > 0
               /\ budget' = [budget EXCEPT ![what] = @ - 1]

Fault(kind) == kind \in FaultKinds /\ Spend("faults")

ExternalWrite(new) ==
  /\ new # file
  /\ Spend("external")
  /\ file' = new
  /\ inodes' = IF new # None THEN Max({inodes, new.inode}) ELSE inodes
  /\ sync' = Notice(sync)
  /\ UNCHANGED <<store, artifacts, journal>>

\* Another program toggles one of its atoms, in place or in a new file, or
\* deletes the file.
OtherProgram ==
  \/ \E a \in ExternalAtoms, inode \in {inodes + 1} \cup
          (IF file = None THEN {} ELSE {file.inode}) :
       LET old == IF file = None THEN {} ELSE file.text IN
       ExternalWrite([text |-> (old \ {a}) \cup ({a} \ old),
                      inode |-> inode])
  \/ "delete" \in FaultKinds /\ ExternalWrite(None)

\* Mutant: the file that the swap took away is not compared.
CommitAnswerUncompared(outcome, entry) ==
  [outcome |-> outcome, displaced |-> None, inode |-> inodes']

CommitAnswer(outcome, entry) ==
  [outcome |-> outcome, displaced |-> entry, inode |-> inodes']

\* The committer swaps a new file in; what it finds in the place of the file
\* it expected stays with the journal until the recovery store has it.
Swap(e, entry) ==
  /\ file' = [text |-> e.request.rev.text, inode |-> inodes + 1]
  /\ inodes' = inodes + 1
  /\ artifacts' = artifacts \cup (IF entry = None THEN {} ELSE {entry})

NoSwap == UNCHANGED <<file, inodes, artifacts>>

\* The entry for a file that does not hold what was expected.
DisplacedEntry(e) ==
  IF file.text = e.request.expected.text THEN None
  ELSE [id |-> FreshEntryID(sync), text |-> file.text]

\* SafeFileCommitter.commit first validates the file it is to replace.
CommitValidates(e) ==
  /\ e.kind = "commit" /\ e.answer = None /\ ~e.request.validated
  /\ NoSwap
  /\ sync' = IF file = Fingerprint(e.request.expected)
             THEN [sync EXCEPT !.effects =
                     (@ \ {e}) \cup {[e EXCEPT !.request.validated = TRUE]}]
             ELSE Answered(sync, e, CommitAnswer("targetChanged", None))
  /\ UNCHANGED <<store, journal, budget>>

\* What becomes of a commit whose outcome the journal alone knows.
UnknownOutcome(e, swapped, entry) ==
  /\ sync' = Notice(Answered(sync, e, CommitAnswer("unknown", None)))
  /\ journal' = [token |-> e.token, swapped |-> swapped, inode |-> inodes',
                 displaced |-> entry]

\* Then it swaps, and reports.  A file that is gone by then makes the swap
\* fail, and with it the acknowledgement of the journal.
CommitReports(e) ==
  \/ /\ file # None
     /\ Swap(e, DisplacedEntry(e))
     /\ \/ /\ sync' = Notice(Answered(sync, e,
                         CommitAnswer("committed", DisplacedEntry(e))))
           /\ UNCHANGED <<journal, budget>>
        \/ Fault("unknown") /\ UnknownOutcome(e, TRUE, DisplacedEntry(e))
  \/ /\ file # None /\ NoSwap
     /\ \/ /\ \E failure \in {"notStarted", "requiresSaveAs"} :
                /\ Fault(failure)
                /\ sync' = Answered(sync, e, CommitAnswer(failure, None))
           /\ UNCHANGED journal
        \/ Fault("unknown") /\ UnknownOutcome(e, FALSE, None)
  \/ /\ file = None /\ NoSwap
     /\ UnknownOutcome(e, FALSE, None)
     /\ UNCHANGED budget

CommitExecutes(e) ==
  /\ e.kind = "commit" /\ e.answer = None /\ e.request.validated
  /\ CommitReports(e)
  /\ UNCHANGED store

\* CommitRecoveryJournalStore.reconcileCommit: only a journal of this very
\* commit decides, and only while the file is as the commit left it.
ReconcileCommitExecutes(e) ==
  LET known == journal # None /\ journal.token = e.request.original
      swappedIn == [text |-> e.request.rev.text, inode |-> journal.inode]
      outcome ==
        CASE ~known -> "unresolved"
          [] known /\ journal.swapped /\ file = swappedIn -> "committed"
          [] known /\ ~journal.swapped
               /\ file = Fingerprint(e.request.expected) -> "notCommitted"
          [] OTHER -> "unresolved"
      answer == [outcome |-> outcome,
                 displaced |-> IF known THEN journal.displaced ELSE None,
                 inode |-> IF known THEN journal.inode ELSE 0]
  IN  /\ e.kind = "reconcileCommit" /\ e.answer = None
      /\ sync' = Answered(sync, e, answer)
      /\ journal' = IF outcome = "unresolved" THEN journal ELSE None
      /\ UNCHANGED <<file, inodes, store, artifacts, budget>>

ReadAnswer(e) ==
  [outcome |-> CASE file = None -> "missing"
                 [] file = Fingerprint(e.request.expected) -> "unchanged"
                 [] OTHER -> "changed",
   file |-> file]

ReadExecutes(e) ==
  /\ e.kind = "read" /\ e.answer = None
  /\ \/ sync' = Answered(sync, e, ReadAnswer(e)) /\ UNCHANGED budget
     \/ /\ sync' = Answered(sync, e, [outcome |-> "failed", file |-> None])
        /\ Fault("read")
  /\ UNCHANGED <<file, inodes, store, artifacts, journal>>

\* The recovery store after it has carried out a mutation.
Mutated(a) ==
  CASE a.discard # None -> AfterDiscard(a.discard, store)
    [] a.purpose = "persistConflict" ->
         LET all == <<a.entry>> \o store.decoded
         IN  [store EXCEPT !.decoded =
                SubSeq(all, 1, Min({EntryLimit, Len(all)}))]
    [] a.purpose = "persistDisplacedPreimage" ->
         [store EXCEPT !.raw = @ \cup {a.entry}]

\* The store serves its commands in order: a mutation is sent when no other
\* command waits, and the command with the active token was sent last.
IsNext(e) ==
  \A f \in sync.effects \ {e} :
    f.op = "recovery" /\ f.answer = None =>
      f.kind # "mutate" /\ e.token # sync.active["recovery"]

\* A mutation is refused when the store holds other records than the request
\* expects, or already the entry that it would add.
CanMutate(a) == a.expected = store /\ a.entry \notin RecordSet(store)

\* importPersistedState, which a reconciliation runs: what lies beside the
\* journals of ended commits becomes raw entries, and the journals go.  It
\* throws on the journal of a commit that did not swap if the file is gone.
ImportThrows == journal # None /\ ~journal.swapped /\ file = None

Imported == [store EXCEPT !.raw = @ \cup artifacts]

RecoveryExecutes(e) ==
  LET answers == CASE e.kind = "load" -> TRUE
                   [] e.kind = "mutate" -> CanMutate(e.request)
                   [] e.kind = "reconcile" -> ~ImportThrows
      records == CASE e.kind = "load" -> store
                   [] e.kind = "mutate" -> Mutated(e.request)
                   [] e.kind = "reconcile" -> Imported
  IN  /\ e.op = "recovery" /\ e.answer = None
      /\ IsNext(e)
      /\ \/ /\ answers
            /\ store' = records
            /\ sync' = Answered([sync EXCEPT !.displaced =
                                   @ \ {r.text : r \in
                                     ToSet(store.decoded)
                                       \ ToSet(records.decoded)}],
                         e, [ok |-> TRUE, records |-> records])
            /\ artifacts' = artifacts \ records.raw
            /\ journal' = IF e.kind = "reconcile" THEN None ELSE journal
            /\ UNCHANGED budget
         \/ /\ sync' = Answered(sync, e, [ok |-> FALSE, records |-> store])
            /\ IF answers THEN Fault("recovery") ELSE UNCHANGED budget
            /\ UNCHANGED <<store, artifacts, journal>>
      /\ UNCHANGED <<file, inodes>>

-----------------------------------------------------------------------------
(* The steps of the coordinator: one event each.                           *)

WorldUnchanged ==
  UNCHANGED <<file, inodes, store, artifacts, journal>>

\* One event, applied to the state that e has left.
Deliver(e, next) ==
  /\ sync' = next
  /\ WorldUnchanged

\* A result is ignored unless its token is the active one.
Receive(e, next) ==
  LET s == Without(sync, e) IN
  Deliver(e, IF Accepts(s, e.op, e.token) THEN next ELSE s)

Edit ==
  /\ CanAcceptSourceChanges(sync)
  /\ sync.source.number < MaxRevision
  /\ \E a \in UserAtoms :
       LET text == sync.source.text IN
       sync' = SourceChanged(sync, (text \ {a}) \cup ({a} \ text))
  /\ UNCHANGED budget /\ WorldUnchanged

Ask(what) == what \in Requests /\ Spend("decisions")

\* A request for a save while a merge is under way is a case of its own.
MayAskForSave == sync.merge # None => "saveDuringMerge" \in Requests

RequestSave ==
  /\ MayAskForSave
  /\ Ask("save")
  /\ sync' = SaveRequested(sync)
  /\ WorldUnchanged

LocalSaveDeadline(e) ==
  /\ e.kind = "localSaveDeadline"
  /\ LET s == Without(sync, e) IN
     Receive(e, IF s.local = Dirty(e.token) THEN LocalSaveDeadlineFired(s)
                ELSE s)
  /\ UNCHANGED budget

ExternalReadDeadline(e) ==
  /\ e.kind = "externalReadDeadline"
  /\ LET s == Without(sync, e) IN
     Receive(e, IF s.external.kind = "debouncing"
                THEN ExternalReadDeadlineFired(s) ELSE s)
  /\ UNCHANGED budget

CloseDeadline(e) ==
  /\ e.kind = "closeDeadline"
  /\ LET s == Without(sync, e) IN
     Receive(e, IF s.lifecycle = "closing" THEN CloseDeadlineFired(s) ELSE s)
  /\ UNCHANGED budget

PrepareSave(e) ==
  /\ e.kind = "prepareSave"
  /\ LET s == Without(sync, e) IN
     \/ Receive(e, SavePrepared(s)) /\ UNCHANGED budget
     \/ Receive(e, SavePreparationFailed(s)) /\ Fault("prepare")

\* handleSaveCompletion; a target that changed makes the coordinator read it
\* again.
FinishCommit(e) ==
  /\ e.kind = "commit" /\ e.answer # None
  /\ LET s == Without(sync, e)
         writing == s.local.kind = "writing"
         current == writing /\ s.local.token = e.token
         outcome == e.answer.outcome
     IN  Receive(e,
           CASE outcome = "committed" /\ current ->
                  SaveFinished(s, e.answer)
             [] outcome = "unknown" /\ current ->
                  EnterUncertainCommitOutcome(s)
             [] outcome = "notStarted" /\ writing ->
                  CommitProvenNotStarted(s, "localSave")
             [] outcome = "requiresSaveAs" /\ writing ->
                  CommitProvenNotStarted(s, "destinationRequiresSaveAs")
             [] outcome = "targetChanged" /\ writing ->
                  LET r == CommitProvenNotStarted(s, "localSave") IN
                  IF r.active["monitor"] = 0 THEN r ELSE MonitorSignaled(r)
             [] OTHER -> s)
  /\ UNCHANGED budget

FinishReconciliation(e) ==
  /\ e.kind = "reconcileCommit" /\ e.answer # None
  /\ LET s == Without(sync, e) IN
     Receive(e, IF s.uncertain # None
                   /\ s.uncertain.reconciliation = e.token
                THEN CommitReconciliationFinished(s, e.answer) ELSE s)
  /\ UNCHANGED budget

MonitorSignal(e) ==
  /\ e.kind = "signal"
  /\ Receive(e, MonitorSignaled(Without(sync, e)))
  /\ UNCHANGED budget

MonitorFails ==
  /\ sync.active["monitor"] # 0 /\ sync.lifecycle # "closed"
  /\ Fault("monitor")
  /\ sync' = MonitorFailed(sync)
  /\ WorldUnchanged

FinishRead(e) ==
  /\ e.kind = "read" /\ e.answer # None
  /\ LET s == Without(sync, e) IN
     Receive(e, IF s.external.kind = "reading"
                THEN ExternalReadFinished(s, e.answer) ELSE s)
  /\ UNCHANGED budget

\* ThreeWayTextMerger keeps both sides unless they meet.
FinishMerge(e) ==
  /\ e.kind = "merge"
  /\ LET s == Without(sync, e)
         m == s.merge
     IN  \E outcome \in {Merged(m.base, m.local.text, m.external.text), None} :
           /\ outcome = None =>
                MayConflict(m.base, m.local.text, m.external.text)
           /\ Receive(e, IF m # None /\ m.token = e.token
                         THEN MergeFinished(s, outcome) ELSE s)
  /\ UNCHANGED budget

\* A raw entry may be one that TextFileCodec cannot decode.
FinishRecovery(e) ==
  /\ e.op = "recovery" /\ e.answer # None
  /\ LET s == Without(sync, e)
         records == e.answer.records
         expects == CASE e.kind = "load" ->
                           s.access = "loading" /\ ~s.barrier
                      [] e.kind = "mutate" ->
                           s.recovery = Persisting(e.request)
                      [] e.kind = "reconcile" ->
                           /\ s.access = "loading" /\ s.barrier
                           /\ s.recovery = Persisting(e.request)
     IN  \E decodes \in BOOLEAN :
           /\ IF decodes THEN UNCHANGED budget
              ELSE /\ e.kind = "mutate"
                   /\ e.request.purpose = "persistDisplacedPreimage"
                   /\ Fault("decode")
           /\ Receive(e,
                CASE ~e.answer.ok -> FailRecovery(s)
                  [] e.answer.ok /\ ~expects -> s
                  [] e.answer.ok /\ expects /\ e.kind = "load" ->
                       RecoveryLoaded(s, records)
                  [] e.answer.ok /\ expects /\ e.kind = "mutate" ->
                       MutationFinished(s, records, decodes)
                  [] e.answer.ok /\ expects /\ e.kind = "reconcile" ->
                       Reconciled(s, records))

UserRetries ==
  /\ sync.lifecycle # "closed"
  /\ sync.issue # None \/ sync.uncertain # None
  /\ sync.issue = "localSave" => MayAskForSave
  /\ Ask("retry")
  /\ sync' = Retry(sync)
  /\ WorldUnchanged

UserRestores ==
  /\ CanRestore(sync)
  /\ Ask("restore")
  /\ sync' = RestoreLocalRecovery(sync)
  /\ WorldUnchanged

UserDiscardsRaw ==
  /\ CanDiscardRaw(sync)
  /\ Ask("discardRaw")
  /\ sync' = DiscardRawRecovery(sync)
  /\ WorldUnchanged

UserCloses ==
  /\ sync.lifecycle = "active"
  /\ Spend("closes")
  /\ sync' = RequestClose(sync)
  /\ WorldUnchanged

\* NSDocument closes the document, or gives up closing it.
HostCloses ==
  /\ sync.lifecycle = "allowed"
  /\ sync' = CloseCommitted(sync)
  /\ UNCHANGED budget /\ WorldUnchanged

HostCancels ==
  /\ sync.lifecycle = "allowed" /\ "cancelClose" \in Requests
  /\ sync' = CloseCancelled(sync)
  /\ UNCHANGED budget /\ WorldUnchanged

-----------------------------------------------------------------------------
(* Specification.                                                          *)

Base == {}

\* A document opened on a file: attach has started the load of its recovery
\* records and its monitor.
Init ==
  LET revision == [number |-> 0, text |-> Base] IN
  /\ sync = Emit(
       [lifecycle |-> "active", source |-> revision,
        baseline |-> Durable(revision, 1),
        local |-> Clean, external |-> Idle, merge |-> None,
        signalPending |-> FALSE, access |-> "loading", recovery |-> Clear,
        barrier |-> FALSE, cleanup |-> None, uncertain |-> None,
        pendingConflict |-> None, pendingDisplaced |-> None,
        unresolvedDisplaced |-> None, issue |-> None,
        active |-> [op \in Operations |->
                      IF op \in {"recovery", "monitor"} THEN 1 ELSE 0],
        effects |-> {}, displaced |-> {}],
       Effect("load", "recovery", 1, None))
  /\ file = [text |-> Base, inode |-> 1] /\ inodes = 1
  /\ store \in [decoded : {<<>>} \cup {<<[id |-> 1, text |-> t]>> :
                                          t \in StoredTexts},
                raw : {{}} \cup {{[id |-> 2, text |-> t]} :
                                    t \in StoredForeign}]
  /\ artifacts = {}
  /\ journal = None
  /\ budget = [external |-> MaxExternal, faults |-> MaxFaults,
               closes |-> MaxCloses, decisions |-> MaxDecisions]

Completions(e) ==
  \/ LocalSaveDeadline(e) \/ ExternalReadDeadline(e) \/ PrepareSave(e)
  \/ FinishCommit(e) \/ FinishReconciliation(e) \/ MonitorSignal(e)
  \/ FinishRead(e) \/ FinishMerge(e) \/ FinishRecovery(e)

UserStep ==
  \/ Edit \/ RequestSave \/ UserRetries \/ UserRestores \/ UserDiscardsRaw
  \/ UserCloses

ProgramStep ==
  \E e \in sync.effects :
    \/ Completions(e) \/ CloseDeadline(e)
    \/ CommitValidates(e) \/ CommitExecutes(e) \/ ReconcileCommitExecutes(e)
    \/ ReadExecutes(e) \/ RecoveryExecutes(e)

Next ==
  \/ UserStep \/ HostCloses \/ HostCancels \/ MonitorFails \/ OtherProgram
  \/ ProgramStep

Spec == Init /\ [][Next]_vars

\* The program does not stop while a deadline, a task or a delivery is due:
\* the scheduler and the queues of the tasks go on.  Nothing is assumed of
\* their order, of the user, of the host and of other programs.
FairSpec == Spec /\ WF_vars(ProgramStep)

-----------------------------------------------------------------------------
(* Properties.                                                             *)

Texts == Contents
Revisions == [number : Nat, text : Texts]

\* The parts of the reducer's state have the forms that the code gives them.
TypeOK ==
  /\ sync.lifecycle \in {"active", "closing", "allowed", "closed"}
  /\ sync.source \in Revisions
  /\ sync.baseline \in [number : Nat, text : Texts, inode : Nat]
  /\ sync.local.kind \in {"clean", "dirty", "preparing", "writing"}
  /\ sync.external.kind \in {"idle", "debouncing", "reading"}
  /\ sync.access \in {"loading", "ready", "failed"}
  /\ sync.recovery.kind \in {"clear", "available", "persisting"}
  /\ sync.signalPending \in BOOLEAN /\ sync.barrier \in BOOLEAN
  /\ sync.issue \in Failures \cup {None}
  /\ sync.active \in [Operations -> Nat]
  /\ \A e \in sync.effects : e.op \in Operations /\ e.token \in Nat \ {0}
  /\ file \in [text : Texts, inode : Nat] \cup {None}
  /\ store.raw \subseteq Entries /\ artifacts \subseteq Entries

Outstanding(kind) == {e \in sync.effects : e.kind = kind}

\* The file holds what the editor shows, and the reducer knows it.
Synced ==
  /\ file # None /\ file.text = sync.source.text
  /\ sync.baseline.text = sync.source.text
  /\ sync.local = Clean

\* statusProjection: the user is told that synchronization is paused, failed
\* or holds a recoverable revision.
ShowsInterruption ==
  \/ sync.issue # None
  \/ sync.recovery.kind = "available"
  \/ sync.cleanup # None

\* A commit that runs is the one the local state is writing: no handler takes
\* the local state away from a commit, and none gives it up as uncertain
\* before it has answered.  (enum DocumentSyncLocalState: a writing attempt
\* outlives every event but its result.)
CommitIsTracked ==
  \A e \in Outstanding("commit") :
    /\ sync.local.kind = "writing" /\ sync.local.token = e.token
    /\ sync.uncertain = None

\* A local state that is writing has a commit that will answer: no failure,
\* deadline or contested result leaves it writing for ever, which would keep
\* every later edit out of the file and every close waiting.
WritingIsUnderWay ==
  sync.local.kind = "writing" => Outstanding("commit") # {}

\* No commit runs while bytes that another program wrote have been read and
\* not been merged yet (the comment in canScheduleLocalSave).
ObservationIsDecidedFirst == Outstanding("commit") # {} => sync.merge = None

\* What the program knows of displaced bytes that only the commit journal
\* holds: an answer that names them is on its way, they wait to be stored, a
\* recovery call stores them, or the journal of an uncertain commit has them.
IsKnownToProgram(r) ==
  \/ \E e \in Outstanding("commit") \cup Outstanding("reconcileCommit") :
       e.answer # None /\ e.answer.displaced = r
  \/ sync.pendingDisplaced # None /\ sync.pendingDisplaced.id = r.id
  \/ sync.recovery.kind = "persisting" /\ sync.recovery.attempt.entry = r
  \/ journal # None /\ journal.displaced = r

\* Bytes that a commit displaced are in the recovery store, known to the
\* program, or behind the barrier: saveCommitFinished and saveCommitReconciled
\* give up what comes while the store cannot take it (failRecovery), and then
\* nothing is saved before a reconciliation has imported it.  The durable
\* baseline moves to another file only while all of them are known or stored.
\* (testUnexpectedDisplacedPreimagePersistsCapturedRawInputBeforeAdvancing)
DisplacedBytesAreTracked ==
  [][\A r \in artifacts' :
       IF Fingerprint(sync'.baseline) = Fingerprint(sync.baseline)
       THEN IsKnownToProgram(r)' \/ sync'.barrier
       ELSE IsKnownToProgram(r)']_vars

\* The journal of an uncertain commit stays until the reconciliation of that
\* commit has read it.
\* (SafeFileCommitter.commit: "Any intervening failure is an uncertain commit
\* that reconciliation must still be able to prove.")
UncertainCommitIsProvable ==
  sync.uncertain # None =>
    \/ journal # None /\ journal.token = sync.uncertain.token
    \/ \E e \in Outstanding("reconcileCommit") :
         /\ e.request.original = sync.uncertain.token
         /\ e.answer # None /\ e.answer.outcome # "unresolved"

\* The text of the loser of a conflict is held in memory until the recovery
\* store has it, through failures, retries, timeouts and a refused close.
ConflictIsHeldUntilStored ==
  [][/\ sync.pendingConflict # None
     /\ sync'.pendingConflict # sync.pendingConflict
     => \E r \in ToSet(store.decoded) : r.text = sync.pendingConflict]_vars

\* A recovery store that failed is an issue the user is shown: the retry, which
\* alone opens the store again, does nothing without an issue.
FailedRecoveryIsShown == sync.access = "failed" => sync.issue # None

\* The store holds bytes of a commit that a change of it does not expect, as
\* after an import.
BroughtIn(attempt, records) ==
  ~(records.raw \subseteq
      attempt.expected.raw \cup
      (IF attempt.purpose = "persistDisplacedPreimage"
       THEN {attempt.entry} ELSE {}))

\* A recovery that waits for the store has a command in the store, or the
\* store has failed, until the document is closed.  One case is left: the
\* import of a reconciliation brings in bytes that the interrupted change does
\* not expect, reconciliationResult does not recognise the records, and the
\* reducer ignores the answer.
PersistingIsUnderWay ==
  sync.lifecycle # "closed" /\ sync.recovery.kind = "persisting" =>
    \/ Outstanding("mutate") \cup Outstanding("reconcile") # {}
    \/ sync.access = "failed"
    \/ BroughtIn(sync.recovery.attempt, store)

\* Until a document is closed, what the reducer takes the recovery store to
\* hold is what it holds, and a change that the store has yet to carry out is
\* the one the reducer waits for and was asked of these very records, through
\* every failure, deadline and retry: the comparison that guards the store's
\* records never refuses a change of this document.
RecordsAreKnown ==
  sync.lifecycle # "closed" =>
    /\ sync.recovery.kind = "available" => sync.recovery.records = store
    /\ sync.recovery.kind = "clear" /\ sync.access = "ready" =>
         store = NoRecords
    /\ \A e \in Outstanding("mutate") :
         e.answer = None => /\ e.request.expected = store
                            /\ sync.recovery = Persisting(e.request)

\* A close is allowed and carried out only when the editor's text is the
\* baseline, no commit and no change of the recovery store is under way, and
\* no conflict, displaced file or uncertain commit waits.
NothingIsOwed ==
  sync.lifecycle \in {"allowed", "closed"} =>
    /\ sync.local = Clean /\ sync.baseline.text = sync.source.text
    /\ Outstanding("commit") = {}
    /\ \A e \in Outstanding("mutate") : e.answer # None
    /\ sync.pendingConflict = None /\ sync.pendingDisplaced = None
    /\ sync.uncertain = None

\* When a close is allowed, no cleanup of the recovery store is left, and every
\* displaced file the program knows of is in that store (progressManagedClose).
\* If it is the first close and nothing has failed so far, and the file was not
\* deleted, the file holds the editor's text, or a notice of a later change is
\* on its way.  The premise is needed: an edit clears the issue of a failed or
\* impossible read, a failed mutation leaves the monitor off after its retry,
\* and a notice is ignored while a close that is then cancelled is allowed.
CloseIsSafe ==
  [][/\ sync.lifecycle = "closing" /\ sync'.lifecycle = "allowed"
     => /\ sync'.cleanup = None
        /\ \A r \in artifacts' : ~IsKnownToProgram(r)'
        /\ (/\ budget.faults = MaxFaults /\ budget.closes = MaxCloses - 1
            /\ file # None)
           => Synced' \/ Outstanding("signal")' # {}]_vars

\* When the user and other programs pause, the document settles: its text is
\* in the file, or it is closed, or the user is told why not.
Converges ==
  <>[](\/ sync.lifecycle \in {"allowed", "closed"}
       \/ Synced
       \/ ShowsInterruption)

\* The text that a conflict takes out of the editor can be found: in memory,
\* in the editor, in the file, in the recovery store or beside the journal
\* (testFailedConflictPersistenceRetainsLocalSnapshotThroughRetry).
ConflictTextIsHeld ==
  \A t \in sync.displaced :
    \/ t \in {sync.pendingConflict, sync.source.text}
    \/ file # None /\ t = file.text
    \/ \E r \in RecordSet(store) \cup artifacts : r.text = t

=============================================================================
