----------------------------- MODULE FileCommit -----------------------------
(***************************************************************************)
(* Replacing a file that other programs may write: SafeFileCommitter, the  *)
(* commit journal of CommitRecoveryJournalStore and the steps of           *)
(* SessionRecoveryStore that keep displaced bytes.                         *)
(*                                                                         *)
(* Two threads of the program are modelled, the committer on the file lane *)
(* of the document and the recovery lane shared by all documents, together *)
(* with other programs, failing system calls, the end of the process and   *)
(* power loss.  One file; the identity of a file is its inode, the one an  *)
(* attempt creates is named after the attempt and inodes are not reused.   *)
(* Another document appears only as the Import it may cause at any time.   *)
(***************************************************************************)
EXTENDS Naturals, FiniteSets

CONSTANTS
  Attempts,        \* save attempts; also the id of the journal of each
  Contents,        \* byte sequences; equality stands for equal digests
  ForeignInodes,   \* inodes of the files other programs create
  Nothing,         \* no file, no attempt, no entry
  Faults,          \* the kinds of system call failure that may happen
  MaxExternal,     \* bound on the writes of other programs
  MaxFaults,       \* bound on failing system calls
  MaxCrashes       \* bound on ends of the process and power losses

FaultKinds ==
  {"candidate", "journalWrite", "journalSync", "swap", "flush", "readBack",
   "receiptWrite", "receiptSync", "unlink", "journalUnlink", "raw"}

Inodes == Attempts \cup ForeignInodes
File == [ino : Inodes, data : Contents]
FileOrNothing == File \cup {Nothing}
Terminal == {"committed", "notCommitted", "cleanupAuthorized"}
JournalStates == {"none", "prepared"} \cup Terminal
RawEntries ==
  [state : {"payload", "intended", "acknowledged"}, data : Contents]
Acknowledgements ==
  [attempt : Attempts, by : {"committer", "import", "persistRaw", "reconcile"},
   requested : {Nothing, "committed", "notCommitted"},
   step : {"receipt", "unlink", "journal"}]
LaneStates ==
  [op : {"idle", "import", "persistRaw", "reconcile"},
   attempt : Attempts \cup {Nothing},
   step : {"none", "next", "payload", "intend", "acknowledge", "acknowledging"},
   todo : SUBSET Attempts, completed : SUBSET Attempts]

ASSUME CommitAssumption ==
  /\ Attempts \cap ForeignInodes = {}
  /\ Nothing \notin Attempts \cup ForeignInodes \cup Contents
  /\ Nothing \notin File \cup RawEntries \cup Acknowledgements
  /\ Nothing \notin {"committed", "notCommitted"}
  /\ Faults \subseteq FaultKinds
  /\ MaxExternal \in Nat /\ MaxFaults \in Nat /\ MaxCrashes \in Nat

VARIABLES
  target,     \* the file at the path of the document, or Nothing
  cand,       \* per attempt, the file at its candidate path, or Nothing
  journal,    \* per attempt, the terminal state of its journal file
  durable,    \* per attempt, the journal a power loss leaves behind
  unflushed,  \* the attempt whose swap a power loss may take back
  raw,        \* per attempt, its raw recovery entry
  baseline,   \* the durable state the open document expects, or Nothing
  current,    \* the attempt of the document that has no answer yet
  phase,      \* per attempt, how far the committer has come
  payload,    \* per attempt, the bytes it saves
  expected,   \* per attempt, the preimage fingerprint it is bound to
  live,       \* liveCommitIDs
  answer,     \* per attempt, what the document was told
  ack,        \* the acknowledgement that holds transactionLock, or Nothing
  lane,       \* what the recovery lane is doing
  ready,      \* startupStatus of the recovery store is ready
  displaced,  \* history: per attempt, the file its swap took away
  discarded,  \* history: attempts whose raw entry the user discarded
  externals, faults, crashes

fileVars == <<target, cand, unflushed, displaced>>
journalVars == <<journal, durable>>
docVars == <<baseline, current, phase, payload, expected, answer>>
boundVars == <<externals, faults, crashes>>
vars == <<target, cand, journal, durable, unflushed, raw, baseline, current,
          phase, payload, expected, live, answer, ack, lane, ready, displaced,
          discarded, externals, faults, crashes>>

Idle == [op |-> "idle", attempt |-> Nothing, step |-> "none",
         todo |-> {}, completed |-> {}]

Fault(kind) ==
  /\ kind \in Faults
  /\ faults < MaxFaults
  /\ faults' = faults + 1

NoFault == UNCHANGED faults

Init ==
  /\ target \in {f \in File : f.ino \in ForeignInodes}
  /\ cand = [c \in Attempts |-> Nothing]
  /\ journal = [c \in Attempts |-> "none"]
  /\ durable = [c \in Attempts |-> "none"]
  /\ unflushed = Nothing
  /\ raw = [c \in Attempts |-> Nothing]
  /\ baseline = Nothing
  /\ current = Nothing
  /\ phase = [c \in Attempts |-> "unused"]
  /\ payload = [c \in Attempts |-> Nothing]
  /\ expected = [c \in Attempts |-> Nothing]
  /\ live = {}
  /\ answer = [c \in Attempts |-> "none"]
  /\ ack = Nothing
  /\ lane = Idle
  /\ ready = FALSE
  /\ displaced = [c \in Attempts |-> Nothing]
  /\ discarded = {}
  /\ externals = 0 /\ faults = 0 /\ crashes = 0

------------------------------------------------------------------------------
(* Other programs.  They act on the path: in place, by replacing the file   *)
(* (a new inode) or by removing it.  Their change reaches the directory     *)
(* after an unflushed swap, which therefore cannot be taken back any more.  *)

ExternalWrite ==
  /\ externals < MaxExternal
  /\ \/ target' = Nothing /\ target # Nothing
     \/ \E d \in Contents :
          \/ target # Nothing /\ target' = [target EXCEPT !.data = d]
          \/ \E i \in ForeignInodes :
               target' = [ino |-> i, data |-> d]
               /\ (target # Nothing => target.ino # i)
  /\ \A c \in Attempts :
       cand[c] # Nothing /\ target' # Nothing => cand[c].ino # target'.ino
  /\ target' # target
  /\ unflushed' = Nothing
  /\ externals' = externals + 1
  /\ UNCHANGED <<cand, displaced, journalVars, raw, docVars, live, ack, lane,
                 ready, discarded, faults, crashes>>

\* The document reads the file: at opening and whenever no save is pending.
ReadTarget ==
  /\ current = Nothing
  /\ target # Nothing /\ baseline # target
  /\ baseline' = target
  /\ UNCHANGED <<fileVars, journalVars, raw, current, phase, payload, expected,
                 answer, live, ack, lane, ready, discarded, boundVars>>

------------------------------------------------------------------------------
(* The committer.                                                           *)

\* The caller of commit gets an answer: handleSaveCompletion treats a typed
\* CommitError as proof that nothing was replaced and every other error as
\* an uncertain commit.  finishLiveCommit runs when the call returns.
Answer(c, a) ==
  /\ answer' = [answer EXCEPT ![c] = a]
  /\ phase' = [phase EXCEPT ![c] = "over"]
  /\ live' = live \ {c}
  /\ current' = IF a = "uncertain" THEN current ELSE Nothing
  /\ baseline' = IF a \in {"committed", "contested"}
                 THEN [ino |-> c, data |-> payload[c]] ELSE baseline
  /\ UNCHANGED <<payload, expected>>

\* The document saves only while nothing about an earlier commit is open.
MayCommit ==
  /\ ready /\ current = Nothing /\ baseline # Nothing
  /\ \A c \in Attempts : answer[c] # "contested"

\* The guards of commit and the validation of the preimage: the candidate is
\* written and kept only when the target is the expected file.
PrepareCandidate(c) ==
  /\ MayCommit /\ phase[c] = "unused"
  /\ target = baseline
  /\ \E d \in Contents :
       /\ payload' = [payload EXCEPT ![c] = d]
       /\ cand' = [cand EXCEPT ![c] = [ino |-> c, data |-> d]]
  /\ expected' = [expected EXCEPT ![c] = baseline]
  /\ current' = c
  /\ phase' = [phase EXCEPT ![c] = "candidate"]
  /\ UNCHANGED <<target, unflushed, displaced, journalVars, raw, baseline, answer,
                 live, ack, lane, ready, discarded, boundVars>>

\* targetMissingBeforeCommit and targetChangedBeforeCommit, or a failing
\* write of the candidate, which leaves no journal behind.
PrepareCandidateFails(c) ==
  /\ MayCommit /\ phase[c] = "unused"
  /\ \/ /\ target # baseline /\ NoFault
        /\ answer' = [answer EXCEPT ![c] = "notStarted"]
        /\ UNCHANGED current
     \/ /\ Fault("candidate")
        /\ answer' = [answer EXCEPT ![c] = "uncertain"]
        /\ current' = c
  /\ phase' = [phase EXCEPT ![c] = "over"]
  /\ UNCHANGED <<fileVars, journalVars, raw, baseline, payload, expected, live,
                 ack, lane, ready, discarded, externals, crashes>>

\* CommitRecoveryJournalStore.prepare(registeringLiveCommit: true).  A write
\* that fails before the rename leaves no journal; a directory sync that
\* fails after it leaves one, while commit still removes the candidate.
WriteJournal(c) ==
  /\ phase[c] = "candidate" /\ ack = Nothing
  /\ \/ /\ NoFault
        /\ journal' = [journal EXCEPT ![c] = "prepared"]
        /\ durable' = [durable EXCEPT ![c] = "prepared"]
        /\ live' = live \cup {c}
        /\ phase' = [phase EXCEPT ![c] = "journaled"]
        /\ UNCHANGED <<cand, answer>>
     \/ /\ \/ Fault("journalWrite") /\ UNCHANGED journal
           \/ Fault("journalSync")
              /\ journal' = [journal EXCEPT ![c] = "prepared"]
        /\ cand' = [cand EXCEPT ![c] = Nothing]
        /\ answer' = [answer EXCEPT ![c] = "uncertain"]
        /\ phase' = [phase EXCEPT ![c] = "over"]
        /\ UNCHANGED <<durable, live>>
  /\ UNCHANGED <<target, unflushed, displaced, raw, baseline, current, payload,
                 expected, ack, lane, ready, discarded, externals, crashes>>

\* renameatx_np with RENAME_SWAP.
Swap(c) ==
  /\ phase[c] = "journaled" /\ target # Nothing
  /\ target' = cand[c]
  /\ cand' = [cand EXCEPT ![c] = target]
  /\ unflushed' = c
  /\ displaced' = [displaced EXCEPT ![c] = target]
  /\ phase' = [phase EXCEPT ![c] = "swapped"]
  /\ UNCHANGED <<journalVars, raw, baseline, current, payload, expected, answer,
                 live, ack, lane, ready, discarded, boundVars>>

\* The swap is refused (not supported, other volume) or finds no target; the
\* journal is then acknowledged.
SwapFails(c) ==
  /\ phase[c] = "journaled"
  /\ \/ target = Nothing /\ NoFault
     \/ target # Nothing /\ Fault("swap")
  /\ phase' = [phase EXCEPT ![c] = "swapFailed"]
  /\ UNCHANGED <<fileVars, journalVars, raw, baseline, current, payload,
                 expected, answer, live, ack, lane, ready, discarded, externals,
                 crashes>>

\* Mutant: the directories are not synchronized after the swap.
SwapNotFlushed(c) ==
  /\ phase[c] = "swapped"
  /\ phase' = [phase EXCEPT ![c] = "flushed"]
  /\ UNCHANGED <<fileVars, journalVars, raw, baseline, current, payload, expected,
                 answer, live, ack, lane, ready, discarded, boundVars>>

\* Both directories are synchronized after the swap.
FlushSwap(c) ==
  /\ phase[c] = "swapped"
  /\ \/ /\ NoFault
        /\ unflushed' = Nothing
        /\ phase' = [phase EXCEPT ![c] = "flushed"]
        /\ UNCHANGED <<baseline, current, payload, expected, answer, live>>
     \/ /\ Fault("flush")
        /\ Answer(c, "uncertain")
        /\ UNCHANGED unflushed
  /\ UNCHANGED <<target, cand, displaced, journalVars, raw, ack, lane, ready,
                 discarded, externals, crashes>>

\* Mutant: the displaced bytes are not compared with the expected ones.
DisplacedNotCompared(c) ==
  /\ phase[c] = "flushed"
  /\ NoFault
  /\ phase' = [phase EXCEPT ![c] = "verified"]
  /\ UNCHANGED <<fileVars, journalVars, raw, baseline, current, payload, expected,
                 answer, live, ack, lane, ready, discarded, externals, crashes>>

\* The displaced bytes are read back.  Unexpected ones leave the journal in
\* place and are returned with the artifact.
ReadDisplaced(c) ==
  /\ phase[c] = "flushed"
  /\ \/ /\ NoFault
        /\ IF cand[c].data = expected[c].data
           THEN /\ phase' = [phase EXCEPT ![c] = "verified"]
                /\ UNCHANGED <<baseline, current, payload, expected, answer, live>>
           ELSE Answer(c, "contested")
     \/ Fault("readBack") /\ Answer(c, "uncertain")
  /\ UNCHANGED <<fileVars, journalVars, raw, ack, lane, ready, discarded,
                 externals, crashes>>

------------------------------------------------------------------------------
(* CommitRecoveryJournalStore.acknowledge.  transactionLock is held from    *)
(* its first step to its last, so ack is also that lock.                    *)

\* Mutant: the requested terminal state is dropped.
AcknowledgeWithoutRequest(c, by, requested) ==
  /\ ack = Nothing
  /\ ack' = [attempt |-> c, by |-> by, requested |-> Nothing, step |-> "receipt"]

Acknowledge(c, by, requested) ==
  /\ ack = Nothing
  /\ ack' = [attempt |-> c, by |-> by, requested |-> requested, step |-> "receipt"]

\* The caller of a failed acknowledgement: commit throws an untyped error,
\* the recovery command of the lane fails.
AckThrows ==
  /\ ack' = Nothing
  /\ IF ack.by = "committer"
     THEN Answer(ack.attempt, "uncertain") /\ UNCHANGED lane
     ELSE lane' = Idle /\ UNCHANGED <<docVars, live>>

\* inferredTerminalState; {} when a file it has to read does not exist.
Inferred(c) ==
  IF target # Nothing /\ target.ino = c /\ cand[c].ino # c
  THEN {IF cand[c].data = expected[c].data THEN "committed"
                                           ELSE "cleanupAuthorized"}
  ELSE IF cand[c].ino = c /\ target = Nothing THEN {}
  ELSE {IF cand[c].ino = c /\ target = expected[c] THEN "notCommitted"
                                                   ELSE "cleanupAuthorized"}

\* Mutant: a terminal receipt is not accepted once its artifact is gone.
ReceiptsOfOwnedArtifact(c) ==
  IF cand[c] = Nothing THEN {}
  ELSE IF journal[c] \in Terminal THEN {journal[c]}
  ELSE IF ack.requested # Nothing THEN {ack.requested}
  ELSE Inferred(c)

\* The state acknowledge records before it removes anything.
Receipts(c) ==
  IF journal[c] \in Terminal THEN {journal[c]}
  ELSE IF cand[c] = Nothing THEN {}
  ELSE IF ack.requested # Nothing THEN {ack.requested}
  ELSE Inferred(c)

AckReceipt ==
  /\ ack # Nothing /\ ack.step = "receipt"
  /\ LET c == ack.attempt IN
     \/ /\ journal[c] = "none" /\ NoFault
        /\ ack' = [ack EXCEPT !.step = "unlink"]
        /\ UNCHANGED <<journalVars, docVars, live, lane>>
     \/ /\ journal[c] # "none"
        /\ \E r \in Receipts(c) :
             \/ /\ NoFault
                /\ journal' = [journal EXCEPT ![c] = r]
                /\ durable' = [durable EXCEPT ![c] = r]
                /\ ack' = [ack EXCEPT !.step = "unlink"]
                /\ UNCHANGED <<docVars, live, lane>>
             \/ /\ \/ Fault("receiptWrite") /\ UNCHANGED journal
                   \/ Fault("receiptSync")
                      /\ journal' = [journal EXCEPT ![c] = r]
                /\ AckThrows
                /\ UNCHANGED durable
     \/ /\ journal[c] # "none" /\ Receipts(c) = {} /\ NoFault
        /\ AckThrows
        /\ UNCHANGED journalVars
  /\ UNCHANGED <<fileVars, raw, ready, discarded, externals, crashes>>

\* The candidate and its directory are removed, and their parent flushed.
AckUnlink ==
  /\ ack # Nothing /\ ack.step = "unlink"
  /\ \/ /\ NoFault
        /\ cand' = [cand EXCEPT ![ack.attempt] = Nothing]
        /\ ack' = [ack EXCEPT !.step = "journal"]
        /\ UNCHANGED <<docVars, live, lane>>
     \/ Fault("unlink") /\ AckThrows /\ UNCHANGED cand
  /\ UNCHANGED <<target, unflushed, displaced, journalVars, raw, ready, discarded,
                 externals, crashes>>

\* What the caller does when the journal is gone.
AckReturns ==
  LET c == ack.attempt IN
  /\ ack' = Nothing
  /\ CASE ack.by = "committer" ->
            /\ Answer(c, IF phase[c] = "verified" THEN "committed" ELSE "notStarted")
            /\ UNCHANGED lane
       [] ack.by = "reconcile" ->
            /\ Answer(c, ack.requested)
            /\ lane' = Idle
       [] ack.by = "persistRaw" ->
            /\ answer' = [answer EXCEPT ![c] = "preserved"]
            /\ lane' = Idle
            /\ UNCHANGED <<baseline, current, phase, payload, expected, live>>
       [] ack.by = "import" ->
            /\ lane' = [lane EXCEPT !.todo = @ \ {c}, !.step = "next",
                                    !.attempt = Nothing]
            /\ UNCHANGED <<docVars, live>>

\* Once the terminal receipt is durable a failing directory sync after the
\* unlink of the journal is not an error.
AckJournal ==
  /\ ack # Nothing /\ ack.step = "journal"
  /\ LET c == ack.attempt IN
     \/ /\ NoFault
        /\ journal' = [journal EXCEPT ![c] = "none"]
        /\ durable' = [durable EXCEPT ![c] = "none"]
        /\ AckReturns
     \/ /\ Fault("journalSync")
        /\ journal' = [journal EXCEPT ![c] = "none"]
        /\ UNCHANGED durable
        /\ AckReturns
     \/ /\ Fault("journalUnlink")
        /\ AckThrows
        /\ UNCHANGED journalVars
  /\ UNCHANGED <<fileVars, raw, ready, discarded, externals, crashes>>

CommitterAcknowledges(c) ==
  /\ phase[c] \in {"verified", "swapFailed"}
  /\ Acknowledge(c, "committer", Nothing)
  /\ UNCHANGED <<fileVars, journalVars, raw, docVars, live, lane, ready,
                 discarded, boundVars>>

------------------------------------------------------------------------------
(* The recovery lane: one command at a time.                                *)

\* Mutant: the journals of live commits are not skipped.
PendingOrLive == {c \in Attempts : journal[c] # "none"}

\* pendingRecoveries skips the journals of live commits, and throws on a
\* prepared journal whose replacement directory is gone.
Pending == {c \in Attempts : journal[c] # "none" /\ c \notin live}

JournalsReadable ==
  \A c \in Pending : journal[c] = "prepared" => cand[c] # Nothing

\* A payload file without metadata stops every import.
OrphanRaw(c) == raw[c] # Nothing /\ raw[c].state = "payload"

\* The swap of a prepared journal took place: the target is the candidate,
\* or the candidate path holds another file.
SwapCompleted(c) ==
  /\ journal[c] = "prepared"
  /\ \/ target # Nothing /\ target.ino = c
     \/ cand[c] # Nothing /\ cand[c].ino # c

\* importPersistedState, at startup or in a command of another document.
ImportScan ==
  /\ lane = Idle /\ ack = Nothing
  /\ JournalsReadable
  /\ \A c \in Attempts : ~OrphanRaw(c)
  /\ ready => Pending # {}
  /\ lane' = [op |-> "import", attempt |-> Nothing, step |-> "next",
              todo |-> Pending, completed |-> {c \in Pending : SwapCompleted(c)}]
  /\ UNCHANGED <<fileVars, journalVars, raw, docVars, live, ack, ready,
                 discarded, boundVars>>

\* Whether a pending journal displaced bytes that must become a raw entry.
MustPreserve(c) ==
  /\ c \in lane.completed
  /\ IF raw[c] # Nothing
     THEN raw[c].data # expected[c].data /\ raw[c].state # "acknowledged"
     ELSE cand[c].data # expected[c].data

ImportNext(c) ==
  /\ lane.op = "import" /\ lane.step = "next" /\ c \in lane.todo
  /\ IF MustPreserve(c)
     THEN /\ lane' = [lane EXCEPT !.attempt = c, !.step = "payload"]
          /\ UNCHANGED ack
     ELSE /\ lane' = [lane EXCEPT !.attempt = c, !.step = "acknowledging"]
          /\ Acknowledge(c, "import", Nothing)
  /\ UNCHANGED <<fileVars, journalVars, raw, docVars, live, ready, discarded,
                 boundVars>>

\* The import is complete; a document whose displaced bytes it preserved
\* finds them acknowledged when it reconciles.
ImportDone ==
  /\ lane.op = "import" /\ lane.todo = {}
  /\ lane' = Idle
  /\ ready' = TRUE
  /\ answer' = [c \in Attempts |->
                  IF answer[c] = "contested" /\ raw[c] # Nothing
                     /\ raw[c].state = "acknowledged"
                  THEN "preserved" ELSE answer[c]]
  /\ UNCHANGED <<fileVars, journalVars, raw, baseline, current, phase, payload,
                 expected, live, ack, discarded, boundVars>>

\* persistRaw for the contested commit of the open document.
PersistRaw(c) ==
  /\ lane = Idle /\ ready
  /\ answer[c] = "contested" /\ raw[c] = Nothing
  /\ lane' = [Idle EXCEPT !.op = "persistRaw", !.attempt = c, !.step = "payload"]
  /\ UNCHANGED <<fileVars, journalVars, raw, docVars, live, ack, ready,
                 discarded, boundVars>>

\* The payload file, the metadata that names the intended artifact, the
\* metadata that acknowledges it, then the journal.  A write that fails may
\* have renamed the new file into place.
RawSteps == [payload |-> "intend", intend |-> "acknowledge"]

WriteRaw ==
  /\ lane.step \in {"payload", "intend"}
  /\ LET c == lane.attempt
         entry == IF raw[c] # Nothing THEN raw[c]
                  ELSE [state |-> "payload", data |-> cand[c].data]
         written == [raw EXCEPT ![c] = IF lane.step = "payload" THEN entry
                                       ELSE [entry EXCEPT !.state = "intended"]]
     IN
     \/ /\ NoFault
        /\ raw' = written
        /\ lane' = [lane EXCEPT !.step = RawSteps[lane.step]]
     \/ /\ Fault("raw")
        /\ raw' \in {raw, written}
        /\ lane' = Idle
  /\ UNCHANGED <<fileVars, journalVars, docVars, live, ack, ready, discarded,
                 externals, crashes>>

AcknowledgeRaw ==
  /\ lane.step = "acknowledge"
  /\ LET c == lane.attempt IN
     \/ /\ NoFault
        /\ raw' = [raw EXCEPT ![c].state = "acknowledged"]
        /\ lane' = [lane EXCEPT !.step = "acknowledging"]
        /\ Acknowledge(c, lane.op, Nothing)
     \/ /\ Fault("raw")
        /\ raw' \in {raw, [raw EXCEPT ![c].state = "acknowledged"]}
        /\ lane' = Idle
        /\ UNCHANGED ack
  /\ UNCHANGED <<fileVars, journalVars, docVars, live, ready, discarded,
                 externals, crashes>>

\* The user discards preserved bytes that were shown to him: an import or a
\* persistRaw that consumed the journal has completed.
DiscardRaw(c) ==
  /\ lane = Idle /\ ready
  /\ raw[c] # Nothing /\ raw[c].state = "acknowledged"
  /\ journal[c] = "none" /\ answer[c] # "contested"
  /\ raw' = [raw EXCEPT ![c] = Nothing]
  /\ discarded' = discarded \cup {c}
  /\ UNCHANGED <<fileVars, journalVars, docVars, live, ack, lane, ready, boundVars>>

\* reconcileCommit: an uncertain commit is decided by its own journal, never
\* by the target bytes alone.  A request it cannot decide changes nothing.
Reconcile(c) ==
  /\ lane = Idle /\ ready /\ ack = Nothing
  /\ answer[c] = "uncertain" /\ c = current
  /\ c \in Pending /\ JournalsReadable /\ target # Nothing
  /\ LET inPlace == target = [ino |-> c, data |-> payload[c]]
         resolveAs(r) == /\ Acknowledge(c, "reconcile", r)
                         /\ lane' = [Idle EXCEPT !.op = "reconcile"]
                         /\ UNCHANGED <<docVars, live>>
     IN
     \/ /\ journal[c] = "committed" /\ inPlace
        /\ resolveAs("committed") /\ UNCHANGED unflushed
     \/ /\ \/ journal[c] = "notCommitted"
           \/ journal[c] = "prepared" /\ cand[c].ino = c
        /\ target = expected[c]
        /\ resolveAs("notCommitted") /\ UNCHANGED unflushed
     \/ /\ journal[c] = "prepared" /\ cand[c].ino # c /\ inPlace
        /\ unflushed' = Nothing
        /\ IF cand[c].data = expected[c].data
           THEN resolveAs("committed")
           ELSE Answer(c, "contested") /\ UNCHANGED <<ack, lane>>
  /\ UNCHANGED <<target, cand, displaced, journalVars, raw, ready, discarded,
                 boundVars>>

------------------------------------------------------------------------------
(* The end of the process, and power loss.                                  *)

ProcessState ==
  /\ crashes < MaxCrashes
  /\ crashes' = crashes + 1
  /\ live' = {} /\ ack' = Nothing /\ lane' = Idle /\ ready' = FALSE
  /\ baseline' = Nothing /\ current' = Nothing
  /\ phase' = [c \in Attempts |-> IF phase[c] = "unused" THEN "unused" ELSE "over"]
  /\ answer' = [c \in Attempts |->
                  CASE answer[c] \in {"contested", "preserved"} -> "committed"
                    [] answer[c] = "uncertain" \/ c = current -> "lost"
                    [] OTHER -> answer[c]]
  /\ UNCHANGED <<payload, expected, raw, discarded, externals, faults>>

ProcessEnds == ProcessState /\ UNCHANGED <<fileVars, journalVars>>

\* Directory entries that were not synchronized may revert.
PowerLoss ==
  /\ ProcessState
  /\ \E kept \in SUBSET {c \in Attempts : journal[c] # durable[c]} :
       journal' = [c \in Attempts |-> IF c \in kept THEN journal[c] ELSE durable[c]]
  /\ durable' = journal'
  /\ unflushed' = Nothing
  /\ \/ UNCHANGED <<target, cand, displaced>>
     \/ /\ unflushed # Nothing /\ cand[unflushed] # Nothing
        /\ target' = cand[unflushed]
        /\ cand' = [cand EXCEPT ![unflushed] = target]
        /\ displaced' = [displaced EXCEPT ![unflushed] = Nothing]

------------------------------------------------------------------------------

CommitterStep(c) ==
  \/ WriteJournal(c) \/ Swap(c) \/ SwapFails(c) \/ FlushSwap(c)
  \/ ReadDisplaced(c) \/ CommitterAcknowledges(c)

AckStep == AckReceipt \/ AckUnlink \/ AckJournal

LaneStep ==
  \/ ImportScan \/ ImportDone \/ WriteRaw \/ AcknowledgeRaw
  \/ \E c \in Attempts : ImportNext(c)

Next ==
  \/ ExternalWrite \/ ReadTarget \/ AckStep \/ LaneStep
  \/ ProcessEnds \/ PowerLoss
  \/ \E c \in Attempts :
       \/ PrepareCandidate(c) \/ PrepareCandidateFails(c) \/ CommitterStep(c)
       \/ PersistRaw(c) \/ DiscardRaw(c) \/ Reconcile(c)

Spec == Init /\ [][Next]_vars

\* The recovery lane runs the commands it has begun, and a failed startup is
\* tried again (retryStartup, or the next document that opens).
Startup == ~ready /\ ImportScan
ImportStep == ImportDone \/ \E c \in Attempts : ImportNext(c)

FairSpec ==
  /\ Spec
  /\ WF_vars(Startup)
  /\ WF_vars(ImportStep)
  /\ WF_vars(WriteRaw)
  /\ WF_vars(AcknowledgeRaw)
  /\ WF_vars(AckStep)

------------------------------------------------------------------------------
(* Properties.                                                              *)

\* Every variable of the committer, the journal store and the recovery lane
\* has its type.
TypeOK ==
  /\ target \in FileOrNothing
  /\ cand \in [Attempts -> FileOrNothing]
  /\ journal \in [Attempts -> JournalStates]
  /\ durable \in [Attempts -> JournalStates]
  /\ unflushed \in Attempts \cup {Nothing}
  /\ raw \in [Attempts -> RawEntries \cup {Nothing}]
  /\ baseline \in FileOrNothing
  /\ current \in Attempts \cup {Nothing}
  /\ phase \in [Attempts -> {"unused", "candidate", "journaled", "swapped",
                             "flushed", "verified", "swapFailed", "over"}]
  /\ payload \in [Attempts -> Contents \cup {Nothing}]
  /\ expected \in [Attempts -> FileOrNothing]
  /\ live \in SUBSET Attempts
  /\ answer \in [Attempts -> {"none", "notStarted", "notCommitted", "committed",
                              "contested", "preserved", "uncertain", "lost"}]
  /\ ack \in Acknowledgements \cup {Nothing}
  /\ lane \in LaneStates
  /\ ready \in BOOLEAN
  /\ displaced \in [Attempts -> FileOrNothing]
  /\ discarded \in SUBSET Attempts
  /\ externals \in Nat /\ faults \in Nat /\ crashes \in Nat

\* The bytes the swap of c took away are found again after any crash: at the
\* candidate path, named by a durable journal, or in a raw recovery entry.
Reachable(c) ==
  \/ cand[c] = displaced[c] /\ journal[c] # "none" /\ durable[c] # "none"
  \/ raw[c] # Nothing /\ raw[c].data = displaced[c].data

\* Bytes another program wrote between the validation of the preimage and
\* the swap are never lost, whatever fails or ends between two steps of the
\* committer, the import or the acknowledgement, until the user discards them.
ForeignBytesStayReachable ==
  \A c \in Attempts :
    displaced[c] # Nothing /\ displaced[c].data # expected[c].data
      => Reachable(c) \/ c \in discarded

\* The inductive strengthening, one part per place where the evidence about
\* the displaced bytes of an attempt can be: who owns which step, where the
\* inodes are, what the journal says and what the raw entry holds.
Unexpected(c) ==
  /\ displaced[c] # Nothing /\ displaced[c].data # expected[c].data
  /\ c \notin discarded
Preserved(c) == raw[c] # Nothing /\ raw[c].data = displaced[c].data
Consumable(c) == Unexpected(c) => Preserved(c)

LivePhases == {"journaled", "swapped", "flushed", "verified", "swapFailed"}

\* A committer owns its journal until it answers; the lane and every
\* acknowledgement of the lane work on attempts that have answered.
Ownership ==
  /\ \A c \in Attempts :
       /\ c \in live <=> phase[c] \in LivePhases
       /\ phase[c] # "over" => raw[c] = Nothing /\ c \notin discarded
       /\ phase[c] \in {"unused", "candidate"} =>
            /\ journal[c] = "none" /\ durable[c] = "none" /\ displaced[c] = Nothing
       /\ phase[c] = "unused" => cand[c] = Nothing
       /\ \/ phase[c] \in LivePhases \cup {"candidate"}
          \/ journal[c] # "none" \/ durable[c] # "none"
          => payload[c] \in Contents /\ expected[c] # Nothing
  /\ \A c \in lane.todo : phase[c] = "over"
  /\ lane.attempt # Nothing => phase[lane.attempt] = "over"
  /\ lane.op = "import" /\ lane.step # "next" => lane.attempt \in lane.todo
  /\ lane.step \in {"payload", "intend", "acknowledge"} =>
       /\ lane.attempt # Nothing /\ lane.op \in {"import", "persistRaw"}
  /\ ack # Nothing =>
       /\ IF ack.by = "committer"
          THEN phase[ack.attempt] \in {"verified", "swapFailed"}
          ELSE /\ phase[ack.attempt] = "over"
               /\ lane.op = ack.by /\ lane.step \in {"none", "acknowledging"}
       /\ ack.by = "reconcile" =>
            ack.requested # Nothing /\ payload[ack.attempt] \in Contents

\* Where the file of an attempt and the file it displaced are.
Location ==
  \A c \in Attempts :
    /\ displaced[c] # Nothing => displaced[c].ino # c
    /\ displaced[c] = Nothing =>
         /\ target # Nothing => target.ino # c
         /\ cand[c] # Nothing => cand[c].ino = c
         /\ \A e \in Attempts : displaced[e] # Nothing => displaced[e].ino # c
    /\ displaced[c] # Nothing => cand[c] \in {Nothing, displaced[c]}
    /\ phase[c] \in {"candidate", "journaled"} => cand[c] # Nothing
    /\ phase[c] \in {"journaled", "swapFailed"} => displaced[c] = Nothing
    /\ phase[c] \in {"swapped", "flushed"} =>
         displaced[c] # Nothing /\ cand[c] = displaced[c]
    /\ phase[c] = "verified" =>
         displaced[c] # Nothing /\ displaced[c].data = expected[c].data
    /\ unflushed = c =>
         /\ target # Nothing /\ target.ino = c /\ displaced[c] # Nothing
         /\ \A e \in Attempts : displaced[e] # Nothing => displaced[e].ino # c

\* What the journal, the raw entry, the import and the acknowledgement in
\* progress say about bytes that were not expected.
Evidence ==
  /\ \A c \in Attempts :
       /\ Consumable(c) \/ /\ cand[c] = displaced[c]
                           /\ journal[c] = "prepared" /\ durable[c] = "prepared"
       /\ phase[c] = "journaled" => journal[c] = "prepared" /\ durable[c] = "prepared"
       /\ journal[c] = "none" => durable[c] # "prepared"
       /\ raw[c] # Nothing /\ displaced[c] # Nothing => raw[c].data = displaced[c].data
       /\ c \in discarded => journal[c] # "prepared" /\ durable[c] # "prepared"
       /\ answer[c] = "contested" => phase[c] = "over" /\ Unexpected(c)
  /\ \A c \in lane.todo : c \notin lane.completed => Consumable(c)
  /\ \A c \in lane.todo \cap lane.completed :
       cand[c] # Nothing \/ (ack # Nothing /\ ack.attempt = c)
  /\ LET c == lane.attempt IN
       /\ lane.step = "payload" => raw[c] # Nothing \/ cand[c] # Nothing
       /\ lane.step \in {"intend", "acknowledge"} => raw[c] # Nothing
  /\ ack # Nothing =>
       /\ Consumable(ack.attempt)
       /\ ack.step \in {"unlink", "journal"} =>
            journal[ack.attempt] # "prepared" /\ durable[ack.attempt] # "prepared"

EvidenceIsKept == Ownership /\ Location /\ Evidence

\* As the comment in commit has it: once the prepared journal exists, its
\* candidate remains owned until the acknowledgement completes.
PreparedJournalOwnsCandidate ==
  \A c \in Attempts : journal[c] = "prepared" => cand[c] # Nothing

\* What keeps the recovery store from starting: evidence it must not touch
\* (an orphan payload, a prepared journal without its artifact), or an
\* unswapped candidate whose target does not exist.
FailsClosed ==
  \/ \E c \in Attempts : OrphanRaw(c)
  \/ \E c \in Pending : journal[c] = "prepared" /\ cand[c] = Nothing
  \/ \E c \in Pending : /\ journal[c] = "prepared" /\ target = Nothing
                        /\ cand[c] # Nothing /\ cand[c].ino = c

\* However often the process ends or a call fails, in whichever step of a
\* commit, a preservation or an acknowledgement, the recovery store starts
\* again, and with it saving, unless it fails closed.
RecoveryStarts == ~ready ~> (ready \/ FailsClosed)

\* As the test of prepared but unswapped journals has it: reopening the store
\* consumes such a journal.
UnswappedJournalIsConsumed ==
  \A c \in Attempts :
    (~ready /\ journal[c] = "prepared" /\ cand[c] # Nothing /\ cand[c].ino = c)
      ~> journal[c] = "none"

\* The promise of FileReplacement: what is held is found where recovery
\* looks for it, and what the document was told is what FileCommitResult and
\* the reconciliation result say.
FileBytes == IF target = Nothing THEN Nothing ELSE target.data
KnownBytes == IF baseline = Nothing THEN Nothing ELSE baseline.data

Put == [c \in Attempts |-> IF displaced[c] = Nothing THEN Nothing ELSE payload[c]]

Held ==
  [c \in Attempts |->
     IF cand[c] # Nothing /\ cand[c].ino # c /\ cand[c].data # expected[c].data
     THEN cand[c].data
     ELSE IF raw[c] # Nothing THEN raw[c].data ELSE Nothing]

Told ==
  [c \in Attempts |->
     CASE answer[c] \in {"committed", "contested", "preserved"} -> "committed"
       [] answer[c] \in {"notStarted", "notCommitted"} -> "notCommitted"
       [] OTHER -> Nothing]

Promise == INSTANCE FileReplacement WITH
  file <- FileBytes, known <- KnownBytes, put <- Put, held <- Held, told <- Told

\* Committer, journal and recovery lane together keep that promise: bytes
\* are displaced only by a whole payload, held until discarded, every answer
\* is true and no committed answer is undone by a power loss.
KeepsPromise == Promise!Spec

=============================================================================
