---------------------------- MODULE RecoveryStore ---------------------------
(* The actor SessionRecoveryStore: one FIFO of commands over the directory  *)
(* of RecoveryDisk, the documents that call it, failing calls and crashes.  *)
EXTENDS RecoveryDisk, Selection

CONSTANTS
  Documents,     \* identities at which documents open; the others are moved to
  Stored,        \* contents an earlier process may have left
  Operations,    \* kinds of commands the documents use
  FaultKinds,    \* "before" or "after" the effect of a durable call
  MaxCalls, MaxFaults, MaxCrashes

ASSUME DocumentsAssumption == Documents \subseteq Keys /\ None \notin Keys

\* What a directory of an earlier process may hold.
ASSUME StoredAssumption ==
  \A s \in Stored :
    /\ IsFiniteSet(s.entries) /\ s.entries \subseteq [id : Nat, key : Keys]
    /\ IsFiniteSet(s.raws) /\ s.raws \subseteq [id : Keys, key : Keys]
    /\ s.generations \in Generations

VARIABLES
  disk,          \* the recovery directory
  status,        \* startupStatus
  startupQueued, \* startupCommandQueued
  memory,        \* entries, rawEntries and mutationGenerations
  commands,      \* the FIFO
  draining,      \* isDraining
  run,           \* the command the drain awaits, with what is left of its script
  client,        \* what each document waits for, or has to reconcile
  outdated,      \* history: a mutation was computed from an index left behind
  calls, faults, crashes

laneVars == <<status, startupQueued, commands, draining, run>>
countVars == <<outdated, calls, faults, crashes>>
vars == <<disk, laneVars, memory, client, countVars>>

\* A document has one recovery operation at a time; after a failed mutation it
\* sends the reconciliation of that mutation first.
Free(state) == [state |-> state, intent |-> None]
Waiting(c) == [state |-> "waiting", intent |-> c]
Owing(c) == [state |-> "owes", intent |-> c]

Nobody == [kind |-> "startup", caller |-> None]
Mutations == {"persistSnapshot", "persistRaw", "migrate", "discard"}
Retained == Mutations \cup {"reconcile"}
Idle == [command |-> None, phase |-> "idle", script |-> <<>>, ok |-> TRUE,
         memory |-> None]
Empty == [entries |-> {}, raws |-> {}, generations |-> [k \in Keys |-> 0]]

RecordsOf(m, key) == [entries |-> {e \in m.entries : e.key = key},
                      raws |-> {e \in m.raws : e.key = key}]
NoRecords == [entries |-> {}, raws |-> {}]

DiskOf(stored) ==
  [files |-> [f \in {Snapshot(e.id) : e \in stored.entries}
                      \cup RawFiles({e.id : e \in stored.raws}) |->
                (CHOOSE e \in IF f.kind = "snapshot" THEN stored.entries
                                                    ELSE stored.raws :
                   e.id = f.id).key],
   tombs |-> <<>>, index |-> stored.generations,
   deletion |-> None, migration |-> None]

Init ==
  /\ disk \in {DiskOf(s) : s \in Stored}
  /\ status = "loading" /\ startupQueued = FALSE /\ memory = Empty
  /\ commands = <<>> /\ draining = FALSE /\ run = Idle
  /\ client = [k \in Keys |-> Free("out")]
  /\ outdated = FALSE /\ calls = 0 /\ faults = 0 /\ crashes = 0

------------------------------------------------------------------------------
(* Calls.  A call returns at once or suspends its document until the answer. *)

Suspend(k, c) ==
  /\ calls < MaxCalls
  /\ calls' = calls + 1
  /\ client' = [client EXCEPT ![k] = Waiting(c)]
  /\ UNCHANGED <<disk, memory, run, outdated, faults, crashes>>

\* No document opens at the identity another one is moving to.
Closed(k) ==
  /\ client[k] = Free("out")
  /\ \A j \in Keys \ {k} :
       client[j].state \in {"waiting", "owes"} /\ client[j].intent.kind \in Retained
         => client[j].intent.destination # k

\* start() and retryStartup(): a failed start is replaced, ahead of the FIFO.
RetryStartup(k) ==
  LET starting == [kind |-> "startup", caller |-> k]
      waiting == [kind |-> "waitForStartup", caller |-> k]
  IN /\ Closed(k)
     /\ status # "ready"
     /\ Suspend(k, IF status = "failed" \/ startupQueued THEN waiting ELSE starting)
     /\ commands' = IF status = "failed" THEN <<Nobody, waiting>> \o commands
                    ELSE IF startupQueued THEN Append(commands, waiting)
                    ELSE Append(commands, starting)
     /\ status' = "loading" /\ startupQueued' = TRUE /\ draining' = TRUE

\* Mutant: a load is queued behind its startup and nothing drains them.
LoadUndrained(k) ==
  LET loading == [kind |-> "load", caller |-> k]
  IN /\ Closed(k)
     /\ status = "loading"
     /\ Suspend(k, loading)
     /\ commands' = (IF startupQueued THEN commands ELSE Append(commands, Nobody))
                      \o <<loading>>
     /\ startupQueued' = TRUE
     /\ UNCHANGED <<status, draining>>

\* load() while the store is loading; each call may queue another startup.
Load(k) ==
  LET loading == [kind |-> "load", caller |-> k]
  IN /\ Closed(k)
     /\ status = "loading"
     /\ Suspend(k, loading)
     /\ commands' = (IF startupQueued THEN commands ELSE Append(commands, Nobody))
                      \o <<loading>>
     /\ startupQueued' = TRUE /\ draining' = TRUE
     /\ UNCHANGED status

\* load() of a ready store answers from memory.
LoadReady(k) ==
  /\ Closed(k)
  /\ status = "ready"
  /\ client' = [client EXCEPT ![k] = Free("idle")]
  /\ UNCHANGED <<disk, laneVars, memory, countVars>>

\* enqueueSnapshotPersistence and its siblings: a failed store keeps the
\* command and does not drain; a loading one gets a startup first.
Enqueue(k, c) ==
  /\ Suspend(k, c)
  /\ commands' = (IF status = "loading" /\ ~startupQueued
                  THEN Append(commands, Nobody) ELSE commands) \o <<c>>
  /\ startupQueued' = (startupQueued \/ status = "loading")
  /\ draining' = (draining \/ status # "failed")
  /\ UNCHANGED status

Command(kind, k, destination, removing) ==
  [kind |-> kind, caller |-> k, destination |-> destination,
   removing |-> removing, generation |-> memory.generations[k],
   records |-> RecordsOf(memory, k)]

PersistSnapshot(k) == Enqueue(k, Command("persistSnapshot", k, k, NoRecords))
PersistRaw(k) == Enqueue(k, Command("persistRaw", k, k, NoRecords))

\* A rename moves the records to an identity no open document has.
Migrate(k) ==
  \E t \in {k} \cup (Keys \ Documents) :
    /\ t # k => Closed(t)
    /\ Enqueue(k, Command("migrate", k, t, NoRecords))

Discard(k) ==
  \E e \in SUBSET RecordsOf(memory, k).entries, r \in SUBSET RecordsOf(memory, k).raws :
    /\ e \cup r # {}
    /\ Enqueue(k, Command("discard", k, k, [entries |-> e, raws |-> r]))

Mutate(k) ==
  /\ client[k] = Free("idle")
  /\ \/ "persistSnapshot" \in Operations /\ PersistSnapshot(k)
     \/ "persistRaw" \in Operations /\ PersistRaw(k)
     \/ "migrate" \in Operations /\ Migrate(k)
     \/ "discard" \in Operations /\ Discard(k)

Reconcile(k) ==
  /\ client[k].state = "owes"
  /\ Enqueue(k, [client[k].intent EXCEPT !.kind = "reconcile"])

\* reconcileCommit() of a failed store is unresolved at once; the journal it
\* reads is the subject of FileCommit.
ReconcileCommit(k) ==
  /\ "reconcileCommit" \in Operations
  /\ client[k] = Free("idle")
  /\ status # "failed"
  /\ Enqueue(k, [kind |-> "reconcileCommit", caller |-> k])

------------------------------------------------------------------------------
(* Answers.                                                                 *)

Moved(c, m) ==
  LET rename(set) == {[e EXCEPT !.key = c.destination] : e \in set}
  IN /\ c.destination # c.caller
     /\ RecordsOf(m, c.destination) = [entries |-> rename(c.records.entries),
                                       raws |-> rename(c.records.raws)]

MovesTo(k, t) == [client EXCEPT ![k] = Free("out"), ![t] = Free("idle")]

\* What the documents know once command c is answered.
Answered(c, ok, m) ==
  LET k == c.caller IN
  IF k = None THEN client
  ELSE IF c.kind \in {"startup", "waitForStartup"} THEN [client EXCEPT ![k] = Free("out")]
  ELSE IF c.kind = "load" THEN [client EXCEPT ![k] = Free(IF ok THEN "idle" ELSE "out")]
  ELSE IF c.kind = "reconcileCommit" THEN [client EXCEPT ![k] = Free("idle")]
  ELSE IF ~ok THEN [client EXCEPT ![k] = Owing(c)]
  ELSE IF Moved(c, m) THEN MovesTo(k, c.destination)
  ELSE [client EXCEPT ![k] = Free("idle")]

\* Mutant: only the queued reads fail, the startup itself is not answered.
QueuedReadsFailed(c) ==
  LET reads == {commands[n].caller : n \in {m \in DOMAIN commands :
                                              commands[m].kind \notin Retained}}
  IN [k \in Keys |-> IF k \in reads THEN Free("out") ELSE client[k]]

\* failQueuedReadCommands after command c failed: reads fail, the rest stays.
ReadsFailed(c) ==
  LET reads == {commands[n].caller : n \in {m \in DOMAIN commands :
                                              commands[m].kind \notin Retained}}
               \cup {c.caller}
  IN [k \in Keys |->
        IF k \notin reads THEN client[k]
        ELSE IF client[k].intent.kind = "reconcileCommit" THEN Free("idle")
        ELSE Free("out")]

------------------------------------------------------------------------------
(* The drain.                                                               *)

Importing(c) ==
  LET i == Import(disk)
  IN [command |-> c, phase |-> "import", script |-> i.script, ok |-> i.ok,
      memory |-> i.memory]

Writing(c, script, result) ==
  [command |-> c, phase |-> "write", script |-> script, ok |-> TRUE,
   memory |-> result]

\* Mutant: a mutation looks for the journal of a deletion only.
DeletionPending == disk.deletion # None

JournalPending == disk.migration # None \/ disk.deletion # None

\* Identifiers follow creation; a new record is the newest.
NewId ==
  LET ids == {f.id : f \in {g \in DOMAIN disk.files \cup DOMAIN disk.tombs :
                              g.kind = "snapshot"}}
  IN IF ids = {} THEN 1 ELSE 1 + (CHOOSE i \in ids : \A j \in ids : j <= i)

\* Each plan is whether the store accepts c over memory m, its durable calls,
\* and the memory it leaves when all of them succeed.
SnapshotPlan(c, m) ==
  LET entry == [id |-> NewId, key |-> c.caller]
      kept == Trim({entry} \cup m.entries)
      removed == ({entry} \cup m.entries) \ kept
      next == Advance(m.generations, {c.caller} \cup {e.key : e \in removed})
  IN [ok |-> entry \in kept,
      script |-> <<Write({Snapshot(entry.id)}, entry.key)>>
                   \o CommitDeletion(disk, {Snapshot(e.id) : e \in removed},
                                     m.generations, next),
      memory |-> [entries |-> kept, raws |-> m.raws, generations |-> next]]

\* The displaced file of a document has one identifier, here its key.
RawPlan(c, m) ==
  LET next == Advance(m.generations, {c.caller})
  IN [ok |-> \A e \in m.raws : e.id # c.caller,
      script |-> <<Write({Payload(c.caller)}, c.caller),
                   Write({Metadata(c.caller)}, c.caller), Index(next)>>,
      memory |-> [entries |-> m.entries,
                  raws |-> m.raws \cup {[id |-> c.caller, key |-> c.caller]},
                  generations |-> next]]

MigratePlan(c, m) ==
  LET t == c.destination
      moving == RecordsOf(m, c.caller)
      rename(set) == {IF e.key = c.caller THEN [e EXCEPT !.key = t] ELSE e : e \in set}
      next == MigratedGenerations(m.generations, c.caller, t)
      same == Advance(m.generations, {t})
  IN IF t = c.caller
     THEN [ok |-> TRUE, script |-> <<Index(same)>>,
           memory |-> [m EXCEPT !.generations = same]]
     ELSE [ok |-> RecordsOf(m, t) = NoRecords,
           script |-> CommitMigration({e.id : e \in moving.entries},
                                      {e.id : e \in moving.raws},
                                      c.caller, t, m.generations, next),
           memory |-> [entries |-> rename(m.entries), raws |-> rename(m.raws),
                       generations |-> next]]

\* Mutant: a discard does not count in memory.
DiscardUncounted(c, m) ==
  LET next == Advance(m.generations, {c.caller})
  IN [ok |-> TRUE,
      script |-> CommitDeletion(disk, {Snapshot(e.id) : e \in c.removing.entries}
                                        \cup RawFiles({e.id : e \in c.removing.raws}),
                                m.generations, next),
      memory |-> [m EXCEPT !.entries = @ \ c.removing.entries,
                           !.raws = @ \ c.removing.raws]]

DiscardPlan(c, m) ==
  LET next == Advance(m.generations, {c.caller})
  IN [ok |-> TRUE,
      script |-> CommitDeletion(disk, {Snapshot(e.id) : e \in c.removing.entries}
                                        \cup RawFiles({e.id : e \in c.removing.raws}),
                                m.generations, next),
      memory |-> [entries |-> m.entries \ c.removing.entries,
                  raws |-> m.raws \ c.removing.raws, generations |-> next]]

Plan(c, m) ==
  CASE c.kind = "persistSnapshot" -> SnapshotPlan(c, m)
    [] c.kind = "persistRaw" -> RawPlan(c, m)
    [] c.kind = "migrate" -> MigratePlan(c, m)
    [] c.kind = "discard" -> DiscardPlan(c, m)

\* validateMutation and what follows it up to the first durable call.
Execute(c, m) ==
  LET plan == Plan(c, m)
      valid == /\ m.generations[c.caller] = c.generation
               /\ RecordsOf(m, c.caller) = c.records
               /\ plan.ok
  IN IF valid
     THEN run' = Writing(c, plan.script, plan.memory) /\ UNCHANGED client
     ELSE run' = Idle /\ client' = Answered(c, FALSE, m)

\* The command the drain takes, when it is free to take one.
Taken == IF run = Idle /\ draining /\ commands # <<>> THEN {Head(commands)} ELSE {}

TakeStartup ==
  \E c \in Taken :
    /\ c.kind = "startup"
    /\ startupQueued' = FALSE
    /\ commands' = Tail(commands)
    /\ run' = Importing(c)
    /\ UNCHANGED <<disk, status, memory, draining, client, countVars>>

\* A waiting start that finds the store still loading goes back, undrained.
TakeRead ==
  \E c \in Taken :
    /\ c.kind \in {"waitForStartup", "load"}
    /\ IF c.kind = "waitForStartup" /\ status = "loading"
       THEN draining' = FALSE /\ UNCHANGED <<commands, client>>
       ELSE /\ commands' = Tail(commands)
            /\ client' = Answered(c, status = "ready", memory)
            /\ UNCHANGED draining
    /\ UNCHANGED <<disk, status, startupQueued, memory, run, countVars>>

TakeReconcileCommit ==
  \E c \in Taken :
    /\ c.kind = "reconcileCommit"
    /\ commands' = Tail(commands)
    /\ client' = Answered(c, TRUE, memory)
    /\ UNCHANGED <<disk, status, startupQueued, memory, draining, run, countVars>>

TakeReconcile ==
  \E c \in Taken :
    /\ c.kind = "reconcile"
    /\ commands' = Tail(commands)
    /\ run' = Importing(c)
    /\ UNCHANGED <<disk, status, startupQueued, memory, draining, client, countVars>>

\* A mutation first replays a journal an earlier failure left behind.
TakeMutation ==
  \E c \in Taken :
    /\ c.kind \in Mutations
    /\ commands' = Tail(commands)
    /\ IF status # "ready" THEN run' = Idle /\ client' = Answered(c, FALSE, memory)
       ELSE IF JournalPending THEN run' = Importing(c) /\ UNCHANGED client
       ELSE Execute(c, memory)
    /\ outdated' = (outdated \/ (~JournalPending /\ memory.generations # disk.index))
    /\ UNCHANGED <<disk, status, startupQueued, memory, draining, calls, faults, crashes>>

DrainEnds ==
  /\ run = Idle /\ draining /\ commands = <<>>
  /\ draining' = FALSE
  /\ UNCHANGED <<disk, status, startupQueued, memory, commands, run, client, countVars>>

\* One durable call of the running command.
Step ==
  /\ run.script # <<>>
  /\ \E part \in Parts(Head(run.script)) :
       /\ disk' = Apply(disk, part)
       /\ run' = [run EXCEPT !.script = Left(@, part)]
  /\ UNCHANGED <<status, startupQueued, memory, commands, draining, client, countVars>>

Queued == {commands[n] : n \in DOMAIN commands}

\* The running command throws: a failed startup fails the store and the reads.
Throw ==
  /\ run' = Idle
  /\ IF run.command.kind = "startup"
     THEN /\ status' = "failed" /\ draining' = FALSE
          /\ client' = ReadsFailed(run.command)
          /\ commands' = Selected(commands, {c \in Queued : c.kind \in Retained})
     ELSE /\ client' = Answered(run.command, FALSE, memory)
          /\ UNCHANGED <<status, draining, commands>>
  /\ UNCHANGED <<startupQueued, memory>>

ImportFails ==
  /\ run.phase = "import" /\ run.script = <<>> /\ ~run.ok
  /\ Throw
  /\ UNCHANGED <<disk, countVars>>

ImportSucceeds ==
  /\ run.phase = "import" /\ run.script = <<>> /\ run.ok
  /\ memory' = run.memory
  /\ IF run.command.kind = "startup" THEN status' = "ready" ELSE UNCHANGED status
  /\ IF run.command.kind \in Mutations
     THEN Execute(run.command, run.memory)
     ELSE run' = Idle /\ client' = Answered(run.command, TRUE, run.memory)
  /\ UNCHANGED <<disk, startupQueued, commands, draining, countVars>>

WriteSucceeds ==
  /\ run.phase = "write" /\ run.script = <<>>
  /\ memory' = run.memory
  /\ run' = Idle
  /\ client' = Answered(run.command, TRUE, run.memory)
  /\ UNCHANGED <<disk, status, startupQueued, commands, draining, countVars>>

------------------------------------------------------------------------------
(* Failures.                                                                *)

\* A durable call throws before its effect, or in the directory
\* synchronization after it; an import can also fail in what it reads.
Fault(kind) ==
  /\ faults < MaxFaults
  /\ faults' = faults + 1
  /\ run.script = <<>> => run.phase = "import" /\ kind = "before"
  /\ run # Idle
  /\ IF kind = "after"
     THEN \E part \in Parts(Head(run.script)) : disk' = Apply(disk, part)
     ELSE UNCHANGED disk
  /\ Throw
  /\ UNCHANGED <<outdated, calls, crashes>>

Crash ==
  /\ crashes < MaxCrashes
  /\ crashes' = crashes + 1
  /\ status' = "loading" /\ startupQueued' = FALSE /\ memory' = Empty
  /\ commands' = <<>> /\ draining' = FALSE /\ run' = Idle
  /\ client' = [k \in Keys |-> Free("out")]
  /\ UNCHANGED <<disk, outdated, calls, faults>>

Take == \/ TakeStartup \/ TakeRead \/ TakeReconcileCommit \/ TakeReconcile
        \/ TakeMutation \/ DrainEnds
Work == Step \/ ImportFails \/ ImportSucceeds \/ WriteSucceeds

Next ==
  \/ \E k \in Documents : RetryStartup(k) \/ Load(k) \/ LoadReady(k)
  \/ \E k \in Keys : Mutate(k) \/ Reconcile(k) \/ ReconcileCommit(k)
  \/ Take \/ Work \/ Crash
  \/ \E kind \in FaultKinds : Fault(kind)

Spec == Init /\ [][Next]_vars

\* What Take and Work do to the FIFO and to the running command: fairness is
\* stated on these, so that ENABLED does not import the directory again.
TakesOne == Taken # {} /\ commands' = Tail(commands)
WorksOn ==
  /\ run # Idle
  /\ IF run.script = <<>> THEN run' = Idle
     ELSE \E part \in Parts(Head(run.script)) :
            run' = [run EXCEPT !.script = Left(@, part)]

\* The actor's task runs on, and the file access lane answers.
FairSpec == Spec /\ WF_commands(TakesOne) /\ WF_run(WorksOn)

------------------------------------------------------------------------------
(* Properties.                                                              *)

\* What the directory means, by its journals: a transaction that is being
\* prepared has not happened, a committed one has.
Believed(d) ==
  IF d.deletion # None /\ d.deletion.phase = "preparing"
  THEN Over(d.files, Only(d.tombs, d.deletion.entries \cap DOMAIN d.tombs))
  ELSE d.files

Owner(d, kind, id, key) ==
  LET j == d.migration IN
  IF j = None THEN key
  ELSE IF id \notin (IF kind = "snapshot" THEN j.snapshots ELSE j.raws) THEN key
  ELSE IF j.phase = "preparing" THEN j.source ELSE j.destination

DurableRecords(d) ==
  {[kind |-> f.kind, id |-> f.id, key |-> Owner(d, f.kind, f.id, Believed(d)[f])] :
     f \in {g \in DOMAIN Believed(d) : g.kind # "payload"}}

DurableGenerations(d) ==
  LET value(j) == IF j.phase = "preparing" THEN j.previous ELSE j.next IN
  IF d.deletion # None THEN value(d.deletion)
  ELSE IF d.migration # None THEN value(d.migration)
  ELSE d.index

Atomic == INSTANCE AtomicRecovery WITH
  records <- DurableRecords(disk), generations <- DurableGenerations(disk)

\* Types.
TypeOK ==
  /\ status \in {"loading", "ready", "failed"}
  /\ {startupQueued, draining} \subseteq BOOLEAN
  /\ disk.index \in Generations /\ memory.generations \in Generations
  /\ DOMAIN disk.files \cap DOMAIN disk.tombs = {}
  /\ disk.deletion = None \/ disk.migration = None
  /\ \A k \in Keys : client[k].state \in {"out", "idle", "waiting", "owes"}

\* Crashes, failing calls and replays never split a transaction: as the
\* journals read, records only appear, go together with a generation, or move
\* together with both generations, and no generation falls
\* (commitDeletion, migrate and their replays).  The exception: when the
\* directory synchronization after the last call of a command fails, no journal
\* is left to replay, and until the next import the actor plans its commands
\* over an index the directory has left behind.  (A step that leaves the
\* directory alone changes neither.)
StoreIsAtomic ==
  [][disk' # disk => outdated \/ Atomic!Next]_<<DurableRecords(disk),
                                                 DurableGenerations(disk)>>

\* A raw payload whose metadata was never written.
OrphanPayload(d) ==
  \E i \in Identifiers(d, "payload") : i \notin Identifiers(d, "metadata")

\* A journal of persistSnapshot that trims records of other documents only: the
\* generation of the persisted document changes, no artifact names its key.
TrimsOthers(d) ==
  /\ d.deletion # None
  /\ OneName(d, d.deletion)
  /\ ArtifactKeys(d, d.deletion) # ChangedKeys(d.deletion)

\* Whenever the process ends, the next import accepts what it finds, but for the
\* two states importPersistedState refuses (SessionRecoveryStore+DiskIO.swift).
RestartIsPossible ==
  \/ Import(disk).ok
  \/ outdated \/ OrphanPayload(disk) \/ TrimsOthers(disk)

\* An import that ends well holds what the journals promised when it began.
ImportIsFaithful ==
  run.phase = "import" /\ run.ok =>
    /\ run.memory.generations = DurableGenerations(disk)
    /\ DurableRecords(disk)
         = {[kind |-> "snapshot", id |-> e.id, key |-> e.key] : e \in run.memory.entries}
           \cup {[kind |-> "metadata", id |-> e.id, key |-> e.key] : e \in run.memory.raws}

Reconciling(k) ==
  \/ client[k].state = "owes"
  \/ client[k].state = "waiting" /\ client[k].intent.kind = "reconcile"

\* Once every failed mutation has been reconciled, the actor holds exactly the
\* records and generations of the directory.
MemoryAgrees ==
  (status = "ready" /\ run = Idle /\ \A k \in Keys : ~Reconciling(k)) =>
    memory = [entries |-> StoredEntries(disk), raws |-> StoredRaws(disk),
              generations |-> disk.index]

Held(k) ==
  Cardinality({n \in DOMAIN commands : commands[n].caller = k})
    + (IF run # Idle /\ run.command.caller = k THEN 1 ELSE 0)

\* A suspended call is held in exactly one place, and no answered call is held:
\* none is resumed twice, none is dropped (failQueuedReadCommands, drain).
EveryCallIsHeldOnce ==
  \A k \in Keys : Held(k) = IF client[k].state = "waiting" THEN 1 ELSE 0

\* Every call is answered, except mutations of a store whose startup failed:
\* these wait for a retry.
CallsAreAnswered ==
  \A k \in Keys :
    client[k].state = "waiting" ~>
      \/ client[k].state # "waiting"
      \/ status = "failed" /\ client[k].intent.kind \in Retained
=============================================================================
