-------------------------- MODULE RecoveryInvariant --------------------------
(* What holds between any two durable calls of the recovery store: the shape   *)
(* of its directory, what the script that runs may still do, and how the       *)
(* memory of the actor relates to the directory.                               *)
EXTENDS RecoveryStore

------------------------------------------------------------------------------
(* The directory.                                                             *)

\* Numbers below some number; a new identifier is then found.
Bounded(ids) == \E n \in Nat : \A i \in ids : i < n
NumbersOf(files) == {f.id : f \in {g \in files : g.kind = "snapshot"}}

IsFunction(f) == f = [x \in DOMAIN f |-> f[x]]
IsDirectory(f) ==
  /\ IsFunction(f)
  /\ DOMAIN f \subseteq Artifacts
  /\ \A x \in DOMAIN f : f[x] \in Keys
  /\ Bounded(NumbersOf(DOMAIN f))

NoJournal(d) == d.deletion = None /\ d.migration = None

\* One journal at a time, and a tombstone only of an artifact its journal names.
IsDisk(d) ==
  /\ d = [files |-> d.files, tombs |-> d.tombs, index |-> d.index,
          deletion |-> d.deletion, migration |-> d.migration]
  /\ IsDirectory(d.files) /\ IsDirectory(d.tombs)
  /\ d.index \in Generations
  /\ d.deletion \in DeletionJournals \cup {None}
  /\ d.migration \in MigrationJournals \cup {None}
  /\ d.deletion = None \/ d.migration = None
  /\ DOMAIN d.files \cap DOMAIN d.tombs = {}
  /\ \A f \in DOMAIN d.tombs : d.deletion # None /\ f \in d.deletion.entries

\* A journal describes the directory it is in, so that an import can replay it.
DeletionFits(d) ==
  LET j == d.deletion IN
  /\ DeletionSchema(j)
  /\ IF j.phase = "preparing"
     THEN /\ j.entries \subseteq DOMAIN d.files \cup DOMAIN d.tombs
          /\ IndexFits(j, d.index)
     ELSE /\ j.entries \cap DOMAIN d.files = {}
          /\ d.index = j.next

MigrationFits(d) ==
  LET j == d.migration
      permitted == IF j.phase = "preparing" THEN {j.source, j.destination}
                                            ELSE {j.destination}
  IN /\ j.next = MigratedGenerations(j.previous, j.source, j.destination)
     /\ IF j.phase = "preparing" THEN d.index = j.previous ELSE IndexFits(j, d.index)
     /\ \A i \in j.snapshots :
          Snapshot(i) \in DOMAIN d.files /\ d.files[Snapshot(i)] \in permitted
     /\ \A i \in j.raws :
          Metadata(i) \in DOMAIN d.files /\ d.files[Metadata(i)] \in permitted

IsSound(d) ==
  /\ \A i \in Keys :
       Metadata(i) \in DOMAIN Believed(d) => Payload(i) \in DOMAIN Believed(d)
  /\ d.deletion # None => DeletionFits(d)
  /\ d.migration # None => MigrationFits(d)

------------------------------------------------------------------------------
(* What a step of the abstract store may be, said of two values.              *)

\* A new record of the document key; its displaced file is named after it.
Adds(old, new, key) ==
  \E r \in new :
    /\ new = old \cup {r} /\ r \notin old
    /\ r.key = key /\ (r.kind = "metadata" => r.id = key)
    /\ \A s \in old : s.kind = r.kind => s.id # r.id

Discards(old, new, before, after) ==
  \E keys \in SUBSET Keys :
    /\ keys # {}
    /\ new \subseteq old
    /\ {r.key : r \in old \ new} \subseteq keys
    /\ after = Advance(before, keys)

Moves(old, new, before, after) ==
  \E source, destination \in Keys :
    /\ source # destination
    /\ \A r \in old : r.key # destination
    /\ new = {IF r.key = source THEN [r EXCEPT !.key = destination] ELSE r : r \in old}
    /\ after = MigratedGenerations(before, source, destination)

------------------------------------------------------------------------------
(* Scripts.  w says what a script may do: a replay leaves records and          *)
(* generations as they are; a write of the document w.key adds records of it    *)
(* and replaces the generations w.before by w.after, once.  A script planned    *)
(* over a memory that cannot be trusted only keeps the directory in shape.      *)

Replay(fresh, records, generations) ==
  [kind |-> "replay", fresh |-> fresh, records |-> records, generations |-> generations]
Transaction(fresh, trusted, key, before, after) ==
  [kind |-> "write", fresh |-> fresh, trusted |-> trusted, key |-> key,
   before |-> before, after |-> after]

IsState(d, w) ==
  /\ IsDisk(d)
  /\ w.fresh => IsSound(d)
  /\ w.kind = "replay" => /\ DurableRecords(d) = w.records
                          /\ DurableGenerations(d) = w.generations

IsStep(d, e, w) ==
  w.kind = "write" /\ w.trusted =>
    \/ /\ DurableRecords(e) = DurableRecords(d)
       /\ DurableGenerations(e) = DurableGenerations(d)
    \/ /\ Adds(DurableRecords(d), DurableRecords(e), w.key)
       /\ DurableGenerations(e) = DurableGenerations(d)
    \/ /\ DurableGenerations(d) = w.before /\ DurableGenerations(e) = w.after
       /\ \/ Discards(DurableRecords(d), DurableRecords(e), w.before, w.after)
          \/ Moves(DurableRecords(d), DurableRecords(e), w.before, w.after)

LoopCalls ==
  [call : {"write"}, files : SUBSET Artifacts, key : Keys]
    \cup [call : {"bury", "unbury", "unlink"}, files : SUBSET Artifacts]
SingleCalls ==
  [call : {"index"}, files : {{}}, value : Generations]
    \cup [call : {"deletion"}, files : {{}}, value : DeletionJournals \cup {None}]
    \cup [call : {"migration"}, files : {{}}, value : MigrationJournals \cup {None}]
Calls == LoopCalls \cup SingleCalls

\* The loop c after the calls on done.
Partly(d, c, done) == Apply(d, [c EXCEPT !.files = done])

\* Wherever the loop c is interrupted, the directory is in order.
Allowed(d, c, w) ==
  /\ c \in Calls
  /\ IsState(d, w)
  /\ c.call = "bury" => c.files \subseteq DOMAIN d.files
  /\ c.call = "unbury" => c.files \subseteq DOMAIN d.tombs
  /\ IF c.files = {} THEN IsStep(d, Apply(d, c), w)
     ELSE \A done \in SUBSET c.files : done # c.files =>
            /\ IsState(Partly(d, c, done), w)
            /\ \A f \in c.files \ done :
                 IsStep(Partly(d, c, done), Partly(d, c, done \cup {f}), w)

Follows(d, script, w) ==
  /\ \A n \in 1..Len(script) : Allowed(Course(d, script)[n - 1], script[n], w)
  /\ IsState(ApplyAll(d, script), w)

------------------------------------------------------------------------------
(* Memory and directory.                                                      *)

IsMemory(m) ==
  /\ m = [entries |-> m.entries, raws |-> m.raws, generations |-> m.generations]
  /\ m.entries \subseteq [id : Nat, key : Keys] /\ Bounded({e.id : e \in m.entries})
  /\ m.raws \subseteq [id : Keys, key : Keys]
  /\ m.generations \in Generations

Recorded(m) ==
  {[kind |-> "snapshot", id |-> e.id, key |-> e.key] : e \in m.entries}
    \cup {[kind |-> "metadata", id |-> e.id, key |-> e.key] : e \in m.raws}

\* The directory holds what the memory holds, and besides it only what persists of
\* the documents keys wrote before they failed.
Near(m, records, keys) ==
  /\ Recorded(m) \subseteq records
  /\ \A r \in records \ Recorded(m) :
       r.key \in keys /\ (r.kind = "metadata" => r.id = r.key)

\* What a transaction leaves when all of its calls succeed.
Lands(d, m, keys) ==
  /\ NoJournal(d)
  /\ d.index = m.generations
  /\ Near(m, DurableRecords(d), keys)

------------------------------------------------------------------------------
(* The invariant.                                                             *)

\* The documents that have yet to reconcile a mutation.
Owes(clients) ==
  {k \in Keys : \/ clients[k].state = "owes"
                \/ clients[k].state = "waiting" /\ clients[k].intent.kind = "reconcile"}
Writers(r) == IF r.phase = "write" THEN {r.command.caller} ELSE {}

\* A script that runs in an import leaves the records and generations as they
\* are, and one that will succeed has them already.
ReplayIsSafe(d, r, fresh) ==
  r.phase = "import" =>
    /\ Follows(d, r.script, Replay(fresh, DurableRecords(d), DurableGenerations(d)))
    /\ r.ok => /\ IsMemory(r.memory)
               /\ DurableRecords(d) = Recorded(r.memory)
               /\ DurableGenerations(d) = r.memory.generations
               /\ NoJournal(ApplyAll(d, r.script))

\* The memory can be relied on unless it was left behind and somebody has yet to
\* reconcile.
Trusted(fresh, owing) == fresh \/ owing = {}

\* The script of a mutation is a transaction of its document, which ends with the
\* memory it was planned to.
WriteIsSafe(d, r, m, fresh, owing) ==
  r.phase = "write" =>
    /\ r.command.kind \in Mutations
    /\ IsMemory(r.memory) /\ r.memory.generations # m.generations
    /\ Follows(d, r.script, Transaction(fresh, Trusted(fresh, owing), r.command.caller,
                                        m.generations, r.memory.generations))
    /\ Trusted(fresh, owing) => Lands(ApplyAll(d, r.script), r.memory, owing)

\* While the generations of memory and directory agree, so do their records, but
\* for what failed writes have left.
MemoryIsNear(d, r, m, st, fresh, owing) ==
  Trusted(fresh, owing) /\ st = "ready" /\ m.generations = DurableGenerations(d) =>
    Near(m, DurableRecords(d), owing \cup Writers(r))

\* When nobody has to reconcile anything, no journal is left.
SettledIsClean(d, r, m, st, owing) ==
  st = "ready" /\ owing = {} /\ r.phase # "write" =>
    NoJournal(d) /\ d.index = m.generations /\ r.script = <<>>

\* A discard removes records of its own document.
RemovesOwn(c) ==
  c.kind = "discard" => /\ c.removing.entries \subseteq c.records.entries
                        /\ c.removing.raws \subseteq c.records.raws

IsRun(r) ==
  /\ r = [command |-> r.command, phase |-> r.phase, script |-> r.script,
          ok |-> r.ok, memory |-> r.memory]
  /\ r.phase \in {"idle", "import", "write"} /\ r.ok \in BOOLEAN
  /\ r.script \in Seq(Calls)
  /\ r.phase = "idle" => r = Idle

IsSafe(d, r, m, st, fresh, owing) ==
  /\ IsRun(r)
  /\ IsDisk(d) /\ (fresh => IsSound(d))
  /\ IsMemory(m)
  /\ ReplayIsSafe(d, r, fresh)
  /\ WriteIsSafe(d, r, m, fresh, owing)
  /\ MemoryIsNear(d, r, m, st, fresh, owing)
  /\ SettledIsClean(d, r, m, st, owing)
  /\ r # Idle /\ r.command.kind \in Mutations => st = "ready"

Asked(clients) ==
  \A k \in Keys :
    /\ clients[k].state \in {"out", "idle", "waiting", "owes"}
    /\ clients[k].state = "waiting" => RemovesOwn(clients[k].intent)

StoreInvariant ==
  /\ status \in {"loading", "ready", "failed"}
  /\ {startupQueued, draining, outdated} \subseteq BOOLEAN
  /\ IsSafe(disk, run, memory, status, ~outdated, Owes(client))
  /\ Asked(client)
=============================================================================
