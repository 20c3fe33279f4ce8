---------------------------- MODULE RecoveryDisk ----------------------------
(* The directory of the recovery store and the transactions written to it:  *)
(* deletion, migration, and the import that replays their journals          *)
(* (SessionRecoveryStore+DiskIO, +DeletionIO, +MigrationIO).  Every         *)
(* transaction is a script, the sequence of durable calls it makes, where   *)
(* a loop over artifacts is one entry for all of its calls, in any order; a *)
(* process may end, or a call fail, before and after every call.            *)
EXTENDS Naturals, Sequences, FiniteSets

CONSTANTS
  Keys,              \* stable keys of the document identities
  PerDocumentLimit,  \* decoded records kept for one document
  HistoryLimit,      \* decoded records kept beside the newest of each document
  None

ASSUME LimitsAssumption == PerDocumentLimit \in Nat \ {0} /\ HistoryLimit \in Nat

Generations == [Keys -> Nat]

\* Artifacts are named by kind and identifier; a decoded record is one
\* snapshot file, a raw record a payload and its metadata.  The displaced file
\* of a document has one identifier, the key it was stored for.
Snapshot(id) == [kind |-> "snapshot", id |-> id]
Payload(id)  == [kind |-> "payload", id |-> id]
Metadata(id) == [kind |-> "metadata", id |-> id]
RawFiles(ids) == {Payload(i) : i \in ids} \cup {Metadata(i) : i \in ids}

Artifacts == [kind : {"snapshot"}, id : Nat]
               \cup [kind : {"payload", "metadata"}, id : Keys]
Phases == {"preparing", "committed"}
DeletionJournals ==
  [entries : SUBSET Artifacts, phase : Phases, previous : Generations,
   next : Generations]
MigrationJournals ==
  [source : Keys, destination : Keys, snapshots : SUBSET Nat, raws : SUBSET Keys,
   phase : Phases, previous : Generations, next : Generations]

\* A journal is never taken for its absence.
ASSUME NoneAssumption == None \notin DeletionJournals /\ None \notin MigrationJournals

------------------------------------------------------------------------------
(* Durable calls.  files holds the artifacts under their own names, tombs   *)
(* those renamed to a tombstone; the value is the key an artifact names.    *)
(* A call on a set of files stands for one call on each of them.            *)

Write(files, key)   == [call |-> "write", files |-> files, key |-> key]
Bury(files)         == [call |-> "bury", files |-> files]
Unbury(files)       == [call |-> "unbury", files |-> files]
Unlink(files)       == [call |-> "unlink", files |-> files]
Index(generations)  == [call |-> "index", files |-> {}, value |-> generations]
Deletion(journal)   == [call |-> "deletion", files |-> {}, value |-> journal]
Migration(journal)  == [call |-> "migration", files |-> {}, value |-> journal]

\* A loop over no file makes no call.
Each(c) == IF c.files = {} THEN <<>> ELSE <<c>>

\* One call of the loop c, and what is left of a script after it.
Parts(c) == IF c.files = {} THEN {c} ELSE {[c EXCEPT !.files = {f}] : f \in c.files}
Left(script, part) ==
  Each([Head(script) EXCEPT !.files = @ \ part.files]) \o Tail(script)

Named(files, key) == [f \in files |-> key]
Only(f, set) == [x \in set |-> f[x]]
Over(f, g) == [x \in DOMAIN f \cup DOMAIN g |-> IF x \in DOMAIN f THEN f[x] ELSE g[x]]

Apply(d, c) ==
  LET staying(f) == Only(f, DOMAIN f \ c.files) IN
  CASE c.call = "write"  -> [d EXCEPT !.files = Over(Named(c.files, c.key), @)]
    [] c.call = "bury"   -> [d EXCEPT !.files = staying(@),
                                      !.tombs = Over(Only(d.files, c.files), @)]
    [] c.call = "unbury" -> [d EXCEPT !.tombs = staying(@),
                                      !.files = Over(Only(d.tombs, c.files), @)]
    [] c.call = "unlink" -> [d EXCEPT !.tombs = staying(@)]
    [] c.call = "index"  -> [d EXCEPT !.index = c.value]
    [] c.call = "deletion"  -> [d EXCEPT !.deletion = c.value]
    [] c.call = "migration" -> [d EXCEPT !.migration = c.value]

\* The directory before a script and after each of its entries.
Course(d, script) ==
  LET after[n \in 0..Len(script)] ==
        IF n = 0 THEN d ELSE Apply(after[n - 1], script[n])
  IN after
ApplyAll(d, script) == Course(d, script)[Len(script)]

------------------------------------------------------------------------------
(* Transactions.                                                            *)

Advance(generations, keys) ==
  [k \in Keys |-> IF k \in keys THEN generations[k] + 1 ELSE generations[k]]

\* Mutant: the marker of the committed deletion is written before the index.
DeletionMarkedFirst(d, artifacts, previous, next) ==
  LET existing == artifacts \cap DOMAIN d.files
      journal(phase) == [entries |-> existing, phase |-> phase,
                         previous |-> previous, next |-> next]
  IN IF existing = {} THEN <<Index(next)>>
     ELSE <<Deletion(journal("preparing")), Bury(existing),
            Deletion(journal("committed")), Unlink(existing), Index(next), Deletion(None)>>

CommitDeletion(d, artifacts, previous, next) ==
  LET existing == artifacts \cap DOMAIN d.files
      journal(phase) == [entries |-> existing, phase |-> phase,
                         previous |-> previous, next |-> next]
  IN IF existing = {} THEN <<Index(next)>>
     ELSE <<Deletion(journal("preparing")), Bury(existing), Index(next),
            Deletion(journal("committed")), Unlink(existing), Deletion(None)>>

\* Mutant: the destination only counts its own generation.
OwnGenerations(generations, source, destination) ==
  [generations EXCEPT ![source] = @ + 1, ![destination] = @ + 1]

\* A destination may be empty and have the higher generation.
MigratedGenerations(generations, source, destination) ==
  LET base == IF generations[source] > generations[destination]
              THEN generations[source] ELSE generations[destination]
  IN [generations EXCEPT ![source] = @ + 1, ![destination] = base + 1]

Rewrite(snapshots, raws, key) ==
  Each(Write({Snapshot(i) : i \in snapshots}, key))
    \o Each(Write({Metadata(i) : i \in raws}, key))

CommitMigration(snapshots, raws, source, destination, previous, next) ==
  LET journal(phase) == [source |-> source, destination |-> destination,
                         snapshots |-> snapshots, raws |-> raws, phase |-> phase,
                         previous |-> previous, next |-> next]
  IN <<Migration(journal("preparing"))>> \o Rewrite(snapshots, raws, destination)
     \o <<Migration(journal("committed")), Index(next), Migration(None)>>

------------------------------------------------------------------------------
(* Import.  A replay is the calls it makes, whether it ends without          *)
(* malformedData, and the generations it leaves.                             *)

NoReplay(generations) ==
  [script |-> <<>>, ok |-> TRUE, generations |-> generations]
Malformed(generations) ==
  [script |-> <<>>, ok |-> FALSE, generations |-> generations]

ChangedKeys(j) == {k \in Keys : j.previous[k] # j.next[k]}

\* A journal may only be replayed from the index it started or ended with.
IndexFits(j, index) == index \in {j.previous, j.next}

\* The keys its artifacts name, each under exactly one of its two names.
ArtifactKeys(d, j) ==
  {Over(d.files, d.tombs)[f] : f \in {g \in j.entries : g.kind # "payload"}}
OneName(d, j) ==
  \A f \in {g \in j.entries : g.kind # "payload"} :
    (f \in DOMAIN d.files) # (f \in DOMAIN d.tombs)
BindsArtifacts(d, j) == OneName(d, j) /\ ArtifactKeys(d, j) = ChangedKeys(j)

DeletionSchema(j) ==
  /\ j.entries # {}
  /\ \A f \in j.entries : /\ f.kind = "payload" => Metadata(f.id) \in j.entries
                          /\ f.kind = "metadata" => Payload(f.id) \in j.entries
  /\ ChangedKeys(j) # {}
  /\ \A k \in ChangedKeys(j) : j.next[k] = j.previous[k] + 1

\* Mutant: a deletion rolled back keeps the generations of the index.
RollBackFilesOnly(d, j) ==
  IF BindsArtifacts(d, j)
  THEN [script |-> Each(Unbury(j.entries \cap DOMAIN d.tombs)) \o <<Deletion(None)>>,
        ok |-> TRUE, generations |-> d.index]
  ELSE Malformed(d.index)

RollBack(d, j) ==
  IF /\ BindsArtifacts(d, j)
     /\ \A f \in j.entries : (f \in DOMAIN d.files) # (f \in DOMAIN d.tombs)
  THEN [script |-> Each(Unbury(j.entries \cap DOMAIN d.tombs))
                     \o <<Index(j.previous), Deletion(None)>>,
        ok |-> TRUE, generations |-> j.previous]
  ELSE Malformed(d.index)

RollForward(d, j) ==
  IF /\ d.index = j.previous => BindsArtifacts(d, j)
     /\ j.entries \cap DOMAIN d.files = {}
  THEN [script |-> Each(Unlink(j.entries \cap DOMAIN d.tombs))
                     \o <<Index(j.next), Deletion(None)>>,
        ok |-> TRUE, generations |-> j.next]
  ELSE Malformed(d.index)

ReplayDeletion(d) ==
  LET j == d.deletion IN
  IF j = None THEN NoReplay(d.index)
  ELSE IF ~DeletionSchema(j) \/ ~IndexFits(j, d.index) THEN Malformed(d.index)
  ELSE IF j.phase = "preparing" THEN RollBack(d, j) ELSE RollForward(d, j)

\* The records the files under their own names describe.
Identifiers(d, kind) == {f.id : f \in {g \in DOMAIN d.files : g.kind = kind}}
StoredEntries(d) ==
  {[id |-> i, key |-> d.files[Snapshot(i)]] : i \in Identifiers(d, "snapshot")}
StoredRaws(d) ==
  {[id |-> i, key |-> d.files[Metadata(i)]] : i \in Identifiers(d, "metadata")}
PayloadsAreDescribed(d) == Identifiers(d, "payload") = Identifiers(d, "metadata")

ReplayMigration(d) ==
  LET j == d.migration
      permitted == IF j.phase = "preparing" THEN {j.source, j.destination}
                                            ELSE {j.destination}
      key == IF j.phase = "preparing" THEN j.source ELSE j.destination
      target == IF j.phase = "preparing" THEN j.previous ELSE j.next
  IN IF j = None THEN NoReplay(d.index)
     ELSE IF /\ j.next = MigratedGenerations(j.previous, j.source, j.destination)
             /\ IF j.phase = "preparing" THEN d.index = j.previous
                                         ELSE IndexFits(j, d.index)
             /\ j.snapshots \subseteq Identifiers(d, "snapshot")
             /\ j.raws \subseteq Identifiers(d, "metadata")
             /\ \A i \in j.snapshots : d.files[Snapshot(i)] \in permitted
             /\ \A i \in j.raws : d.files[Metadata(i)] \in permitted
     THEN [script |-> Rewrite(j.snapshots, j.raws, key)
                        \o <<Index(target), Migration(None)>>,
           ok |-> TRUE, generations |-> target]
     ELSE Malformed(d.index)

\* importPersistedState: deletion, then the payload scan, then migration.
Import(d) ==
  LET deletion == ReplayDeletion(d)
      restored == ApplyAll(d, deletion.script)
      migration == ReplayMigration(restored)
      script == deletion.script \o migration.script
      imported == ApplyAll(d, script)
  IN IF ~deletion.ok \/ ~PayloadsAreDescribed(restored) \/ ~migration.ok
     THEN [script |-> deletion.script, ok |-> FALSE, memory |-> None]
     ELSE [script |-> script, ok |-> TRUE,
           memory |-> [entries |-> StoredEntries(imported),
                       raws |-> StoredRaws(imported),
                       generations |-> migration.generations]]

------------------------------------------------------------------------------
(* Trimming.  Records are ordered by creation, which their identifiers      *)
(* follow, and have the size of one unit.                                   *)

Newer(e, set) == {f \in set : f.id > e.id}

Trim(candidates) ==
  LET kept == {e \in candidates :
                 Cardinality({f \in Newer(e, candidates) : f.key = e.key})
                   < PerDocumentLimit}
      pinned == {e \in kept : \A f \in Newer(e, kept) : f.key # e.key}
      history == kept \ pinned
  IN pinned \cup {e \in history : Cardinality(Newer(e, history)) < HistoryLimit}
=============================================================================
