--------------------------- MODULE AtomicRecovery ---------------------------
(* What the recovery store promises of its directory, whatever ends the     *)
(* process: a record appears, a set of records is discarded and a document  *)
(* is moved in one step each, and no generation ever falls.                 *)
EXTENDS Naturals

CONSTANT Keys

VARIABLES
  records,      \* records by kind, identifier and key of their document
  generations   \* mutation generation of every document

RecordsOf(key) == {r \in records : r.key = key}

\* A persisted record counts as soon as its file is there.
Add ==
  /\ \E r \in records' \ records :
       /\ \A s \in records : s.kind = r.kind => s.id # r.id
       /\ records' = records \cup {r}
  /\ UNCHANGED generations

Advances(keys) ==
  generations' = [k \in Keys |-> IF k \in keys THEN generations[k] + 1
                                               ELSE generations[k]]

\* The generation a persisted record, or a discard that found no file, ends with.
Count == UNCHANGED records /\ \E keys \in (SUBSET Keys) \ {{}} : Advances(keys)

\* Records go together, and with them the generation of each of their documents.
Discard ==
  /\ records' \subseteq records
  /\ records' # records
  /\ \E keys \in SUBSET Keys :
       /\ {r.key : r \in records \ records'} \subseteq keys
       /\ Advances(keys)

\* All records of a document move; both generations leave every earlier one behind.
Move(source, destination) ==
  /\ source # destination
  /\ RecordsOf(destination) = {}
  /\ records' = {IF r.key = source THEN [r EXCEPT !.key = destination] ELSE r
                   : r \in records}
  /\ generations'[source] > generations[source]
  /\ generations'[destination] > generations[source]
  /\ generations'[destination] > generations[destination]
  /\ \A k \in Keys \ {source, destination} : generations'[k] = generations[k]

Next == Add \/ Count \/ Discard \/ \E s, t \in Keys : Move(s, t)
=============================================================================
