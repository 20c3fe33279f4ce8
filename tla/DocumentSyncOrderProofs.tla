----------------------- MODULE DocumentSyncOrderProofs -----------------------
(***************************************************************************)
(* The order in which DocumentSync saves, merges and stores displaced      *)
(* bytes, what it owes when a close is allowed, and what it knows of the   *)
(* recovery store.  A save that is under way is alone: nothing is merged,  *)
(* uncertain or displaced beside it, and its commit is the only one.  As   *)
(* in DocumentSyncProofs there is one lemma per operator and handler, then *)
(* one per event, for each of the three invariants: Orderly (a save is     *)
(* alone), Accounted (the answers that a close waits for are in hand) and  *)
(* Told (the state is in step with the recovery store).                    *)
(***************************************************************************)
EXTENDS DocumentSyncProofs

-----------------------------------------------------------------------------
(* A save that is under way is alone.                                      *)

\* The fields of the state.
Fields ==
  {"lifecycle", "source", "baseline", "local", "external", "merge",
   "signalPending", "access", "recovery", "barrier", "cleanup", "uncertain",
   "pendingConflict", "pendingDisplaced", "unresolvedDisplaced", "issue",
   "active", "effects", "displaced"}

\* A save is being waited for, prepared or written.
Saving(s) == s.local \notin {Clean, Dirty(0)}

\* The recovery store is asked to keep the displaced bytes of a commit.
StoresDisplaced(s) ==
  /\ s.recovery.kind = "persisting"
  /\ s.recovery.attempt.purpose = "persistDisplacedPreimage"

\* The parts of the state that the order of saves depends on.
Formed(s) ==
  /\ DOMAIN s = Fields
  /\ DOMAIN s.active = Operations
  /\ \/ s.local = Clean
     \/ s.local.kind = "dirty" /\ s.local = Dirty(s.local.token)
     \/ s.local.kind \in {"preparing", "writing"} /\ s.local.token # 0
  /\ s.cleanup # None =>
       /\ "purpose" \in DOMAIN s.cleanup
       /\ s.cleanup.purpose # "persistDisplacedPreimage"

\* No save beside a merge, a commit whose outcome is unknown, or displaced
\* bytes that are to be stored.
SavesAlone(s) ==
  Saving(s) =>
    /\ s.merge = None /\ s.uncertain = None /\ s.pendingDisplaced = None
    /\ ~StoresDisplaced(s)

\* A commit that runs is the only one, and the one the local state writes.
WritesCommit(s) ==
  \A e \in CommitsOf(s) :
    /\ s.local.kind = "writing" /\ s.local.token = e.token
    /\ s.active["saveCommit"] = e.token /\ s.active["savePreparation"] = 0
    /\ \A f \in CommitsOf(s) : f = e

Orderly(s) == Formed(s) /\ SavesAlone(s) /\ WritesCommit(s)

\* What no operator changes that is not about saves.
Alike(s, r) ==
  /\ DOMAIN r = DOMAIN s /\ DOMAIN r.active = DOMAIN s.active
  /\ r.local = s.local /\ r.cleanup = s.cleanup
  /\ r.merge \in {s.merge, None} /\ r.uncertain = s.uncertain
  /\ r.pendingDisplaced \in {s.pendingDisplaced, None}
  /\ r.recovery = s.recovery
  /\ r.active["saveCommit"] = s.active["saveCommit"]
  /\ r.active["savePreparation"] \in {s.active["savePreparation"], 0}
  /\ CommitsOf(r) = CommitsOf(s)

\* The same, and the same lifecycle.
Resembles(s, r) == Alike(s, r) /\ r.lifecycle = s.lifecycle

\* The order of saves depends on nothing but what Alike relates.
LEMMA AlikeIsOrderly ==
  ASSUME NEW s, NEW r, Alike(s, r)
  PROVE  /\ Orderly(s) => Orderly(r)
         /\ Formed(s) => Formed(r)
BY DEF Alike, Orderly, Formed, SavesAlone, WritesCommit, Saving,
       StoresDisplaced

\* Two changes that leave the saves alone leave them alone together.
LEMMA AlikeOn ==
  ASSUME NEW s, NEW t, NEW r, Resembles(s, t), Resembles(t, r)
  PROVE  Resembles(s, r)
BY DEF Alike, Resembles

\* Without a commit and a save there is no more to it.
LEMMA SettledIsOrderly ==
  ASSUME NEW s, Formed(s), ~Saving(s), CommitsOf(s) = {}
  PROVE  Orderly(s)
BY DEF Orderly, SavesAlone, WritesCommit

\* Only a local state that is writing has a commit.
LEMMA NotWritingNoCommit ==
  ASSUME NEW s, Orderly(s), s.local.kind # "writing"
  PROVE  CommitsOf(s) = {}
BY DEF Orderly, WritesCommit

\* Without a save there is no commit.
LEMMA NotSavingNoCommit ==
  ASSUME NEW s, Orderly(s), ~Saving(s)
  PROVE  CommitsOf(s) = {} /\ s.local.kind # "writing"
BY DEF Orderly, WritesCommit, Saving, Clean, Dirty

\* Taking back the token of anything but a commit.
LEMMA DeactivateAlike ==
  ASSUME NEW s, Formed(s), NEW op \in Operations \ {"saveCommit"}
  PROVE  Resembles(s, Deactivate(s, op))
BY DEF Formed, Fields, Deactivate, Alike, Resembles, CommitsOf

\* Canceling an effect: a commit is not canceled.
LEMMA CancelAlike ==
  ASSUME NEW s, Formed(s), NEW op, NEW token
  PROVE  Resembles(s, Cancel(s, op, token))
BY DEF Formed, Fields, Cancel, Alike, Resembles, CommitsOf, Deadlines

\* Canceling the deadlines.
LEMMA CancelAllDeadlinesAlike ==
  ASSUME NEW s, Formed(s)
  PROVE  Resembles(s, CancelAllDeadlines(s))
BY DEF Formed, Fields, CancelAllDeadlines, Alike, Resembles, CommitsOf, Deadlines

\* Asking for an effect other than a commit.
LEMMA EmitAlike ==
  ASSUME NEW s, Formed(s), NEW e, e.kind # "commit"
  PROVE  Resembles(s, Emit(s, e))
BY DEF Formed, Fields, Emit, Alike, Resembles, CommitsOf

\* Starting an effect that is not part of a save.
LEMMA StartAlike ==
  ASSUME NEW s, Formed(s), NEW kind, kind # "commit", NEW request,
         NEW op \in Operations \ {"saveCommit", "savePreparation"}
  PROVE  Resembles(s, Start(s, kind, op, request))
<1> DEFINE t == FreshToken(s, op)
           q == [s EXCEPT !.active[op] = t]
           e == Effect(kind, op, t, request)
<1> HIDE DEF t
<1>1. Formed(q) /\ Resembles(s, q)
  BY DEF Formed, Fields, Alike, Resembles, CommitsOf, Operations
<1>2. e.kind # "commit"
  BY DEF Effect
<1>3. Start(s, kind, op, request) = Emit(q, e)
  BY DEF Start, t
<1> HIDE DEF q, e
<1> QED BY <1>1, <1>2, <1>3, EmitAlike, AlikeOn

\* Starting the file monitor.
LEMMA StartMonitorAlike ==
  ASSUME NEW s, Formed(s)
  PROVE  Resembles(s, StartMonitor(s))
BY DEF Formed, Fields, StartMonitor, Alike, Resembles, CommitsOf, Operations

\* A delay before a save leaves the close, the cleanup and the merge alone.
LEMMA ScheduleKeeps ==
  ASSUME NEW s, Formed(s)
  PROVE  /\ ScheduleLocalSave(s).lifecycle = s.lifecycle
         /\ ScheduleLocalSave(s).cleanup = s.cleanup
         /\ ScheduleLocalSave(s).merge = s.merge
<1> DEFINE t == FreshToken(s, "savePreparation")
           p == [s EXCEPT !.active["savePreparation"] = t]
           e == Effect("localSaveDeadline", "savePreparation", t, None)
           r == Start(s, "localSaveDeadline", "savePreparation", None)
           q == [r EXCEPT !.local = Dirty(r.active["savePreparation"])]
<1> HIDE DEF t
<1>1. /\ DOMAIN p = Fields /\ p.lifecycle = s.lifecycle
      /\ p.cleanup = s.cleanup /\ p.merge = s.merge
  BY DEF Formed, Fields
<1>2. r = Emit(p, e)
  BY DEF Start, t
<1> HIDE DEF p, e
<1>3. /\ DOMAIN r = Fields /\ r.lifecycle = s.lifecycle
      /\ r.cleanup = s.cleanup /\ r.merge = s.merge
  BY <1>1, <1>2 DEF Emit, Fields
<1> HIDE DEF r
<1>4. /\ q.lifecycle = s.lifecycle
      /\ q.cleanup = s.cleanup /\ q.merge = s.merge
  BY <1>3 DEF Fields
<1> QED BY <1>4 DEF ScheduleLocalSave, q, r

\* The delay before a save begins beside nothing it must not be beside.
LEMMA ScheduleLocalSaveOrderly ==
  ASSUME NEW s, Orderly(s), s.merge = None
  PROVE  Orderly(ScheduleLocalSave(s))
<1> DEFINE t == FreshToken(s, "savePreparation")
           p == [s EXCEPT !.active["savePreparation"] = t]
           e == Effect("localSaveDeadline", "savePreparation", t, None)
           r == Start(s, "localSaveDeadline", "savePreparation", None)
           q == [r EXCEPT !.local = Dirty(r.active["savePreparation"])]
<1>1. CASE CanScheduleLocalSave(s) /\ s.local = Dirty(0)
  <2> HIDE DEF t
  <2>1. /\ DOMAIN p = Fields /\ DOMAIN p.active = Operations
        /\ p.local = s.local /\ p.cleanup = s.cleanup /\ p.merge = s.merge
        /\ p.uncertain = s.uncertain /\ p.recovery = s.recovery
        /\ p.pendingDisplaced = s.pendingDisplaced
        /\ p.lifecycle = s.lifecycle /\ p.effects = s.effects
    BY DEF Orderly, Formed, Fields
  <2>2. r = Emit(p, e) /\ e.kind # "commit"
    BY DEF Start, Effect, t
  <2> HIDE DEF p, e
  <2>3. Formed(p)
    BY <2>1 DEF Orderly, Formed
  <2>4. Resembles(p, r) /\ r.merge = p.merge
        /\ r.pendingDisplaced = p.pendingDisplaced
    <3>1. Resembles(p, r)
      BY <2>2, <2>3, EmitAlike
    <3>2. r.merge = p.merge /\ r.pendingDisplaced = p.pendingDisplaced
      BY <2>1, <2>2 DEF Emit, Fields
    <3> QED BY <3>1, <3>2
  <2> HIDE DEF r
  <2>5. DOMAIN r = Fields
    BY <2>1, <2>4 DEF Alike, Resembles
  <2>6. /\ q.local = Dirty(r.active["savePreparation"])
        /\ DOMAIN q = Fields /\ q.active = r.active
        /\ q.cleanup = r.cleanup /\ q.merge = r.merge
        /\ q.uncertain = r.uncertain /\ q.recovery = r.recovery
        /\ q.pendingDisplaced = r.pendingDisplaced
        /\ q.lifecycle = r.lifecycle /\ q.effects = r.effects
    BY <2>5 DEF Fields
  <2> HIDE DEF q
  <2>7. CommitsOf(s) = {}
    BY <1>1, NotWritingNoCommit DEF Dirty
  <2>8. CommitsOf(q) = {}
    BY <2>1, <2>4, <2>6, <2>7 DEF CommitsOf, Alike, Resembles
  <2>9. Formed(q)
    BY <2>1, <2>3, <2>4, <2>6 DEF Formed, Alike, Resembles, Dirty
  <2>10. q.merge = None /\ q.uncertain = None /\ q.pendingDisplaced = None
         /\ ~StoresDisplaced(q)
    BY <1>1, <2>1, <2>4, <2>6 DEF Alike, Resembles, CanScheduleLocalSave,
       NothingUndecided, StoresDisplaced
  <2>11. Orderly(q)
    BY <2>8, <2>9, <2>10 DEF Orderly, SavesAlone, WritesCommit
  <2>12. ScheduleLocalSave(s) = q
    BY <1>1 DEF ScheduleLocalSave, q, r
  <2> QED BY <2>11, <2>12
<1>2. CASE ~(CanScheduleLocalSave(s) /\ s.local = Dirty(0))
  BY <1>2 DEF ScheduleLocalSave
<1> QED BY <1>1, <1>2

\* Scheduling a read of the file.
LEMMA ScheduleExternalReadAlike ==
  ASSUME NEW s, Formed(s)
  PROVE  /\ Resembles(s, ScheduleExternalRead(s))
         /\ ScheduleExternalRead(s).merge = s.merge
<1> DEFINE r == Start(s, "externalReadDeadline", "externalRead", None)
           q == [r EXCEPT !.external = [kind |-> "debouncing",
                                   token |-> r.active["externalRead"],
                                   expected |-> s.baseline],
                     !.signalPending = FALSE]
           u == [s EXCEPT !.signalPending = TRUE]
<1>1. Resembles(s, r)
  BY StartAlike DEF Operations
<1>2. Formed(r)
  BY <1>1, AlikeIsOrderly DEF Resembles
<1>3. Resembles(s, u) /\ u.merge = s.merge
  BY DEF Formed, Fields, Alike, Resembles, CommitsOf
<1>4. CASE ScheduleExternalRead(s) = q /\ s.merge = None
  <2> HIDE DEF r
  <2>1. Resembles(r, q)
    BY <1>2 DEF Formed, Fields, Alike, Resembles, CommitsOf
  <2> HIDE DEF q
  <2>2. Resembles(s, q)
    BY <1>1, <2>1, AlikeOn
  <2> QED BY <1>4, <2>2 DEF Resembles, Alike
<1>5. CASE ScheduleExternalRead(s) = u
  BY <1>3, <1>5
<1> QED BY <1>4, <1>5 DEF ScheduleExternalRead

\* A save that is not yet a commit is given up.
LEMMA InvalidatePreparationOrderly ==
  ASSUME NEW s, Orderly(s)
  PROVE  LET r == InvalidatePreparation(s) IN
         /\ Orderly(r) /\ r.lifecycle = s.lifecycle /\ r.merge = s.merge
         /\ r.cleanup = s.cleanup
         /\ s.local.kind \in {"dirty", "preparing"} => r.local = Dirty(0)
         /\ s.local.kind \notin {"dirty", "preparing"} => r = s
<1> DEFINE d == Deactivate(s, "savePreparation")
           c == Cancel(d, "savePreparation", s.local.token)
           q == [c EXCEPT !.local = Dirty(0)]
<1>1. CASE s.local.kind \in {"dirty", "preparing"} /\ s.local.token # 0
  <2>1. Resembles(s, d)
    BY DeactivateAlike DEF Orderly, Operations
  <2>2. Formed(d) /\ d.merge = s.merge
    BY <2>1, AlikeIsOrderly DEF Orderly, Resembles, Formed, Fields, Deactivate
  <2> HIDE DEF d
  <2>3. Resembles(d, c) /\ c.merge = d.merge
    BY <2>2, CancelAlike DEF Formed, Fields, Cancel
  <2>4. Resembles(s, c) /\ Formed(c)
    BY <2>1, <2>2, <2>3, AlikeOn, AlikeIsOrderly DEF Resembles
  <2> HIDE DEF c
  <2>5. /\ q.local = Dirty(0) /\ DOMAIN q = Fields /\ q.active = c.active
        /\ q.cleanup = c.cleanup /\ q.merge = c.merge
        /\ q.lifecycle = c.lifecycle /\ q.effects = c.effects
    BY <2>4 DEF Formed, Fields
  <2> HIDE DEF q
  <2>6. CommitsOf(q) = {}
    <3>1. CommitsOf(s) = {}
      BY <1>1, NotWritingNoCommit
    <3> QED BY <2>4, <2>5, <3>1 DEF CommitsOf, Alike, Resembles
  <2>7. Formed(q) /\ ~Saving(q)
    BY <2>4, <2>5 DEF Formed, Saving, Dirty
  <2>8. Orderly(q)
    BY <2>6, <2>7, SettledIsOrderly
  <2>9. InvalidatePreparation(s) = q
    BY <1>1 DEF InvalidatePreparation, q, c, d
  <2> QED BY <1>1, <2>2, <2>3, <2>4, <2>5, <2>8, <2>9 DEF Alike, Resembles
<1>2. CASE ~(s.local.kind \in {"dirty", "preparing"} /\ s.local.token # 0)
  <2>1. InvalidatePreparation(s) = s
    BY <1>2 DEF InvalidatePreparation
  <2>2. s.local.kind \in {"dirty", "preparing"} => s.local = Dirty(0)
    BY <1>2 DEF Orderly, Formed, Clean, Dirty
  <2> QED BY <2>1, <2>2
<1> QED BY <1>1, <1>2

\* Giving up a merge.
LEMMA InvalidateMergeAlike ==
  ASSUME NEW s, Formed(s)
  PROVE  /\ Resembles(s, InvalidateMerge(s))
         /\ InvalidateMerge(s).merge = None
<1> DEFINE p == [s EXCEPT
                   !.unresolvedDisplaced = s.merge.origin.continuation,
                   !.issue = "recovery"]
           r == IF s.merge.origin = None THEN s ELSE p
           d == Deactivate(r, "merge")
           c == Cancel(d, "merge", s.merge.token)
           q == [c EXCEPT !.merge = None, !.signalPending = TRUE]
<1>1. CASE s.merge # None
  <2>1. Resembles(s, p)
    BY DEF Formed, Fields, Alike, Resembles, CommitsOf
  <2>2. Resembles(s, s)
    BY DEF Alike, Resembles
  <2> HIDE DEF p
  <2>3. Resembles(s, r) /\ Formed(r)
    BY <2>1, <2>2, AlikeIsOrderly DEF Resembles
  <2> HIDE DEF r
  <2>4. Resembles(r, d) /\ Formed(d)
    BY <2>3, DeactivateAlike, AlikeIsOrderly DEF Resembles, Operations
  <2> HIDE DEF d
  <2>5. Resembles(d, c) /\ Formed(c)
    BY <2>4, CancelAlike, AlikeIsOrderly DEF Resembles
  <2> HIDE DEF c
  <2>6. Resembles(c, q) /\ q.merge = None
    BY <2>5 DEF Formed, Fields, Alike, Resembles, CommitsOf
  <2> HIDE DEF q
  <2>7. InvalidateMerge(s) = q
    BY <1>1 DEF InvalidateMerge, q, c, d, r, p
  <2> QED BY <2>3, <2>4, <2>5, <2>6, <2>7, AlikeOn
<1>2. CASE s.merge = None
  BY <1>2 DEF InvalidateMerge, Alike, Resembles
<1> QED BY <1>1, <1>2

\* A refused close goes back to editing.
LEMMA RefuseCloseAlike ==
  ASSUME NEW s, Formed(s)
  PROVE  Alike(s, RefuseCloseIfNeeded(s))
<1> DEFINE d == Deactivate(s, "close")
           c == Cancel(d, "close", s.active["close"])
           q == [c EXCEPT !.lifecycle = "active"]
<1>1. Resembles(s, d) /\ Formed(d)
  BY DeactivateAlike, AlikeIsOrderly DEF Resembles, Operations
<1> HIDE DEF d
<1>2. Resembles(d, c) /\ Formed(c)
  BY <1>1, CancelAlike, AlikeIsOrderly DEF Resembles
<1> HIDE DEF c
<1>3. Alike(c, q)
  BY <1>2 DEF Formed, Fields, Alike, CommitsOf
<1> HIDE DEF q
<1>4. Alike(s, q) /\ Alike(s, s)
  BY <1>1, <1>2, <1>3 DEF Alike, Resembles
<1> QED BY <1>4 DEF RefuseCloseIfNeeded, q, c, d

\* Refusing to close because of a failure.
LEMMA RefuseAlike ==
  ASSUME NEW s, Formed(s), NEW failure
  PROVE  Alike(s, Refuse(s, failure))
<1> DEFINE q == [s EXCEPT !.issue = failure]
<1>1. Alike(s, q) /\ Formed(q)
  BY DEF Formed, Fields, Alike, CommitsOf
<1> HIDE DEF q
<1>2. Alike(q, RefuseCloseIfNeeded(q))
  BY <1>1, RefuseCloseAlike
<1> QED BY <1>1, <1>2 DEF Alike, Refuse, q

\* A local state that is writing, of which no commit can be kept.
Abandoned(s) ==
  /\ s.local.kind = "writing" /\ s.active["saveCommit"] # s.local.token
  /\ CommitsOf(s) = {}

\* After a failure no save is under way, except the commit that runs.
LEMMA InvalidateAutomatedWorkOrderly ==
  ASSUME NEW s, Formed(s), Orderly(s) \/ Abandoned(s)
  PROVE  Orderly(InvalidateAutomatedWork(s))
<1> DEFINE r == InvalidateAutomatedWork(s)
           keeps == /\ s.local.kind = "writing"
                    /\ s.active["saveCommit"] = s.local.token
<1>1. /\ DOMAIN r = Fields /\ DOMAIN r.active = Operations
      /\ r.local = LocalAfterInvalidation(s, keeps)
      /\ r.cleanup = s.cleanup /\ r.merge = None
      /\ r.uncertain = s.uncertain /\ r.recovery = s.recovery
      /\ r.pendingDisplaced = s.pendingDisplaced
      /\ keeps => r.active["saveCommit"] = s.active["saveCommit"]
      /\ r.active["savePreparation"] = 0
  BY DEF Formed, Fields, InvalidateAutomatedWork, Operations
<1>2. CommitsOf(r) = CommitsOf(s)
  BY DEF Formed, Fields, InvalidateAutomatedWork, CommitsOf
<1> SUFFICES Orderly(r)
  OBVIOUS
<1> HIDE DEF r
<1>3. Formed(r)
  BY <1>1 DEF Formed, LocalAfterInvalidation, Dirty
<1>4. CASE r.local = s.local /\ keeps
  <2>1. Orderly(s)
    BY <1>4 DEF Abandoned
  <2>2. r.active["saveCommit"] = s.active["saveCommit"]
    BY <1>1, <1>4
  <2> HIDE DEF keeps
  <2>3. SavesAlone(r)
    BY <1>1, <1>4, <2>1 DEF Orderly, SavesAlone, Saving, StoresDisplaced
  <2>4. WritesCommit(r)
    BY <1>1, <1>2, <1>4, <2>1, <2>2 DEF Orderly, WritesCommit
  <2> QED BY <1>3, <2>3, <2>4 DEF Orderly
<1>5. CASE ~Saving(r) /\ ~keeps
  <2>1. CommitsOf(s) = {}
    BY <1>5 DEF Abandoned, Orderly, WritesCommit
  <2> QED BY <1>2, <1>3, <1>5, <2>1, SettledIsOrderly
<1>6. CASE r.local = Clean /\ s.local = Clean
  <2>1. ~keeps
    BY <1>6 DEF Clean
  <2> QED BY <1>5, <1>6, <2>1 DEF Saving
<1>7. \/ r.local = s.local /\ keeps
      \/ r.local = Clean /\ s.local = Clean
      \/ r.local = Dirty(0) /\ ~keeps
  BY <1>1 DEF LocalAfterInvalidation
<1> HIDE DEF keeps
<1> QED BY <1>4, <1>5, <1>6, <1>7 DEF Saving

\* The failure of the recovery store.
LEMMA FailRecoveryOrderly ==
  ASSUME NEW s, Formed(s), Orderly(s) \/ Abandoned(s)
  PROVE  Orderly(FailRecovery(s))
<1> DEFINE w == InvalidateAutomatedWork(s)
           r == CancelAllDeadlines(w)
           q == [r EXCEPT !.access = "failed", !.issue = "recovery",
                          !.lifecycle = IF @ = "closing" THEN "active" ELSE @]
<1>1. Orderly(w)
  BY InvalidateAutomatedWorkOrderly
<1> HIDE DEF w
<1>2. Orderly(r)
  BY <1>1, CancelAllDeadlinesAlike, AlikeIsOrderly DEF Resembles, Orderly
<1> HIDE DEF r
<1>3. Alike(r, q)
  BY <1>2 DEF Orderly, Formed, Fields, Alike, CommitsOf
<1> HIDE DEF q
<1>4. Orderly(q)
  BY <1>2, <1>3, AlikeIsOrderly
<1> QED BY <1>4 DEF FailRecovery, q, r, w

-----------------------------------------------------------------------------
(* Recovery operations.                                                    *)

\* A call of the store; displaced bytes are stored when no save is under way.
LEMMA StartMutationOrderly ==
  ASSUME NEW s, Orderly(s), NEW attempt,
         DOMAIN attempt = {"token", "purpose", "expected", "entry", "discard",
                           "cleanup", "continuation"},
         \/ ~Saving(s)
         \/ attempt.purpose # "persistDisplacedPreimage"
  PROVE  Orderly(StartMutation(s, attempt))
<1> DEFINE a == [attempt EXCEPT !.token = FreshToken(s, "recovery")]
           p == Start(s, "mutate", "recovery", a)
           q == [p EXCEPT !.recovery = Persisting(a)]
<1>1. a.purpose = attempt.purpose
  OBVIOUS
<1> HIDE DEF a
<1>2. Resembles(s, p)
  BY StartAlike DEF Orderly, Operations
<1> HIDE DEF p
<1>3. Orderly(p)
  BY <1>2, AlikeIsOrderly DEF Resembles
<1>4. /\ DOMAIN q = Fields /\ q.active = p.active /\ q.local = p.local
      /\ q.cleanup = p.cleanup /\ q.merge = p.merge
      /\ q.uncertain = p.uncertain /\ q.recovery = Persisting(a)
      /\ q.pendingDisplaced = p.pendingDisplaced /\ q.effects = p.effects
  BY <1>3 DEF Orderly, Formed, Fields
<1> HIDE DEF q
<1>5. Formed(q) /\ WritesCommit(q)
  BY <1>3, <1>4 DEF Orderly, Formed, WritesCommit, CommitsOf
<1>6. SavesAlone(q)
  BY <1>1, <1>2, <1>3, <1>4 DEF Orderly, SavesAlone, Saving, StoresDisplaced,
     Persisting, Resembles, Alike
<1>7. StartMutation(s, attempt) = q
  BY DEF StartMutation, q, p, a
<1> QED BY <1>5, <1>6, <1>7 DEF Orderly

\* Loading the recovery records.
LEMMA StartRecoveryLoadAlike ==
  ASSUME NEW s, Formed(s)
  PROVE  Resembles(s, StartRecoveryLoad(s))
<1> DEFINE p == Start(s, "load", "recovery", None)
           q == [p EXCEPT !.access = "loading"]
<1>1. Resembles(s, p)
  BY StartAlike DEF Operations
<1> HIDE DEF p
<1>2. Resembles(p, q)
  BY <1>1, AlikeIsOrderly DEF Resembles, Formed, Fields, Alike, CommitsOf
<1> HIDE DEF q
<1>3. Resembles(s, q)
  BY <1>1, <1>2, AlikeOn
<1> QED BY <1>3 DEF StartRecoveryLoad, q, p

\* Asking the recovery store what it holds.
LEMMA StartRecoveryReconciliationAlike ==
  ASSUME NEW s, Formed(s)
  PROVE  Resembles(s, StartRecoveryReconciliation(s))
<1> DEFINE p == Start(s, "reconcile", "recovery", s.recovery.attempt)
           q == [p EXCEPT !.access = "loading"]
<1>1. Resembles(s, p)
  BY StartAlike DEF Operations
<1> HIDE DEF p
<1>2. Resembles(p, q)
  BY <1>1, AlikeIsOrderly DEF Resembles, Formed, Fields, Alike, CommitsOf
<1> HIDE DEF q
<1>3. Resembles(s, q)
  BY <1>1, <1>2, AlikeOn
<1> QED BY <1>3 DEF StartRecoveryReconciliation, q, p

\* Storing the loser of a conflict may happen beside a save.
LEMMA StartRecoveryPersistenceOrderly ==
  ASSUME NEW s, Orderly(s), NEW text, NEW cleanup
  PROVE  Orderly(StartRecoveryPersistence(s, text, cleanup))
<1> DEFINE expected == IF s.recovery.kind = "available"
                       THEN s.recovery.records ELSE NoRecords
           p == [s EXCEPT !.pendingConflict = text]
           b == [Attempt(0, "persistConflict", expected) EXCEPT
                  !.entry = [id |-> FreshEntryID(s), text |-> text],
                  !.cleanup = cleanup]
<1>1. Resembles(s, p)
  BY DEF Orderly, Formed, Fields, Alike, Resembles, CommitsOf
<1>2. b.purpose = "persistConflict"
      /\ DOMAIN b = {"token", "purpose", "expected", "entry", "discard",
                     "cleanup", "continuation"}
  BY DEF Attempt
<1> HIDE DEF b, p
<1>3. Orderly(StartMutation(p, b))
  BY <1>1, <1>2, AlikeIsOrderly, StartMutationOrderly DEF Resembles
<1> QED BY <1>3 DEF StartRecoveryPersistence, p, b

\* Storing the displaced bytes happens when nothing is saved.
LEMMA StartDisplacedPersistenceOrderly ==
  ASSUME NEW s, Orderly(s), NEW continuation, ~Saving(s)
  PROVE  Orderly(StartDisplacedPersistence(s, continuation))
<1> DEFINE expected == CASE s.recovery.kind = "available" ->
                              s.recovery.records
                         [] s.recovery.kind = "persisting" ->
                              s.recovery.attempt.expected
                         [] OTHER -> NoRecords
           b == [Attempt(0, "persistDisplacedPreimage", expected) EXCEPT
                !.entry = [id |-> continuation.id,
                           text |-> continuation.text],
                !.continuation = continuation]
<1>1. DOMAIN b = {"token", "purpose", "expected", "entry", "discard",
                  "cleanup", "continuation"}
  BY DEF Attempt
<1> HIDE DEF b
<1>2. Orderly(StartMutation(s, b))
  BY <1>1, StartMutationOrderly
<1> QED BY <1>2 DEF StartDisplacedPersistence, b

\* Discarding records may happen beside a save.
LEMMA StartRecoveryDiscardOrderly ==
  ASSUME NEW s, Orderly(s), NEW target, NEW purpose,
         purpose # "persistDisplacedPreimage"
  PROVE  Orderly(StartRecoveryDiscard(s, target, purpose))
<1> DEFINE b == [Attempt(0, purpose, s.recovery.records) EXCEPT
                   !.discard = target]
<1>1. b.purpose = purpose
      /\ DOMAIN b = {"token", "purpose", "expected", "entry", "discard",
                     "cleanup", "continuation"}
  BY DEF Attempt
<1> HIDE DEF b
<1>2. Orderly(StartMutation(s, b))
  BY <1>1, StartMutationOrderly
<1> QED BY <1>2 DEF StartRecoveryDiscard, b

\* The cleanup that waits resumes.
LEMMA ResumeRecoveryCleanupOrderly ==
  ASSUME NEW s, Orderly(s), s.cleanup # None
  PROVE  Orderly(ResumeRecoveryCleanup(s))
BY StartRecoveryDiscardOrderly DEF ResumeRecoveryCleanup, Orderly, Formed

-----------------------------------------------------------------------------
(* Progress.                                                               *)

\* A document that is about to close and has a cleanup left has no merge.
MergesFirst(s) ==
  s.lifecycle = "closing" /\ s.cleanup # None => s.merge = None

\* Allowing the close.
LEMMA AllowManagedCloseAlike ==
  ASSUME NEW s, Formed(s)
  PROVE  Alike(s, AllowManagedClose(s))
<1> DEFINE c == Cancel(s, "close", s.active["close"])
<1>1. Resembles(s, c)
  BY CancelAlike
<1> HIDE DEF c
<1>2. Alike(c, [c EXCEPT !.lifecycle = "allowed"])
  BY <1>1, AlikeIsOrderly DEF Resembles, Formed, Fields, Alike, CommitsOf
<1> QED BY <1>1, <1>2 DEF AllowManagedClose, c, Alike, Resembles

\* A close goes on; it schedules a save, which finds no merge.
LEMMA ProgressManagedCloseOrderly ==
  ASSUME NEW s, Orderly(s), s.lifecycle = "closing",
         MergesFirst(ProgressManagedClose(s))
  PROVE  Orderly(ProgressManagedClose(s))
<1> DEFINE r == ProgressManagedClose(s)
<1>1. Formed(s)
  BY DEF Orderly
<1>2. \/ r = RefuseCloseIfNeeded(s) \/ r = s \/ r = AllowManagedClose(s)
      \/ r = ScheduleExternalRead(s)
      \/ r = ResumeRecoveryCleanup(s) /\ s.cleanup # None
      \/ /\ r = StartDisplacedPersistence(s, s.pendingDisplaced)
         /\ s.pendingDisplaced # None
      \/ r = ScheduleLocalSave(s) /\ (s.cleanup # None \/ s.merge = None)
  BY DEF ProgressManagedClose, CanResumeCleanup
<1>3. MergesFirst(r)
  OBVIOUS
<1> SUFFICES Orderly(r)
  OBVIOUS
<1> HIDE DEF r
<1>4. CASE \/ r = RefuseCloseIfNeeded(s) \/ r = s \/ r = AllowManagedClose(s)
           \/ r = ScheduleExternalRead(s)
  BY <1>1, <1>4, RefuseCloseAlike, AllowManagedCloseAlike,
     ScheduleExternalReadAlike, AlikeIsOrderly DEF Resembles
<1>5. CASE r = ResumeRecoveryCleanup(s) /\ s.cleanup # None
  BY <1>5, ResumeRecoveryCleanupOrderly
<1>6. CASE /\ r = StartDisplacedPersistence(s, s.pendingDisplaced)
           /\ s.pendingDisplaced # None
  BY <1>6, StartDisplacedPersistenceOrderly DEF Orderly, SavesAlone
<1>7. CASE r = ScheduleLocalSave(s) /\ (s.cleanup # None \/ s.merge = None)
  <2>1. s.merge = None
    BY <1>1, <1>3, <1>7, ScheduleKeeps DEF MergesFirst
  <2> QED BY <1>7, <2>1, ScheduleLocalSaveOrderly
<1> QED BY <1>2, <1>4, <1>5, <1>6, <1>7

\* What follows an event.
LEMMA ContinueSynchronizationOrderly ==
  ASSUME NEW s, Orderly(s), MergesFirst(ContinueSynchronization(s))
  PROVE  Orderly(ContinueSynchronization(s))
<1> DEFINE r == ContinueSynchronization(s)
           x == ScheduleExternalRead(s)
<1>1. Formed(s)
  BY DEF Orderly
<1>2. \/ r = s
      \/ r = ProgressManagedClose(s) /\ s.lifecycle = "closing"
      \/ r = StartRecoveryPersistence(s, s.pendingConflict, None)
      \/ r = ResumeRecoveryCleanup(s) /\ s.cleanup # None
      \/ /\ r = StartDisplacedPersistence(s, s.pendingDisplaced)
         /\ s.pendingDisplaced # None
      \/ r = x
      \/ r = ScheduleLocalSave(x) /\ s.merge = None
      \/ r = ScheduleLocalSave(s) /\ s.merge = None
  BY DEF ContinueSynchronization, CanResumeCleanup
<1>3. MergesFirst(r)
  OBVIOUS
<1>4. Orderly(x) /\ x.merge = s.merge
  BY <1>1, ScheduleExternalReadAlike, AlikeIsOrderly DEF Resembles
<1> SUFFICES Orderly(r)
  OBVIOUS
<1> HIDE DEF r, x
<1>5. CASE r = ProgressManagedClose(s) /\ s.lifecycle = "closing"
  BY <1>3, <1>5, ProgressManagedCloseOrderly
<1>6. CASE /\ r = StartDisplacedPersistence(s, s.pendingDisplaced)
           /\ s.pendingDisplaced # None
  BY <1>6, StartDisplacedPersistenceOrderly DEF Orderly, SavesAlone
<1>7. CASE r = ScheduleLocalSave(x) /\ s.merge = None
  BY <1>4, <1>7, ScheduleLocalSaveOrderly
<1>8. CASE r = ScheduleLocalSave(s) /\ s.merge = None
  BY <1>8, ScheduleLocalSaveOrderly
<1> QED BY <1>2, <1>4, <1>5, <1>6, <1>7, <1>8, ResumeRecoveryCleanupOrderly,
     StartRecoveryPersistenceOrderly

\* A state with no commit and no save to wait for.
LEMMA Settled ==
  ASSUME NEW s, Formed(s), CommitsOf(s) = {}, NEW q,
         DOMAIN q = Fields, q.active = s.active, q.effects = s.effects,
         q.cleanup = s.cleanup, q.local \in {Clean, Dirty(0)}
  PROVE  Orderly(q) /\ ~Saving(q)
<1>1. ~Saving(q)
  BY DEF Saving
<1>2. Formed(q)
  BY DEF Formed, Dirty
<1>3. CommitsOf(q) = {}
  BY DEF CommitsOf
<1> QED BY <1>1, <1>2, <1>3, SettledIsOrderly

\* What loaded records make of the recovery state stores nothing.
LEMMA RecoveryOfIsAtRest ==
  ASSUME NEW records
  PROVE  RecoveryOf(records).kind \in {"clear", "available"}
BY DEF RecoveryOf, Clear, Available

\* A change of the recovery store that is done.
LEMMA FinishRecoveryMutationOrderly ==
  ASSUME NEW s, Orderly(s), NEW records,
         MergesFirst(FinishRecoveryMutation(s, records))
  PROVE  Orderly(FinishRecoveryMutation(s, records))
<1> DEFINE d == Deactivate(s, "recovery")
           r == [d EXCEPT !.access = "ready", !.barrier = FALSE,
                          !.recovery = RecoveryOf(records)]
           q == [r EXCEPT !.issue = None]
           z == FinishRecoveryMutation(s, records)
<1>1. Resembles(s, d) /\ Orderly(d)
  BY DeactivateAlike, AlikeIsOrderly DEF Resembles, Operations, Orderly
<1> HIDE DEF d
<1>2. /\ DOMAIN r = Fields /\ r.active = d.active /\ r.effects = d.effects
      /\ r.local = d.local /\ r.cleanup = d.cleanup /\ r.merge = d.merge
      /\ r.uncertain = d.uncertain
      /\ r.pendingDisplaced = d.pendingDisplaced
      /\ r.recovery = RecoveryOf(records)
  BY <1>1 DEF Orderly, Formed, Fields
<1>3. \/ z = ContinueSynchronization(q)
      \/ z = ResumeRecoveryCleanup(r) /\ r.cleanup # None
      \/ z = Refuse(r, "recovery")
  BY DEF FinishRecoveryMutation, CanResumeIndependentCleanup,
     CanResumeCleanup, r, d
<1>4. MergesFirst(z)
  OBVIOUS
<1> SUFFICES Orderly(z)
  OBVIOUS
<1> HIDE DEF r, z
<1>5. r.recovery.kind # "persisting"
  BY <1>2, RecoveryOfIsAtRest
<1>6. Orderly(r)
  <2>1. Formed(r) /\ WritesCommit(r)
    BY <1>1, <1>2 DEF Orderly, Formed, WritesCommit, CommitsOf
  <2>2. SavesAlone(r)
    BY <1>1, <1>2, <1>5 DEF Orderly, SavesAlone, StoresDisplaced, Saving
  <2> QED BY <2>1, <2>2 DEF Orderly
<1>7. Alike(r, q)
  BY <1>2 DEF Fields, Alike, CommitsOf
<1> HIDE DEF q
<1>8. Orderly(q) /\ Alike(r, Refuse(r, "recovery"))
  BY <1>6, <1>7, AlikeIsOrderly, RefuseAlike DEF Orderly
<1> QED BY <1>3, <1>4, <1>6, <1>8, ContinueSynchronizationOrderly,
     ResumeRecoveryCleanupOrderly, AlikeIsOrderly

\* Without a commit the editor may take the text of the other program.
LEMMA PersistLocalConflictOrderly ==
  ASSUME NEW s, Orderly(s), CommitsOf(s) = {}, NEW external, NEW local
  PROVE  Orderly(PersistLocalConflict(s, external, local))
<1> DEFINE revision == [number |-> s.source.number + 1,
                        text |-> external.text]
           q == [s EXCEPT !.source = revision,
                       !.baseline = Durable(revision, external.inode),
                       !.local = Clean, !.issue = None,
                       !.displaced = @ \cup {local}]
<1>1. Formed(s)
  BY DEF Orderly
<1> HIDE DEF revision
<1>2. /\ DOMAIN q = Fields /\ q.active = s.active /\ q.effects = s.effects
      /\ q.cleanup = s.cleanup /\ q.local = Clean
  BY <1>1 DEF Formed, Fields
<1> HIDE DEF q
<1>3. Orderly(q)
  BY <1>1, <1>2, Settled
<1> QED BY <1>1, <1>3, FailRecoveryOrderly, StartRecoveryPersistenceOrderly
     DEF PersistLocalConflict, q, revision

\* The merge of a contested commit ends in a conflict.
LEMMA PersistDisplacedConflictOrderly ==
  ASSUME NEW s, Orderly(s), CommitsOf(s) = {}, NEW merge
  PROVE  Orderly(PersistDisplacedConflict(s, merge))
<1> DEFINE number == s.source.number + 1
           cleanup == [target |-> merge.origin.target, min |-> number,
                       purpose |-> "discardResolvedDisplacedPreimage"]
           q == [s EXCEPT !.source = [number |-> number,
                                      text |-> merge.external.text],
                          !.local = Dirty(0), !.issue = None,
                          !.displaced = @ \cup {merge.local.text}]
           p == StartRecoveryPersistence(q, merge.local.text, cleanup)
           r == [p EXCEPT !.unresolvedDisplaced = None]
<1>1. Formed(s)
  BY DEF Orderly
<1> HIDE DEF number, cleanup
<1>2. /\ DOMAIN q = Fields /\ q.active = s.active /\ q.effects = s.effects
      /\ q.cleanup = s.cleanup /\ q.local = Dirty(0)
  BY <1>1 DEF Formed, Fields
<1> HIDE DEF q
<1>3. Orderly(p)
  BY <1>1, <1>2, Settled, StartRecoveryPersistenceOrderly
<1> HIDE DEF p
<1>4. Alike(p, r)
  BY <1>3 DEF Orderly, Formed, Fields, Alike, CommitsOf
<1> HIDE DEF r
<1>5. Orderly(r)
  BY <1>3, <1>4, AlikeIsOrderly
<1> QED BY <1>1, <1>5, FailRecoveryOrderly
     DEF PersistDisplacedConflict, r, p, q, cleanup, number

-----------------------------------------------------------------------------
(* Local events.                                                           *)

\* The user edits.
LEMMA SourceChangedOrderly ==
  ASSUME NEW s, Orderly(s), NEW text, MergesFirst(SourceChanged(s, text))
  PROVE  Orderly(SourceChanged(s, text))
<1> DEFINE edited == [s EXCEPT !.source = [number |-> @.number + 1,
                                           text |-> text]]
           s1 == IF \/ RecoveryBlocksAutomation(edited)
                    \/ s.issue = "destinationRequiresSaveAs"
                 THEN edited ELSE [edited EXCEPT !.issue = None]
           m == InvalidateMerge(s1)
           s2 == InvalidatePreparation(m)
           ca == [s2 EXCEPT !.baseline = Rebased(@, s2.source),
                            !.local = Clean,
                            !.issue = IF @ = "destinationRequiresSaveAs"
                                      THEN None ELSE @]
           da == [s2 EXCEPT !.local = Dirty(0)]
           s3 == IF s2.baseline.text = text THEN ca ELSE da
           s4 == IF s3.signalPending THEN ScheduleExternalRead(s3) ELSE s3
           r == SourceChanged(s, text)
<1>1. Alike(s, edited) /\ DOMAIN edited = Fields
      /\ DOMAIN edited.active = Operations
  BY DEF Orderly, Formed, Fields, Alike, CommitsOf
<1> HIDE DEF edited
<1>2. Alike(s, s1)
  BY <1>1 DEF Fields, Alike, CommitsOf
<1>3. Orderly(s1)
  BY <1>2, AlikeIsOrderly
<1> HIDE DEF s1
<1>4. Orderly(m) /\ m.local = s.local
  BY <1>2, <1>3, InvalidateMergeAlike, AlikeIsOrderly
     DEF Resembles, Orderly, Alike
<1> HIDE DEF m
<1>5. Orderly(s2)
  BY <1>4, InvalidatePreparationOrderly
<1> HIDE DEF s2
<1>6. /\ DOMAIN ca = Fields /\ ca.active = s2.active
      /\ ca.effects = s2.effects /\ ca.cleanup = s2.cleanup
      /\ ca.local = Clean
  BY <1>5 DEF Orderly, Formed, Fields
<1>7. /\ DOMAIN da = Fields /\ da.active = s2.active
      /\ da.effects = s2.effects /\ da.cleanup = s2.cleanup
      /\ da.local = Dirty(0)
  BY <1>5 DEF Orderly, Formed, Fields
<1> HIDE DEF ca, da
<1>8. \/ r \in {s2, ScheduleExternalRead(s2)}
      \/ /\ s.local.kind # "writing"
         /\ r \in {s4, ContinueSynchronization(s4)}
  BY DEF SourceChanged, s4, s3, ca, da, s2, m, s1, edited
<1>9. MergesFirst(r)
  OBVIOUS
<1> SUFFICES Orderly(r)
  OBVIOUS
<1> HIDE DEF r
<1>10. CASE r \in {s2, ScheduleExternalRead(s2)}
  BY <1>5, <1>10, ScheduleExternalReadAlike, AlikeIsOrderly
     DEF Resembles, Orderly
<1>11. CASE /\ s.local.kind # "writing"
            /\ r \in {s4, ContinueSynchronization(s4)}
  <2>1. CommitsOf(s2) = {}
    <3>1. s2.local.kind # "writing"
      BY <1>4, <1>11, InvalidatePreparationOrderly DEF s2, Dirty
    <3> QED BY <1>5, <3>1, NotWritingNoCommit
  <2>2. Orderly(ca) /\ Orderly(da)
    BY <1>5, <1>6, <1>7, <2>1, Settled DEF Orderly
  <2>3. Orderly(s3)
    BY <2>2
  <2> HIDE DEF s3
  <2>4. Orderly(s4)
    BY <2>3, ScheduleExternalReadAlike, AlikeIsOrderly DEF Resembles, Orderly
  <2> HIDE DEF s4
  <2> QED BY <1>9, <1>11, <2>4, ContinueSynchronizationOrderly
<1> QED BY <1>8, <1>10, <1>11

\* The user or AppKit asks for a save while nothing is merged.
LEMMA SaveRequestedOrderly ==
  ASSUME NEW s, Orderly(s), s.merge = None
  PROVE  Orderly(SaveRequested(s))
<1>1. Orderly(InvalidatePreparation(s))
      /\ InvalidatePreparation(s).merge = None
  BY InvalidatePreparationOrderly
<1> QED BY <1>1, ScheduleLocalSaveOrderly DEF SaveRequested

\* The delay before a save is over.
LEMMA LocalSaveDeadlineOrderly ==
  ASSUME NEW s, Orderly(s), s.local = Dirty(s.active["savePreparation"]),
         s.active["savePreparation"] # 0
  PROVE  Orderly(LocalSaveDeadlineFired(s))
<1> DEFINE t == s.active["savePreparation"]
           l == [kind |-> "preparing", token |-> t,
                 rev |-> s.source, expected |-> s.baseline]
           p == [s EXCEPT !.local = l]
           e == Effect("prepareSave", "savePreparation", t, None)
<1>1. /\ DOMAIN p = Fields /\ p.active = s.active /\ p.effects = s.effects
      /\ p.cleanup = s.cleanup /\ p.local = l /\ p.merge = s.merge
      /\ p.uncertain = s.uncertain /\ p.recovery = s.recovery
      /\ p.pendingDisplaced = s.pendingDisplaced
  BY DEF Orderly, Formed, Fields
<1>2. l.kind = "preparing" /\ l.token # 0
  OBVIOUS
<1> HIDE DEF l, p
<1>3. Saving(s) /\ CommitsOf(s) = {}
  BY NotWritingNoCommit DEF Saving, Dirty, Clean
<1>4. Orderly(p)
  <2>1. Formed(p)
    BY <1>1, <1>2 DEF Orderly, Formed
  <2>2. CommitsOf(p) = {}
    BY <1>1, <1>3 DEF CommitsOf
  <2>3. SavesAlone(p)
    BY <1>1, <1>3 DEF Orderly, SavesAlone, StoresDisplaced
  <2> QED BY <2>1, <2>2, <2>3 DEF Orderly, WritesCommit
<1>5. e.kind # "commit"
  BY DEF Effect
<1>6. LocalSaveDeadlineFired(s) = Emit(p, e)
  BY DEF LocalSaveDeadlineFired, p, l
<1> HIDE DEF e
<1>7. Orderly(Emit(p, e))
  BY <1>4, <1>5, EmitAlike, AlikeIsOrderly DEF Resembles, Orderly
<1> QED BY <1>6, <1>7

-----------------------------------------------------------------------------
(* Commits.                                                                *)

\* The outcome of a commit is looked up when nothing is saved.
LEMMA StartCommitReconciliationOrderly ==
  ASSUME NEW s, Orderly(s), ~Saving(s)
  PROVE  /\ Orderly(StartCommitReconciliation(s))
         /\ ~Saving(StartCommitReconciliation(s))
<1> DEFINE request == [original |-> s.uncertain.token, rev |-> s.uncertain.rev,
                       expected |-> s.uncertain.expected]
           r == Start(s, "reconcileCommit", "commitReconciliation", request)
           q == [r EXCEPT !.uncertain.reconciliation =
                   r.active["commitReconciliation"]]
<1> HIDE DEF request
<1>1. Resembles(s, r) /\ Orderly(r)
  BY StartAlike, AlikeIsOrderly DEF Resembles, Orderly, Operations
<1> HIDE DEF r
<1>2. r.local = s.local /\ ~Saving(r)
  BY <1>1 DEF Resembles, Alike, Saving
<1>3. /\ DOMAIN q = Fields /\ q.active = r.active /\ q.effects = r.effects
      /\ q.cleanup = r.cleanup /\ q.local = r.local
  BY <1>1 DEF Orderly, Formed, Fields
<1> HIDE DEF q
<1>4. Orderly(q) /\ ~Saving(q)
  BY <1>1, <1>2, <1>3, NotSavingNoCommit, Settled DEF Orderly, Saving
<1> QED BY <1>4 DEF StartCommitReconciliation, q, r, request

\* The answer of a commit does not say what happened.
LEMMA EnterUncertainOrderly ==
  ASSUME NEW s, Formed(s), CommitsOf(s) = {}
  PROVE  Orderly(EnterUncertainCommitOutcome(s))
<1> DEFINE u == [token |-> s.local.token, reconciliation |-> 0,
                 rev |-> s.local.rev, expected |-> s.local.expected]
           r == [Deactivate(s, "saveCommit") EXCEPT
                  !.local = Dirty(0), !.issue = "recovery", !.uncertain = u]
           q == StartCommitReconciliation(r)
<1> HIDE DEF u
<1>1. /\ DOMAIN r = Fields /\ DOMAIN r.active = Operations
      /\ r.effects = s.effects /\ r.cleanup = s.cleanup
      /\ r.local = Dirty(0)
  BY DEF Formed, Fields, Deactivate
<1> HIDE DEF r
<1>2. Formed(r) /\ ~Saving(r) /\ CommitsOf(r) = {}
  BY <1>1 DEF Formed, Saving, Dirty, CommitsOf
<1>3. Orderly(q)
  BY <1>2, SettledIsOrderly, StartCommitReconciliationOrderly
<1> HIDE DEF q
<1>4. Orderly(RefuseCloseIfNeeded(q))
  BY <1>3, RefuseCloseAlike, AlikeIsOrderly DEF Orderly
<1> QED BY <1>4 DEF EnterUncertainCommitOutcome, q, r, u

\* The commit that begins is the only one.
LEMMA SavePreparedOrderly ==
  ASSUME NEW s, Orderly(s), s.local \in LocalStates, IsFiniteSet(s.effects)
  PROVE  Orderly(SavePrepared(s))
<1> DEFINE t == FreshToken(s, "saveCommit")
           local == [s.local EXCEPT !.kind = "writing", !.token = t]
           r == Deactivate(s, "savePreparation")
           w == [r EXCEPT !.active["saveCommit"] = t, !.local = local]
           request == [rev |-> s.local.rev, validated |-> FALSE,
                       expected |-> s.local.expected]
           e == Effect("commit", "saveCommit", t, request)
           f == Emit(w, e)
<1>1. CASE s.local.kind = "preparing" /\ s.baseline = s.local.expected
  <2>1. CommitsOf(s) = {}
    BY <1>1, NotWritingNoCommit
  <2>2. ~BridgeIsBusy(s)
    BY <2>1 DEF BridgeIsBusy, CommitsOf
  <2>3. t # 0
    BY FreshTokenIsNew
  <2> HIDE DEF t
  <2>4. local.kind = "writing" /\ local.token = t
    BY <1>1 DEF LocalStates, Clean
  <2>5. e.kind = "commit" /\ e.token = t
    BY DEF Effect
  <2> HIDE DEF local, e
  <2>6. /\ DOMAIN r = Fields /\ DOMAIN r.active = Operations
        /\ r.local = s.local /\ r.cleanup = s.cleanup /\ r.merge = s.merge
        /\ r.uncertain = s.uncertain /\ r.recovery = s.recovery
        /\ r.pendingDisplaced = s.pendingDisplaced
        /\ r.effects = s.effects /\ r.active["savePreparation"] = 0
    BY DEF Orderly, Formed, Fields, Deactivate, Operations
  <2>7. w = [r EXCEPT !.active["saveCommit"] = t,
                      !.local = [@ EXCEPT !.kind = "writing", !.token = t]]
    BY <2>6 DEF local, Fields
  <2>8. SavePrepared(s) = f
    BY <1>1, <2>2, <2>7 DEF SavePrepared, r, t, e, request
  <2> HIDE DEF r
  <2>9. /\ DOMAIN w = Fields /\ DOMAIN w.active = Operations
        /\ w.local = local /\ w.cleanup = r.cleanup /\ w.merge = r.merge
        /\ w.uncertain = r.uncertain /\ w.recovery = r.recovery
        /\ w.pendingDisplaced = r.pendingDisplaced
        /\ w.effects = r.effects /\ w.active["savePreparation"] = 0
        /\ w.active["saveCommit"] = t
    BY <2>6 DEF Fields, Operations
  <2> HIDE DEF w
  <2>10. /\ DOMAIN f = Fields /\ f.active = w.active
         /\ f.local = w.local /\ f.cleanup = w.cleanup /\ f.merge = w.merge
         /\ f.uncertain = w.uncertain /\ f.recovery = w.recovery
         /\ f.pendingDisplaced = w.pendingDisplaced
         /\ f.effects = w.effects \cup {e}
    BY <2>9 DEF Emit, Fields
  <2> HIDE DEF f
  <2>11. \A g \in CommitsOf(f) : g = e
    BY <2>1, <2>6, <2>9, <2>10 DEF CommitsOf
  <2>12. WritesCommit(f)
    BY <2>4, <2>5, <2>9, <2>10, <2>11 DEF WritesCommit
  <2>13. Saving(s)
    BY <1>1 DEF Saving, Clean, Dirty
  <2>14. SavesAlone(f)
    BY <2>6, <2>9, <2>10, <2>13 DEF Orderly, SavesAlone, StoresDisplaced
  <2>15. Formed(f)
    BY <2>3, <2>4, <2>6, <2>9, <2>10 DEF Orderly, Formed
  <2> QED BY <2>8, <2>12, <2>14, <2>15 DEF Orderly
<1>2. CASE ~(s.local.kind = "preparing" /\ s.baseline = s.local.expected)
  BY <1>2 DEF SavePrepared
<1> QED BY <1>1, <1>2

\* The preparation of a save fails.
LEMMA SavePreparationFailedOrderly ==
  ASSUME NEW s, Orderly(s), s.active["savePreparation"] # 0
  PROVE  Orderly(SavePreparationFailed(s))
<1> DEFINE d == Deactivate(s, "savePreparation")
           q == [d EXCEPT !.local = Dirty(0)]
<1>1. Resembles(s, d) /\ Orderly(d)
  BY DeactivateAlike, AlikeIsOrderly DEF Resembles, Orderly, Operations
<1>2. CommitsOf(d) = {}
  BY <1>1 DEF Resembles, Alike, Orderly, WritesCommit
<1> HIDE DEF d
<1>3. /\ DOMAIN q = Fields /\ q.active = d.active /\ q.effects = d.effects
      /\ q.cleanup = d.cleanup /\ q.local = Dirty(0)
  BY <1>1 DEF Orderly, Formed, Fields
<1> HIDE DEF q
<1>4. Orderly(q)
  BY <1>1, <1>2, <1>3, Settled DEF Orderly
<1>5. Orderly(Refuse(q, "localSave"))
  BY <1>4, RefuseAlike, AlikeIsOrderly DEF Orderly
<1> QED BY <1>5 DEF SavePreparationFailed, q, d

\* The journals show that a commit did not start.
LEMMA CommitProvenNotStartedOrderly ==
  ASSUME NEW s, Formed(s), CommitsOf(s) = {}, NEW failure
  PROVE  Orderly(CommitProvenNotStarted(s, failure))
<1> DEFINE q == [Deactivate(s, "saveCommit") EXCEPT !.local = Dirty(0)]
<1>1. /\ DOMAIN q = Fields /\ DOMAIN q.active = Operations
      /\ q.effects = s.effects /\ q.cleanup = s.cleanup
      /\ q.local = Dirty(0)
  BY DEF Formed, Fields, Deactivate
<1> HIDE DEF q
<1>2. Orderly(q)
  BY <1>1, SettledIsOrderly DEF Formed, Saving, Dirty, CommitsOf
<1>3. Orderly(Refuse(q, failure))
  BY <1>2, RefuseAlike, AlikeIsOrderly DEF Orderly
<1> QED BY <1>3 DEF CommitProvenNotStarted, q

\* A commit that was carried out leaves no save behind.
LEMMA SaveFinishedOrderly ==
  ASSUME NEW s, Formed(s), s.local.kind = "writing", CommitsOf(s) = {},
         NEW answer, MergesFirst(SaveFinished(s, answer))
  PROVE  Orderly(SaveFinished(s, answer))
<1> DEFINE rev == s.local.rev
           displaced == answer.displaced
           committed == Durable(rev, answer.inode)
           s1 == [Deactivate(s, "saveCommit") EXCEPT
                    !.issue = IF @ \in {"localSave", "closeDeadline"}
                              THEN None ELSE @]
           c == [id |-> displaced.id, text |-> displaced.text,
                 mergeBase |-> s.local.expected.text, localRev |-> s.source,
                 pre |-> s.local.expected, committed |-> committed]
           p == [s1 EXCEPT !.local = Dirty(0), !.pendingDisplaced = c]
           s2 == [s1 EXCEPT !.baseline = committed]
           s3 == IF s.merge # None /\ s.merge.baseline # committed
                 THEN InvalidateMerge(s2) ELSE s2
           ca == [s3 EXCEPT !.baseline = Rebased(@, s.source),
                            !.local = Clean]
           da == [s3 EXCEPT !.local = Dirty(0)]
           s4 == IF s.source.text = rev.text THEN ca ELSE da
           r == SaveFinished(s, answer)
<1> HIDE DEF rev, displaced, committed, c
<1>1. /\ DOMAIN s1 = Fields /\ DOMAIN s1.active = Operations
      /\ s1.effects = s.effects /\ s1.cleanup = s.cleanup
      /\ s1.local = s.local /\ s1.active["saveCommit"] = 0
  BY DEF Formed, Fields, Deactivate, Operations
<1>2. \/ r = FailRecovery(s1)
      \/ r = StartDisplacedPersistence(p, c)
      \/ r = ResumeRecoveryCleanup(s4) /\ s4.cleanup # None
      \/ r = ContinueSynchronization(s4)
  BY DEF SaveFinished, s4, ca, da, s3, s2, s1, p, c, rev, displaced, committed
<1> HIDE DEF s1
<1>3. Formed(s1) /\ CommitsOf(s1) = {}
  BY <1>1 DEF Formed, CommitsOf
<1>4. Abandoned(s1)
  <2>1. s.local.token # 0
    BY DEF Formed, Clean, Dirty
  <2> QED BY <1>1, <1>3, <2>1 DEF Abandoned
<1>5. MergesFirst(r)
  OBVIOUS
<1> SUFFICES Orderly(r)
  OBVIOUS
<1> HIDE DEF r
<1>6. Orderly(p) /\ ~Saving(p)
  <2>1. /\ DOMAIN p = Fields /\ p.active = s1.active
        /\ p.effects = s1.effects /\ p.cleanup = s1.cleanup
        /\ p.local = Dirty(0)
    BY <1>1 DEF Fields
  <2> HIDE DEF p
  <2> QED BY <1>3, <2>1, Settled
<1> HIDE DEF p
<1>7. Resembles(s1, s2) /\ Formed(s2)
  BY <1>3 DEF Formed, Fields, Resembles, Alike, CommitsOf
<1> HIDE DEF s2
<1>8. Resembles(s1, s3) /\ Formed(s3)
  BY <1>7, InvalidateMergeAlike, AlikeOn, AlikeIsOrderly DEF Resembles
<1> HIDE DEF s3
<1>9. CommitsOf(s3) = {}
  BY <1>3, <1>8 DEF Resembles, Alike
<1>10. /\ DOMAIN ca = Fields /\ ca.active = s3.active
       /\ ca.effects = s3.effects /\ ca.cleanup = s3.cleanup
       /\ ca.local = Clean
  BY <1>8 DEF Formed, Fields
<1>11. /\ DOMAIN da = Fields /\ da.active = s3.active
       /\ da.effects = s3.effects /\ da.cleanup = s3.cleanup
       /\ da.local = Dirty(0)
  BY <1>8 DEF Formed, Fields
<1> HIDE DEF ca, da
<1>12. Orderly(ca) /\ Orderly(da)
  BY <1>8, <1>9, <1>10, <1>11, Settled
<1>13. Orderly(s4)
  BY <1>12
<1> HIDE DEF s4
<1> QED BY <1>2, <1>3, <1>4, <1>5, <1>6, <1>13, FailRecoveryOrderly,
     StartDisplacedPersistenceOrderly, ResumeRecoveryCleanupOrderly,
     ContinueSynchronizationOrderly

\* The outcome of an uncertain commit is known, or is not.
LEMMA CommitReconciliationFinishedOrderly ==
  ASSUME NEW s, Orderly(s), s.uncertain # None, s.uncertain.token # 0,
         NEW answer, MergesFirst(CommitReconciliationFinished(s, answer)),
         answer.outcome \in {"committed", "notCommitted", "unresolved"}
  PROVE  Orderly(CommitReconciliationFinished(s, answer))
<1> DEFINE r == Deactivate(s, "commitReconciliation")
           u == [r EXCEPT !.uncertain.reconciliation = 0]
           n == [r EXCEPT !.uncertain = None, !.local = Dirty(0),
                          !.issue = None]
           local == [kind |-> "writing", token |-> s.uncertain.token,
                     rev |-> s.uncertain.rev,
                     expected |-> s.uncertain.expected]
           c == [r EXCEPT !.uncertain = None, !.issue = None,
                          !.active["saveCommit"] = s.uncertain.token,
                          !.local = local]
           z == CommitReconciliationFinished(s, answer)
<1>1. ~Saving(s) /\ CommitsOf(s) = {}
  BY NotSavingNoCommit DEF Orderly, SavesAlone
<1>2. Resembles(s, r) /\ Formed(r)
  BY DeactivateAlike, AlikeIsOrderly DEF Resembles, Orderly, Operations
<1>3. CommitsOf(r) = {} /\ r.local \in {Clean, Dirty(0)}
  BY <1>1, <1>2 DEF Resembles, Alike, Saving
<1>4. \/ z = Refuse(u, "recovery")
      \/ z = ContinueSynchronization(n)
      \/ z = SaveFinished(c, answer)
  BY DEF CommitReconciliationFinished, u, n, c, r, local
<1>5. MergesFirst(z)
  OBVIOUS
<1> SUFFICES Orderly(z)
  OBVIOUS
<1> HIDE DEF r, z
<1>6. Orderly(u)
  <2>1. /\ DOMAIN u = Fields /\ u.active = r.active /\ u.effects = r.effects
        /\ u.cleanup = r.cleanup /\ u.local = r.local
    BY <1>2 DEF Formed, Fields
  <2> HIDE DEF u
  <2> QED BY <1>2, <1>3, <2>1, Settled
<1>7. Orderly(n)
  <2>1. /\ DOMAIN n = Fields /\ n.active = r.active /\ n.effects = r.effects
        /\ n.cleanup = r.cleanup /\ n.local = Dirty(0)
    BY <1>2 DEF Formed, Fields
  <2> HIDE DEF n
  <2> QED BY <1>2, <1>3, <2>1, Settled
<1>8. Formed(c) /\ c.local.kind = "writing" /\ CommitsOf(c) = {}
  <2>1. local.kind = "writing" /\ local.token # 0
    OBVIOUS
  <2> HIDE DEF local
  <2>2. /\ DOMAIN c = Fields /\ DOMAIN c.active = Operations
        /\ c.effects = r.effects
        /\ c.cleanup = r.cleanup /\ c.local = local
    BY <1>2 DEF Formed, Fields
  <2> HIDE DEF c
  <2> QED BY <1>2, <1>3, <2>1, <2>2 DEF Formed, CommitsOf
<1> HIDE DEF u, n, c
<1>9. CASE z = Refuse(u, "recovery")
  BY <1>6, <1>9, RefuseAlike, AlikeIsOrderly DEF Orderly
<1>10. CASE z = ContinueSynchronization(n)
  BY <1>5, <1>7, <1>10, ContinueSynchronizationOrderly
<1>11. CASE z = SaveFinished(c, answer)
  BY <1>5, <1>8, <1>11, SaveFinishedOrderly
<1> QED BY <1>4, <1>9, <1>10, <1>11

-----------------------------------------------------------------------------
(* The file monitor, reads and merges.                                     *)

\* The file monitor signals.
LEMMA MonitorSignaledAlike ==
  ASSUME NEW s, Formed(s)
  PROVE  Resembles(s, MonitorSignaled(s))
<1>1. Resembles(s, s) /\ Resembles(s, [s EXCEPT !.signalPending = TRUE])
  BY DEF Formed, Fields, Resembles, Alike, CommitsOf
<1>2. MonitorSignaled(s) \in {s, [s EXCEPT !.signalPending = TRUE],
                              ScheduleExternalRead(s)}
  BY DEF MonitorSignaled
<1> QED BY <1>1, <1>2, ScheduleExternalReadAlike

\* The delay before a read is over.
LEMMA ExternalReadDeadlineAlike ==
  ASSUME NEW s, Formed(s)
  PROVE  Resembles(s, ExternalReadDeadlineFired(s))
<1> DEFINE p == [s EXCEPT !.external.kind = "reading"]
           e == Effect("read", "externalRead", s.active["externalRead"],
                       [expected |-> s.external.expected])
<1>1. Resembles(s, p) /\ Formed(p)
  BY DEF Formed, Fields, Resembles, Alike, CommitsOf
<1>2. ExternalReadDeadlineFired(s) = Emit(p, e)
  BY DEF ExternalReadDeadlineFired
<1>3. e.kind # "commit"
  BY DEF Effect
<1> HIDE DEF p, e
<1> QED BY <1>1, <1>2, <1>3, EmitAlike, AlikeOn

\* A merge begins when no save is under way.
LEMMA StartMergeOrderly ==
  ASSUME NEW s, Orderly(s), ~Saving(s), NEW merge
  PROVE  Orderly(StartMerge(s, merge))
<1> DEFINE r == Start(s, "merge", "merge", None)
           q == [r EXCEPT !.merge = [merge EXCEPT !.token = r.active["merge"]]]
<1>1. Resembles(s, r) /\ Orderly(r)
  BY StartAlike, AlikeIsOrderly DEF Resembles, Orderly, Operations
<1> HIDE DEF r
<1>2. CommitsOf(r) = {} /\ r.local \in {Clean, Dirty(0)}
  BY <1>1, NotSavingNoCommit DEF Resembles, Alike, Saving
<1>3. /\ DOMAIN q = Fields /\ q.active = r.active /\ q.effects = r.effects
      /\ q.cleanup = r.cleanup /\ q.local = r.local
  BY <1>1 DEF Orderly, Formed, Fields
<1> HIDE DEF q
<1>4. Orderly(q)
  BY <1>1, <1>2, <1>3, Settled DEF Orderly
<1> QED BY <1>4 DEF StartMerge, q, r

\* A text read from the file is merged with unsaved edits: the save of those
\* is given up.
LEMMA MergeWithLocalOrderly ==
  ASSUME NEW s, Orderly(s), s.local.kind \in {"dirty", "preparing"},
         NEW external
  PROVE  Orderly(MergeWithLocal(s, external))
<1> DEFINE p == InvalidatePreparation(s)
<1>1. Orderly(p) /\ p.local = Dirty(0)
  BY InvalidatePreparationOrderly
<1> HIDE DEF p
<1> QED BY <1>1, StartMergeOrderly DEF MergeWithLocal, p, Saving

\* A read of the file ends.
LEMMA ExternalReadFinishedOrderly ==
  ASSUME NEW s, Orderly(s), NEW answer,
         answer.outcome \in {"failed", "unchanged", "missing", "changed"},
         MergesFirst(ExternalReadFinished(s, answer))
  PROVE  Orderly(ExternalReadFinished(s, answer))
<1> DEFINE d == Deactivate(s, "externalRead")
           r == [d EXCEPT !.external = Idle]
           revision == [number |-> s.source.number + 1,
                        text |-> answer.file.text]
           p == [r EXCEPT !.signalPending = TRUE]
           c == [r EXCEPT !.source = revision,
                          !.baseline = Durable(revision, answer.file.inode),
                          !.issue = None]
           z == ExternalReadFinished(s, answer)
<1>1. Resembles(s, d) /\ Orderly(d)
  BY DeactivateAlike, AlikeIsOrderly DEF Resembles, Orderly, Operations
<1>2. s.local.kind \in {"clean", "dirty", "preparing", "writing"}
  BY DEF Orderly, Formed, Clean
<1>3. \/ z \in {Refuse(r, "externalRead"), Refuse(r, "attachment")}
      \/ z = ContinueSynchronization(p)
      \/ z = ContinueSynchronization(r)
      \/ z = p
      \/ /\ s.local.kind \in {"dirty", "preparing"}
         /\ z = MergeWithLocal(r, answer.file)
      \/ z = ContinueSynchronization(c)
  BY <1>2 DEF ExternalReadFinished, p, c, r, d, revision
<1>4. MergesFirst(z)
  OBVIOUS
<1> SUFFICES Orderly(z)
  OBVIOUS
<1> HIDE DEF d, z
<1>5. Resembles(d, r) /\ Orderly(r)
  <2>1. Resembles(d, r)
    BY <1>1 DEF Orderly, Formed, Fields, Resembles, Alike, CommitsOf
  <2> QED BY <1>1, <2>1, AlikeIsOrderly DEF Resembles
<1> HIDE DEF r, revision
<1>6. r.local = s.local
  BY <1>1, <1>5 DEF Resembles, Alike
<1>7. Orderly(p) /\ Orderly(c)
  <2>1. Resembles(r, p) /\ Resembles(r, c)
    BY <1>5 DEF Orderly, Formed, Fields, Resembles, Alike, CommitsOf
  <2> QED BY <1>5, <2>1, AlikeIsOrderly DEF Resembles
<1> HIDE DEF p, c
<1>8. CASE z \in {Refuse(r, "externalRead"), Refuse(r, "attachment")}
  BY <1>5, <1>8, RefuseAlike, AlikeIsOrderly DEF Orderly
<1>9. CASE /\ s.local.kind \in {"dirty", "preparing"}
           /\ z = MergeWithLocal(r, answer.file)
  BY <1>5, <1>6, <1>9, MergeWithLocalOrderly
<1> QED BY <1>3, <1>4, <1>5, <1>7, <1>8, <1>9, ContinueSynchronizationOrderly

\* A merge ends.
LEMMA MergeFinishedOrderly ==
  ASSUME NEW s, Orderly(s), s.merge # None, NEW outcome,
         MergesFirst(MergeFinished(s, outcome))
  PROVE  Orderly(MergeFinished(s, outcome))
<1> DEFINE m == s.merge
           d == Deactivate(s, "merge")
           r == [d EXCEPT !.merge = None]
           observed == Durable([m.local EXCEPT !.text = m.external.text],
                               m.external.inode)
           revision == [number |-> s.source.number + 1, text |-> outcome]
           merged == [r EXCEPT !.source = revision,
                               !.local = Dirty(0), !.issue = None]
           u == [r EXCEPT !.unresolvedDisplaced = m.origin.continuation]
           p == [r EXCEPT !.signalPending = TRUE]
           o == [merged EXCEPT !.baseline = observed]
           cleanup == [records |-> m.origin.records,
                       target |-> m.origin.target,
                       purpose |-> "discardResolvedDisplacedPreimage",
                       min |-> s.source.number + 1]
           c == [merged EXCEPT !.unresolvedDisplaced = None,
                               !.cleanup = cleanup]
           z == MergeFinished(s, outcome)
<1>1. Resembles(s, d) /\ Orderly(d)
  BY DeactivateAlike, AlikeIsOrderly DEF Resembles, Orderly, Operations
<1>2. \/ z = Refuse(u, "recovery")
      \/ z = ContinueSynchronization(p)
      \/ z = ContinueSynchronization(o)
      \/ z = FailRecovery(merged)
      \/ z = ContinueSynchronization(c)
      \/ z = PersistLocalConflict(r, m.external, m.local.text)
      \/ z = PersistDisplacedConflict(r, m)
  BY DEF MergeFinished, u, p, o, c, merged, r, d, observed, revision, cleanup
<1>3. MergesFirst(z)
  OBVIOUS
<1> SUFFICES Orderly(z)
  OBVIOUS
<1>4. ~Saving(s) /\ CommitsOf(s) = {}
  BY NotSavingNoCommit DEF Orderly, SavesAlone
<1>5. CommitsOf(d) = {}
  BY <1>1, <1>4 DEF Resembles, Alike
<1>6. cleanup.purpose = "discardResolvedDisplacedPreimage"
      /\ "purpose" \in DOMAIN cleanup
  OBVIOUS
<1> HIDE DEF d, z, observed, revision, cleanup
<1>7. Resembles(d, r) /\ Orderly(r)
  <2>1. Resembles(d, r)
    BY <1>1 DEF Orderly, Formed, Fields, Resembles, Alike, CommitsOf
  <2> QED BY <1>1, <2>1, AlikeIsOrderly DEF Resembles
<1>8. CommitsOf(r) = {}
  BY <1>5, <1>7 DEF Resembles, Alike
<1> HIDE DEF r
<1>9. Orderly(u) /\ Orderly(p)
  <2>1. Resembles(r, u) /\ Resembles(r, p)
    BY <1>7 DEF Orderly, Formed, Fields, Resembles, Alike, CommitsOf
  <2> QED BY <1>7, <2>1, AlikeIsOrderly DEF Resembles
<1>10. /\ DOMAIN merged = Fields /\ merged.active = r.active
       /\ merged.effects = r.effects /\ merged.cleanup = r.cleanup
       /\ merged.local = Dirty(0)
  BY <1>7 DEF Orderly, Formed, Fields
<1> HIDE DEF merged
<1>11. Orderly(merged) /\ CommitsOf(merged) = {}
  BY <1>7, <1>8, <1>10, Settled DEF Orderly, CommitsOf
<1>12. Orderly(o)
  <2>1. Resembles(merged, o)
    BY <1>11 DEF Orderly, Formed, Fields, Resembles, Alike, CommitsOf
  <2> QED BY <1>11, <2>1, AlikeIsOrderly DEF Resembles
<1>13. Orderly(c)
  <2>1. /\ DOMAIN c = Fields /\ c.active = merged.active
        /\ c.effects = merged.effects /\ c.cleanup = cleanup
        /\ c.local = Dirty(0)
    BY <1>10, <1>11 DEF Orderly, Formed, Fields
  <2> HIDE DEF c
  <2>2. Formed(c) /\ ~Saving(c) /\ CommitsOf(c) = {}
    BY <1>6, <1>11, <2>1 DEF Orderly, Formed, Saving, CommitsOf, Dirty
  <2> QED BY <2>2, SettledIsOrderly
<1> HIDE DEF u, p, o, c, m
<1>14. CASE z = Refuse(u, "recovery")
  BY <1>9, <1>14, RefuseAlike, AlikeIsOrderly DEF Orderly
<1>15. CASE z = FailRecovery(merged)
  BY <1>11, <1>15, FailRecoveryOrderly DEF Orderly
<1>16. CASE \/ z = PersistLocalConflict(r, m.external, m.local.text)
            \/ z = PersistDisplacedConflict(r, m)
  BY <1>7, <1>8, <1>16, PersistLocalConflictOrderly,
     PersistDisplacedConflictOrderly
<1>17. CASE \/ z = ContinueSynchronization(p)
            \/ z = ContinueSynchronization(o)
            \/ z = ContinueSynchronization(c)
  BY <1>3, <1>9, <1>12, <1>13, <1>17, ContinueSynchronizationOrderly
<1> QED BY <1>2, <1>14, <1>15, <1>16, <1>17

\* The file monitor fails.
LEMMA MonitorFailedAlike ==
  ASSUME NEW s, Formed(s)
  PROVE  Resembles(s, MonitorFailed(s))
BY DEF Formed, Fields, MonitorFailed, Deactivate, Resembles, Alike, CommitsOf,
   Operations

-----------------------------------------------------------------------------
(* Recovery results.                                                       *)

\* A change of the cleanup that is left.
Recleans(s, r) ==
  /\ DOMAIN r = Fields /\ r.active = s.active /\ r.effects = s.effects
  /\ r.local = s.local /\ r.merge = s.merge /\ r.uncertain = s.uncertain
  /\ r.recovery = s.recovery
  /\ r.pendingDisplaced \in {s.pendingDisplaced, None}
  /\ r.cleanup # None =>
       /\ "purpose" \in DOMAIN r.cleanup
       /\ r.cleanup.purpose # "persistDisplacedPreimage"

\* The order of saves does not depend on which cleanup waits.
LEMMA RecleansOrderly ==
  ASSUME NEW s, Orderly(s), NEW r, Recleans(s, r)
  PROVE  Orderly(r)
<1>1. Formed(r) /\ WritesCommit(r)
  BY DEF Orderly, Formed, WritesCommit, CommitsOf, Recleans
<1>2. SavesAlone(r)
  BY DEF Orderly, SavesAlone, Saving, StoresDisplaced, Recleans
<1> QED BY <1>1, <1>2 DEF Orderly

\* Loaded records make no new cleanup, they complete the one that waits.
LEMMA CarryCleanupRecleans ==
  ASSUME NEW s, Orderly(s), NEW records
  PROVE  Recleans(s, CarryCleanup(s, records))
<1>1. CASE s.cleanup = None
  BY <1>1 DEF CarryCleanup, Recleans, Orderly, Formed
<1>2. CASE s.cleanup # None
  <2> DEFINE c == [s.cleanup EXCEPT !.records = records]
             q == [s EXCEPT !.cleanup = c]
  <2>1. CarryCleanup(s, records) = q
    BY <1>2 DEF CarryCleanup, Orderly, Formed, Fields
  <2>2. "purpose" \in DOMAIN c /\ c.purpose # "persistDisplacedPreimage"
    BY <1>2 DEF Orderly, Formed
  <2> HIDE DEF c
  <2>3. Recleans(s, q)
    BY <2>2 DEF Orderly, Formed, Fields, Recleans
  <2> QED BY <2>1, <2>3
<1> QED BY <1>1, <1>2

\* The recovery records are loaded.
LEMMA RecoveryLoadedOrderly ==
  ASSUME NEW s, Orderly(s), NEW records, MergesFirst(RecoveryLoaded(s, records))
  PROVE  Orderly(RecoveryLoaded(s, records))
<1> DEFINE d == Deactivate(s, "recovery")
           s1 == [d EXCEPT !.access = "ready"]
           s2 == IF s1.active["monitor"] = 0 THEN StartMonitor(s1) ELSE s1
           f == [s2 EXCEPT !.access = "failed", !.issue = "recovery"]
           c == CarryCleanup(s2, records)
           n == [c EXCEPT !.recovery = RecoveryOf(records)]
           z == RecoveryLoaded(s, records)
<1>1. z \in {f, ContinueSynchronization(n)}
  BY DEF RecoveryLoaded, f, n, c, s2, s1, d
<1>2. MergesFirst(z)
  OBVIOUS
<1> SUFFICES Orderly(z)
  OBVIOUS
<1>3. Resembles(s, d) /\ Orderly(d)
  BY DeactivateAlike, AlikeIsOrderly DEF Resembles, Orderly, Operations
<1> HIDE DEF d, z
<1>4. Orderly(s1)
  <2>1. Resembles(d, s1)
    BY <1>3 DEF Orderly, Formed, Fields, Resembles, Alike, CommitsOf
  <2> QED BY <1>3, <2>1, AlikeIsOrderly DEF Resembles
<1> HIDE DEF s1
<1>5. Orderly(s2)
  BY <1>4, StartMonitorAlike, AlikeIsOrderly DEF Resembles, Orderly
<1> HIDE DEF s2
<1>6. Orderly(f)
  <2>1. Resembles(s2, f)
    BY <1>5 DEF Orderly, Formed, Fields, Resembles, Alike, CommitsOf
  <2> QED BY <1>5, <2>1, AlikeIsOrderly DEF Resembles
<1>7. Orderly(c)
  BY <1>5, CarryCleanupRecleans, RecleansOrderly
<1> HIDE DEF c, f
<1>8. Orderly(n)
  <2>1. /\ DOMAIN n = Fields /\ n.active = c.active /\ n.effects = c.effects
        /\ n.local = c.local /\ n.cleanup = c.cleanup /\ n.merge = c.merge
        /\ n.uncertain = c.uncertain
        /\ n.pendingDisplaced = c.pendingDisplaced
        /\ n.recovery = RecoveryOf(records)
    BY <1>7 DEF Orderly, Formed, Fields
  <2> HIDE DEF n
  <2>2. Formed(n) /\ WritesCommit(n)
    BY <1>7, <2>1 DEF Orderly, Formed, WritesCommit, CommitsOf
  <2>3. SavesAlone(n)
    BY <1>7, <2>1, RecoveryOfIsAtRest DEF Orderly, SavesAlone,
       StoresDisplaced, Saving
  <2> QED BY <2>2, <2>3 DEF Orderly
<1> HIDE DEF n
<1> QED BY <1>1, <1>2, <1>6, <1>8, ContinueSynchronizationOrderly

\* The loser of a conflict is stored.
LEMMA ConflictPersistedOrderly ==
  ASSUME NEW s, Orderly(s), NEW attempt \in AnyAttempt, NEW records
  PROVE  Orderly(ConflictPersisted(s, attempt, records))
<1> DEFINE n == CleanupAfterPersist(s, attempt, records)
           q == [s EXCEPT !.pendingConflict = None, !.cleanup = n]
<1>1. attempt.cleanup = None
      \/ attempt.cleanup.purpose # "persistDisplacedPreimage"
  BY DEF AnyAttempt, ConflictAttempts, DisplacedAttempts, DiscardAttempts,
     Plans, DiscardPurposes
<1>2. n # None => /\ "purpose" \in DOMAIN n
                  /\ n.purpose # "persistDisplacedPreimage"
  BY <1>1 DEF CleanupAfterPersist
<1> HIDE DEF n
<1>3. Recleans(s, q)
  BY <1>2 DEF Orderly, Formed, Fields, Recleans
<1>4. ConflictPersisted(s, attempt, records) = q
  BY DEF ConflictPersisted, n
<1> HIDE DEF q
<1> QED BY <1>3, <1>4, RecleansOrderly

\* Records are discarded.
LEMMA DiscardedOrderly ==
  ASSUME NEW s, Orderly(s), NEW attempt, NEW records
  PROVE  Orderly(Discarded(s, attempt, records))
<1> DEFINE c == AfterDiscardCleanup(s, attempt, records)
           u == [c EXCEPT !.unresolvedDisplaced = None]
           n == [s EXCEPT !.cleanup = None]
<1>1. c \in {s, n, CarryCleanup(s, records)}
  BY DEF AfterDiscardCleanup
<1>2. Orderly(n)
  <2>1. Recleans(s, n)
    BY DEF Orderly, Formed, Fields, Recleans
  <2> QED BY <2>1, RecleansOrderly
<1>3. Discarded(s, attempt, records) \in {c, u}
  BY DEF Discarded, ClearUnresolved, c, u
<1> HIDE DEF c, n
<1>4. Orderly(c)
  BY <1>1, <1>2, CarryCleanupRecleans, RecleansOrderly
<1>5. Alike(c, u)
  BY <1>4 DEF Orderly, Formed, Fields, Alike, CommitsOf
<1> HIDE DEF u
<1> QED BY <1>3, <1>4, <1>5, AlikeIsOrderly

\* The baseline becomes what the commit wrote.
LEMMA ApplyCommittedBaselineAlike ==
  ASSUME NEW s, Formed(s), NEW continuation
  PROVE  Resembles(s, ApplyCommittedBaseline(s, continuation))
<1>1. Resembles(s, s)
      /\ Resembles(s, [s EXCEPT !.baseline = continuation.committed])
  BY DEF Formed, Fields, Resembles, Alike, CommitsOf
<1> QED BY <1>1 DEF ApplyCommittedBaseline

\* The displaced bytes are durable: no save is under way, and the merge that
\* may follow is alone.
LEMMA RawRecoveryPersistedOrderly ==
  ASSUME NEW s, Orderly(s), StoresDisplaced(s), NEW records, NEW decodes,
         MergesFirst(RawRecoveryPersisted(s, records, decodes))
  PROVE  Orderly(RawRecoveryPersisted(s, records, decodes))
<1> DEFINE attempt == s.recovery.attempt
           c == attempt.continuation
           p == [s EXCEPT !.pendingDisplaced = None,
                          !.unresolvedDisplaced = c]
           s1 == CarryCleanup(p, records)
           d == Deactivate(s1, "recovery")
           e == [d EXCEPT !.access = "ready", !.recovery = Available(records)]
           s2 == ApplyCommittedBaseline(e, c)
           s3 == IF s2.merge # None /\ s2.merge.baseline # c.committed
                 THEN InvalidateMerge(s2) ELSE s2
           s4 == [s3 EXCEPT
                    !.unresolvedDisplaced = c,
                    !.local = IF c.committed = Rebased(c.committed, c.localRev)
                              THEN Clean ELSE Dirty(0),
                    !.issue = IF @ \in {"localSave", "closeDeadline"}
                              THEN None ELSE @]
           m == [token |-> 0, baseline |-> c.committed,
                 base |-> c.mergeBase, local |-> c.localRev,
                 external |-> [text |-> c.text, inode |-> 0],
                 origin |-> [records |-> records,
                             target |-> RawTarget({attempt.entry}),
                             continuation |-> c]]
           z == RawRecoveryPersisted(s, records, decodes)
<1>1. \/ z = FailRecovery(s)
      \/ z = FinishRecoveryMutation(s1, records)
      \/ z = ResumeRecoveryCleanup(s2) /\ s2.cleanup # None
      \/ z \in {Refuse(s2, "recovery"), Refuse(s4, "recovery")}
      \/ z = StartMerge(s4, m)
  BY DEF RawRecoveryPersisted, CanResumeIndependentCleanup, CanResumeCleanup
<1>2. MergesFirst(z)
  OBVIOUS
<1> SUFFICES Orderly(z)
  OBVIOUS
<1> HIDE DEF z, m, c
<1>3. ~Saving(s) /\ CommitsOf(s) = {}
  BY NotSavingNoCommit DEF Orderly, SavesAlone
<1>4. Alike(s, p) /\ Orderly(p) /\ p.local = s.local /\ CommitsOf(p) = {}
  <2>1. Alike(s, p)
    BY DEF Orderly, Formed, Fields, Alike, CommitsOf
  <2> QED BY <1>3, <2>1, AlikeIsOrderly DEF Alike
<1> HIDE DEF p
<1>5. Orderly(s1) /\ s1.local = s.local /\ CommitsOf(s1) = {}
  BY <1>4, CarryCleanupRecleans, RecleansOrderly DEF Recleans, CommitsOf
<1> HIDE DEF s1
<1>6. Orderly(d) /\ d.local = s.local /\ CommitsOf(d) = {}
  BY <1>5, DeactivateAlike, AlikeIsOrderly DEF Resembles, Alike, Orderly,
     Operations
<1> HIDE DEF d
<1>7. Orderly(e) /\ e.local = s.local /\ CommitsOf(e) = {}
  <2>1. /\ DOMAIN e = Fields /\ e.active = d.active /\ e.effects = d.effects
        /\ e.cleanup = d.cleanup /\ e.local = d.local
    BY <1>6 DEF Orderly, Formed, Fields
  <2> HIDE DEF e
  <2> QED BY <1>3, <1>6, <2>1, Settled DEF Orderly, CommitsOf, Saving
<1> HIDE DEF e
<1>8. Orderly(s2) /\ s2.local = s.local /\ CommitsOf(s2) = {}
  BY <1>7, ApplyCommittedBaselineAlike, AlikeIsOrderly
     DEF Resembles, Alike, Orderly
<1> HIDE DEF s2
<1>9. Orderly(s3) /\ CommitsOf(s3) = {}
  BY <1>8, InvalidateMergeAlike, AlikeIsOrderly DEF Resembles, Alike, Orderly
<1> HIDE DEF s3
<1>10. Orderly(s4) /\ ~Saving(s4)
  <2>1. /\ DOMAIN s4 = Fields /\ s4.active = s3.active
        /\ s4.effects = s3.effects
        /\ s4.cleanup = s3.cleanup /\ s4.local \in {Clean, Dirty(0)}
    BY <1>9 DEF Orderly, Formed, Fields
  <2> HIDE DEF s4
  <2> QED BY <1>9, <2>1, Settled DEF Orderly
<1> HIDE DEF s4
<1>11. CASE z \in {Refuse(s2, "recovery"), Refuse(s4, "recovery")}
  BY <1>8, <1>10, <1>11, RefuseAlike, AlikeIsOrderly DEF Orderly
<1>12. CASE z = FailRecovery(s)
  BY <1>12, FailRecoveryOrderly DEF Orderly
<1>13. CASE z = FinishRecoveryMutation(s1, records)
  BY <1>2, <1>5, <1>13, FinishRecoveryMutationOrderly
<1>14. CASE z = StartMerge(s4, m)
  BY <1>10, <1>14, StartMergeOrderly
<1>15. CASE z = ResumeRecoveryCleanup(s2) /\ s2.cleanup # None
  BY <1>8, <1>15, ResumeRecoveryCleanupOrderly
<1> QED BY <1>1, <1>11, <1>12, <1>13, <1>14, <1>15

\* The recovery store answers a change.
LEMMA MutationFinishedOrderly ==
  ASSUME NEW s, Orderly(s), s.recovery.kind = "persisting",
         s.recovery.attempt \in AnyAttempt, NEW records, NEW decodes,
         MergesFirst(MutationFinished(s, records, decodes))
  PROVE  Orderly(MutationFinished(s, records, decodes))
<1> DEFINE attempt == s.recovery.attempt
           d == Discarded(s, attempt, records)
           p == ConflictPersisted(s, attempt, records)
           z == MutationFinished(s, records, decodes)
<1>1. \/ z = FinishRecoveryMutation(d, records)
      \/ z = s
      \/ z = FinishRecoveryMutation(p, records)
      \/ /\ attempt.purpose # "persistConflict" /\ attempt.discard = None
         /\ z = RawRecoveryPersisted(s, records, decodes)
  BY DEF MutationFinished, Persisted
<1>2. MergesFirst(z)
  OBVIOUS
<1> SUFFICES Orderly(z)
  OBVIOUS
<1>3. Orderly(d) /\ Orderly(p)
  BY DiscardedOrderly, ConflictPersistedOrderly
<1>4. attempt.purpose # "persistConflict" /\ attempt.discard = None
        => StoresDisplaced(s)
  BY AttemptKinds DEF StoresDisplaced
<1> HIDE DEF z, d, p, attempt
<1> QED BY <1>1, <1>2, <1>3, <1>4, FinishRecoveryMutationOrderly,
     RawRecoveryPersistedOrderly

\* The recovery store says what it holds after a failed change.
LEMMA ReconciledOrderly ==
  ASSUME NEW s, Orderly(s), s.recovery.kind = "persisting",
         s.recovery.attempt \in AnyAttempt, NEW records,
         MergesFirst(Reconciled(s, records))
  PROVE  Orderly(Reconciled(s, records))
<1> DEFINE attempt == s.recovery.attempt
           d == Discarded(s, attempt, records)
           p == ConflictPersisted(s, attempt, records)
           x == [s EXCEPT !.pendingDisplaced = None,
                          !.unresolvedDisplaced = attempt.continuation]
           restored == CarryCleanup(x, records)
           a == ApplyCommittedBaseline(restored, attempt.continuation)
           v == Deactivate(s, "recovery")
           restarted == [v EXCEPT !.access = "ready"]
           z == Reconciled(s, records)
<1>1. \/ z = s
      \/ z = FinishRecoveryMutation(s, records)
      \/ z = FinishRecoveryMutation(d, records)
      \/ z = FinishRecoveryMutation(p, records)
      \/ z = FailRecovery(s)
      \/ z = FinishRecoveryMutation(a, records)
      \/ /\ attempt.purpose = "persistDisplacedPreimage"
         /\ z = StartDisplacedPersistence(restarted, attempt.continuation)
  BY DEF Reconciled
<1>2. MergesFirst(z)
  OBVIOUS
<1> SUFFICES Orderly(z)
  OBVIOUS
<1>3. Orderly(d) /\ Orderly(p)
  BY DiscardedOrderly, ConflictPersistedOrderly
<1>4. Alike(s, x)
  BY DEF Orderly, Formed, Fields, Alike, CommitsOf
<1>5. Resembles(s, v)
  BY DeactivateAlike DEF Orderly, Operations
<1>6. attempt.purpose = "persistDisplacedPreimage" => ~Saving(s)
  BY DEF Orderly, SavesAlone, StoresDisplaced
<1> HIDE DEF z, d, p, x, v, attempt
<1>7. Orderly(restored)
  BY <1>4, AlikeIsOrderly, CarryCleanupRecleans, RecleansOrderly
<1> HIDE DEF restored
<1>8. Orderly(a)
  BY <1>7, ApplyCommittedBaselineAlike, AlikeIsOrderly DEF Resembles, Orderly
<1>9. Orderly(restarted) /\ restarted.local = s.local
  <2>1. Orderly(v) /\ v.local = s.local
    BY <1>5, AlikeIsOrderly DEF Resembles, Alike
  <2>2. Resembles(v, restarted)
    BY <2>1 DEF Orderly, Formed, Fields, Resembles, Alike, CommitsOf
  <2> HIDE DEF restarted
  <2> QED BY <2>1, <2>2, AlikeIsOrderly DEF Resembles, Alike
<1> HIDE DEF a, restarted
<1>10. CASE /\ attempt.purpose = "persistDisplacedPreimage"
            /\ z = StartDisplacedPersistence(restarted, attempt.continuation)
  BY <1>6, <1>9, <1>10, StartDisplacedPersistenceOrderly DEF Saving
<1>11. CASE z = FailRecovery(s)
  BY <1>11, FailRecoveryOrderly DEF Orderly
<1>12. CASE \/ z = FinishRecoveryMutation(s, records)
            \/ z = FinishRecoveryMutation(d, records)
            \/ z = FinishRecoveryMutation(p, records)
            \/ z = FinishRecoveryMutation(a, records)
  BY <1>2, <1>3, <1>8, <1>12, FinishRecoveryMutationOrderly
<1>13. CASE z = s
  BY <1>13
<1> QED BY <1>1, <1>10, <1>11, <1>12, <1>13

-----------------------------------------------------------------------------
(* What the user answers, and closing.                                     *)

\* The user retries what failed.
LEMMA RetryOrderly ==
  ASSUME NEW s, Orderly(s), s.issue = "localSave" => s.merge = None,
         MergesFirst(Retry(s))
  PROVE  Orderly(Retry(s))
<1> DEFINE c == [s EXCEPT !.issue = None]
           z == Retry(s)
<1>1. \/ z = s
      \/ z = StartCommitReconciliation(c) /\ s.uncertain # None
      \/ z = StartRecoveryReconciliation(c)
      \/ z = StartRecoveryLoad(c)
      \/ /\ s.pendingDisplaced # None
         /\ z = StartDisplacedPersistence(c, s.pendingDisplaced)
      \/ s.issue = "localSave" /\ z = ScheduleLocalSave(c)
      \/ z = ScheduleExternalRead(c)
      \/ z = ScheduleExternalRead(StartMonitor(c))
      \/ z = ContinueSynchronization(c)
  BY DEF Retry
<1>2. MergesFirst(z)
  OBVIOUS
<1> SUFFICES Orderly(z)
  OBVIOUS
<1>3. Resembles(s, c) /\ c.merge = s.merge
      /\ c.pendingDisplaced = s.pendingDisplaced
  BY DEF Orderly, Formed, Fields, Resembles, Alike, CommitsOf
<1> HIDE DEF c, z
<1>4. Orderly(c)
  BY <1>3, AlikeIsOrderly DEF Resembles
<1>5. CASE z = StartCommitReconciliation(c) /\ s.uncertain # None
  <2>1. ~Saving(c)
    BY <1>3, <1>5 DEF Resembles, Alike, Orderly, SavesAlone, Saving
  <2> QED BY <1>4, <1>5, <2>1, StartCommitReconciliationOrderly
<1>6. CASE /\ s.pendingDisplaced # None
           /\ z = StartDisplacedPersistence(c, s.pendingDisplaced)
  <2>1. ~Saving(c)
    BY <1>3, <1>6 DEF Resembles, Alike, Orderly, SavesAlone, Saving
  <2> QED BY <1>4, <1>6, <2>1, StartDisplacedPersistenceOrderly
<1>7. CASE \/ z = StartRecoveryReconciliation(c)
           \/ z = StartRecoveryLoad(c)
           \/ z = ScheduleExternalRead(c)
  BY <1>4, <1>7, StartRecoveryReconciliationAlike, StartRecoveryLoadAlike,
     ScheduleExternalReadAlike, AlikeIsOrderly DEF Resembles, Orderly
<1>8. CASE z = ScheduleExternalRead(StartMonitor(c))
  <2>1. Orderly(StartMonitor(c))
    BY <1>4, StartMonitorAlike, AlikeIsOrderly DEF Resembles, Orderly
  <2> QED BY <1>8, <2>1, ScheduleExternalReadAlike, AlikeIsOrderly
       DEF Resembles, Orderly
<1>9. CASE s.issue = "localSave" /\ z = ScheduleLocalSave(c)
  BY <1>3, <1>4, <1>9, ScheduleLocalSaveOrderly
<1>10. CASE z = ContinueSynchronization(c)
  BY <1>2, <1>4, <1>10, ContinueSynchronizationOrderly
<1>11. CASE z = s
  BY <1>11
<1> QED BY <1>1, <1>5, <1>6, <1>7, <1>8, <1>9, <1>10, <1>11

\* The user restores a record.
LEMMA RestoreOrderly ==
  ASSUME NEW s, Orderly(s), CanRestore(s),
         MergesFirst(RestoreLocalRecovery(s))
  PROVE  Orderly(RestoreLocalRecovery(s))
<1> DEFINE entry == Head(s.recovery.records.decoded)
           number == s.source.number + 1
           cleanup == [records |-> s.recovery.records,
                       target |-> DecodedTarget(entry),
                       purpose |-> "discardRestoredRecords", min |-> number]
           q == [s EXCEPT !.source = [number |-> number, text |-> entry.text],
                          !.local = Dirty(0), !.issue = None,
                          !.cleanup = cleanup]
<1>1. RestoreLocalRecovery(s) = ContinueSynchronization(q)
  BY DEF RestoreLocalRecovery
<1>2. CommitsOf(s) = {}
  BY NotWritingNoCommit DEF CanRestore
<1>3. "purpose" \in DOMAIN cleanup
      /\ cleanup.purpose # "persistDisplacedPreimage"
  OBVIOUS
<1> HIDE DEF entry, number, cleanup
<1>4. /\ DOMAIN q = Fields /\ q.active = s.active /\ q.effects = s.effects
      /\ q.cleanup = cleanup /\ q.local = Dirty(0)
  BY DEF Orderly, Formed, Fields
<1> HIDE DEF q
<1>5. Formed(q) /\ ~Saving(q) /\ CommitsOf(q) = {}
  BY <1>2, <1>3, <1>4 DEF Orderly, Formed, Saving, Dirty, CommitsOf
<1> QED BY <1>1, <1>5, SettledIsOrderly, ContinueSynchronizationOrderly

\* The user discards the records that do not decode.
LEMMA DiscardRawOrderly ==
  ASSUME NEW s, Orderly(s)
  PROVE  Orderly(DiscardRawRecovery(s))
BY StartRecoveryDiscardOrderly DEF DiscardRawRecovery

\* The user closes the document.
LEMMA RequestCloseOrderly ==
  ASSUME NEW s, Orderly(s), MergesFirst(RequestClose(s))
  PROVE  Orderly(RequestClose(s))
<1> DEFINE p == Start(s, "closeDeadline", "close", None)
           q == [p EXCEPT !.lifecycle = "closing"]
<1>1. Resembles(s, p) /\ Orderly(p)
  BY StartAlike, AlikeIsOrderly DEF Resembles, Orderly, Operations
<1>2. RequestClose(s) = ProgressManagedClose(q)
  BY DEF RequestClose
<1> HIDE DEF p
<1>3. Alike(p, q) /\ q.lifecycle = "closing"
  BY <1>1 DEF Orderly, Formed, Fields, Alike, CommitsOf
<1> HIDE DEF q
<1> QED BY <1>1, <1>2, <1>3, AlikeIsOrderly, ProgressManagedCloseOrderly

\* The close takes too long.
LEMMA CloseDeadlineOrderly ==
  ASSUME NEW s, Orderly(s)
  PROVE  Orderly(CloseDeadlineFired(s))
<1> DEFINE w == InvalidateAutomatedWork(s)
           r == CancelAllDeadlines(w)
           f == [r EXCEPT !.access = "failed"]
           l == [r EXCEPT !.access = "loading",
                          !.recovery = IF @.kind = "persisting"
                                       THEN Clear ELSE @]
           reset == CASE s.active["recovery"] = 0 -> r
                 [] s.active["recovery"] # 0 /\ r.barrier -> f
                 [] s.active["recovery"] # 0 /\ ~r.barrier -> l
           v == StartMonitor(reset)
           q == [v EXCEPT !.issue = "closeDeadline", !.lifecycle = "active"]
<1>1. CloseDeadlineFired(s) = q
  BY DEF CloseDeadlineFired
<1>2. reset \in {r, f, l}
  OBVIOUS
<1>3. Orderly(w)
  BY InvalidateAutomatedWorkOrderly DEF Orderly
<1> HIDE DEF w, q, v, reset
<1>4. Orderly(r)
  BY <1>3, CancelAllDeadlinesAlike, AlikeIsOrderly DEF Resembles, Orderly
<1> HIDE DEF r
<1>5. Orderly(f)
  <2>1. Alike(r, f)
    BY <1>4 DEF Orderly, Formed, Fields, Alike, CommitsOf
  <2> QED BY <1>4, <2>1, AlikeIsOrderly
<1>6. Orderly(l)
  <2>1. /\ DOMAIN l = Fields /\ l.active = r.active /\ l.effects = r.effects
        /\ l.local = r.local /\ l.cleanup = r.cleanup /\ l.merge = r.merge
        /\ l.uncertain = r.uncertain
        /\ l.pendingDisplaced = r.pendingDisplaced
        /\ l.recovery \in {r.recovery, Clear}
    BY <1>4 DEF Orderly, Formed, Fields
  <2> HIDE DEF l
  <2>2. Formed(l) /\ WritesCommit(l)
    BY <1>4, <2>1 DEF Orderly, Formed, WritesCommit, CommitsOf
  <2>3. SavesAlone(l)
    BY <1>4, <2>1 DEF Orderly, SavesAlone, StoresDisplaced, Saving, Clear
  <2> QED BY <2>2, <2>3 DEF Orderly
<1> HIDE DEF f, l
<1>7. Orderly(v)
  BY <1>2, <1>4, <1>5, <1>6, StartMonitorAlike, AlikeIsOrderly
     DEF Resembles, Orderly, v
<1>8. Alike(v, q)
  BY <1>7 DEF Orderly, Formed, Fields, Alike, CommitsOf, q
<1> QED BY <1>1, <1>7, <1>8, AlikeIsOrderly

\* The host has closed the document.
LEMMA CloseCommittedOrderly ==
  ASSUME NEW s, Orderly(s), s.local.kind # "writing"
  PROVE  Orderly(CloseCommitted(s))
<1> DEFINE r == CloseCommitted(s)
<1>1. /\ DOMAIN r = Fields /\ DOMAIN r.active = Operations
      /\ r.local = s.local /\ r.cleanup = s.cleanup /\ r.merge = None
      /\ r.uncertain = s.uncertain /\ r.recovery = s.recovery
      /\ r.pendingDisplaced = s.pendingDisplaced
  BY DEF Orderly, Formed, Fields, CloseCommitted
<1>2. CommitsOf(r) \subseteq CommitsOf(s)
  BY DEF Orderly, Formed, Fields, CloseCommitted, CommitsOf
<1>3. CommitsOf(r) = {}
  BY <1>2, NotWritingNoCommit
<1> SUFFICES Orderly(r)
  OBVIOUS
<1> HIDE DEF r
<1>4. Formed(r)
  BY <1>1 DEF Orderly, Formed
<1>5. SavesAlone(r)
  BY <1>1 DEF Orderly, SavesAlone, StoresDisplaced, Saving
<1> QED BY <1>3, <1>4, <1>5 DEF Orderly, WritesCommit

\* The host cancels the close.
LEMMA CloseCancelledAlike ==
  ASSUME NEW s, Formed(s)
  PROVE  Alike(s, CloseCancelled(s))
BY DEF Formed, Fields, CloseCancelled, Deactivate, Alike, CommitsOf,
   Operations

-----------------------------------------------------------------------------
(* The events of the coordinator.                                         *)

\* What remains when an effect has been delivered.
LEMMA WithoutOrderly ==
  ASSUME NEW s, Orderly(s), NEW e \in s.effects
  PROVE  LET t == Without(s, e) IN
         /\ Orderly(t)
         /\ t.local = s.local /\ t.active = s.active /\ t.merge = s.merge
         /\ e.kind = "commit" => CommitsOf(t) = {}
<1> DEFINE t == Without(s, e)
<1>1. /\ DOMAIN t = Fields /\ t.active = s.active /\ t.local = s.local
      /\ t.cleanup = s.cleanup /\ t.merge = s.merge
      /\ t.uncertain = s.uncertain /\ t.recovery = s.recovery
      /\ t.pendingDisplaced = s.pendingDisplaced
      /\ t.effects = s.effects \ {e}
  BY DEF Orderly, Formed, Fields, Without
<1> HIDE DEF t
<1>2. CommitsOf(t) = CommitsOf(s) \ {e}
  BY <1>1 DEF CommitsOf
<1>3. Formed(t)
  BY <1>1 DEF Orderly, Formed
<1>4. SavesAlone(t)
  BY <1>1 DEF Orderly, SavesAlone, Saving, StoresDisplaced
<1>5. WritesCommit(t)
  BY <1>1, <1>2 DEF Orderly, WritesCommit
<1>6. e.kind = "commit" => CommitsOf(t) = {}
  BY <1>2 DEF Orderly, WritesCommit, CommitsOf
<1> QED BY <1>1, <1>3, <1>4, <1>5, <1>6 DEF Orderly, t

\* The state that a delivery leaves keeps the order if the handler does.
LEMMA ReceiveOrderly ==
  ASSUME IInv, Orderly(sync), NEW e \in sync.effects, NEW next,
         Receive(e, next), MergesFirst(sync'),
         LET t == Without(sync, e) IN
         /\ Orderly(t) /\ Sound(t) /\ t.active[e.op] = e.token
         /\ t.lifecycle # "closed" /\ MergesFirst(next)
         => Orderly(next)
  PROVE  Orderly(sync')
<1> DEFINE t == Without(sync, e)
<1>1. Orderly(t) /\ Sound(t)
  BY WithoutOrderly, WithoutKeeps DEF IInv, Nearly, Calm
<1>2. \/ sync' = t
      \/ t.lifecycle # "closed" /\ t.active[e.op] = e.token /\ sync' = next
  BY ReceiveLeaves
<1> HIDE DEF t
<1> QED BY <1>1, <1>2 DEF t

\* The user edits.
LEMMA EditOrderly ==
  ASSUME IInv, Orderly(sync), Edit, MergesFirst(sync')
  PROVE  Orderly(sync')
<1>1. PICK a \in UserAtoms :
        LET text == sync.source.text IN
        sync' = SourceChanged(sync, (text \ {a}) \cup ({a} \ text))
  BY DEF Edit
<1> DEFINE text == (sync.source.text \ {a}) \cup ({a} \ sync.source.text)
<1>2. sync' = SourceChanged(sync, text)
  BY <1>1
<1> HIDE DEF text
<1> QED BY <1>2, SourceChangedOrderly

\* The requests of the user and of the host.
LEMMA RequestOrderly ==
  ASSUME IInv, Orderly(sync), "saveDuringMerge" \notin Requests,
         \/ RequestSave \/ UserRetries \/ UserRestores \/ UserDiscardsRaw
         \/ UserCloses \/ HostCloses \/ HostCancels \/ MonitorFails,
         MergesFirst(sync')
  PROVE  Orderly(sync')
<1>1. CASE RequestSave
  <2>1. sync.merge = None /\ sync' = SaveRequested(sync)
    BY <1>1 DEF RequestSave, MayAskForSave
  <2> QED BY <2>1, SaveRequestedOrderly
<1>2. CASE UserRetries
  <2>1. /\ sync.issue = "localSave" => sync.merge = None
        /\ sync' = Retry(sync)
    BY <1>2 DEF UserRetries, MayAskForSave
  <2> QED BY <2>1, RetryOrderly
<1>3. CASE UserRestores
  BY <1>3, RestoreOrderly DEF UserRestores
<1>4. CASE UserDiscardsRaw
  BY <1>4, DiscardRawOrderly DEF UserDiscardsRaw
<1>5. CASE UserCloses
  BY <1>5, RequestCloseOrderly DEF UserCloses
<1>6. CASE HostCloses
  <2>1. sync.lifecycle = "allowed" /\ Sound(sync)
    BY <1>6 DEF HostCloses, IInv, Nearly, Calm
  <2>2. sync.local.kind # "writing"
    <3>1. sync.local.kind = "writing" => sync.local.token # 0
      BY DEF Orderly, Formed, Clean, Dirty
    <3> QED BY <2>1, <3>1 DEF Sound, Clean
  <2> QED BY <1>6, <2>2, CloseCommittedOrderly DEF HostCloses
<1>7. CASE HostCancels
  BY <1>7, CloseCancelledAlike, AlikeIsOrderly DEF HostCancels, Orderly
<1>8. CASE MonitorFails
  BY <1>8, MonitorFailedAlike, AlikeIsOrderly
     DEF MonitorFails, Orderly, Resembles
<1> QED BY <1>1, <1>2, <1>3, <1>4, <1>5, <1>6, <1>7, <1>8

\* Deadlines, notices and the preparation of a save.
LEMMA DeadlineOrderly ==
  ASSUME IInv, Orderly(sync), NEW e \in sync.effects, MergesFirst(sync'),
         \/ LocalSaveDeadline(e) \/ ExternalReadDeadline(e)
         \/ CloseDeadline(e) \/ MonitorSignal(e) \/ PrepareSave(e)
  PROVE  Orderly(sync')
<1> DEFINE t == Without(sync, e)
<1>1. e \in Effects
  BY DEF IInv, Nearly, Calm, Sound, States
<1>2. CASE LocalSaveDeadline(e)
  <2> DEFINE n == IF t.local = Dirty(e.token) THEN LocalSaveDeadlineFired(t)
                  ELSE t
  <2>1. e.kind = "localSaveDeadline" /\ Receive(e, n)
    BY <1>2 DEF LocalSaveDeadline
  <2>2. e.op = "savePreparation" /\ e.token \in Nat \ {0}
    BY <1>1, <2>1, EffectParts
  <2>3. Orderly(t) /\ t.active[e.op] = e.token => Orderly(n)
    <3> HIDE DEF t
    <3> QED BY <2>2, LocalSaveDeadlineOrderly
  <2> HIDE DEF n
  <2> QED BY <2>1, <2>3, ReceiveOrderly
<1>3. CASE ExternalReadDeadline(e)
  <2> DEFINE n == IF t.external.kind = "debouncing"
                  THEN ExternalReadDeadlineFired(t) ELSE t
  <2>1. Receive(e, n)
    BY <1>3 DEF ExternalReadDeadline
  <2>2. Orderly(t) => Orderly(n)
    <3> HIDE DEF t
    <3> QED BY ExternalReadDeadlineAlike, AlikeIsOrderly DEF Orderly, Resembles
  <2> HIDE DEF n
  <2> QED BY <2>1, <2>2, ReceiveOrderly
<1>4. CASE CloseDeadline(e)
  <2> DEFINE n == IF t.lifecycle = "closing" THEN CloseDeadlineFired(t)
                  ELSE t
  <2>1. Receive(e, n)
    BY <1>4 DEF CloseDeadline
  <2>2. Orderly(t) => Orderly(n)
    <3> HIDE DEF t
    <3> QED BY CloseDeadlineOrderly
  <2> HIDE DEF n
  <2> QED BY <2>1, <2>2, ReceiveOrderly
<1>5. CASE MonitorSignal(e)
  <2>1. Receive(e, MonitorSignaled(t))
    BY <1>5 DEF MonitorSignal
  <2>2. Orderly(t) => Orderly(MonitorSignaled(t))
    <3> HIDE DEF t
    <3> QED BY MonitorSignaledAlike, AlikeIsOrderly DEF Orderly, Resembles
  <2> QED BY <2>1, <2>2, ReceiveOrderly
<1>6. CASE PrepareSave(e)
  <2>1. /\ e.kind = "prepareSave"
        /\ \/ Receive(e, SavePrepared(t))
           \/ Receive(e, SavePreparationFailed(t))
    BY <1>6 DEF PrepareSave
  <2>2. e.op = "savePreparation" /\ e.token # 0
    BY <1>1, <2>1, EffectParts
  <2>3. Orderly(t) /\ Sound(t) => Orderly(SavePrepared(t))
    <3> HIDE DEF t
    <3> QED BY SavePreparedOrderly DEF Sound, States
  <2>4. Orderly(t) /\ t.active[e.op] = e.token
        => Orderly(SavePreparationFailed(t))
    <3> HIDE DEF t
    <3> QED BY <2>2, SavePreparationFailedOrderly
  <2> QED BY <2>1, <2>3, <2>4, ReceiveOrderly
<1> QED BY <1>2, <1>3, <1>4, <1>5, <1>6

\* A commit has answered, and with it the only commit there was is over.
LEMMA FinishCommitOrderly ==
  ASSUME IInv, Orderly(sync), NEW e \in sync.effects, FinishCommit(e),
         MergesFirst(sync')
  PROVE  Orderly(sync')
<1> DEFINE t == Without(sync, e)
           writing == t.local.kind = "writing"
           r == CommitProvenNotStarted(t, "localSave")
           v == CommitProvenNotStarted(t, "destinationRequiresSaveAs")
           n == CASE e.answer.outcome = "committed" /\ writing
                       /\ t.local.token = e.token ->
                       SaveFinished(t, e.answer)
                  [] e.answer.outcome = "unknown" /\ writing
                       /\ t.local.token = e.token ->
                       EnterUncertainCommitOutcome(t)
                  [] e.answer.outcome = "notStarted" /\ writing -> r
                  [] e.answer.outcome = "requiresSaveAs" /\ writing -> v
                  [] e.answer.outcome = "targetChanged" /\ writing ->
                       IF r.active["monitor"] = 0 THEN r
                       ELSE MonitorSignaled(r)
                  [] OTHER -> t
<1>1. e.kind = "commit" /\ e.answer # None /\ Receive(e, n)
  BY DEF FinishCommit
<1>2. e \in Effects
  BY DEF IInv, Nearly, Calm, Sound, States
<1>3. e.answer.outcome \in CommitOutcomes
  <2>1. e \in Commits
    BY <1>1, <1>2, EffectParts
  <2> QED BY <1>1, <2>1, EffectParts DEF Commits, EffectsOf
<1>4. Orderly(t) /\ Formed(t) /\ CommitsOf(t) = {}
  BY <1>1, WithoutOrderly DEF Orderly
<1>5. MergesFirst(n) => Orderly(n)
  <2> HIDE DEF t
  <2>1. Orderly(r) /\ Orderly(v)
    BY <1>4, CommitProvenNotStartedOrderly
  <2> HIDE DEF r, v
  <2>2. Orderly(MonitorSignaled(r))
    BY <2>1, MonitorSignaledAlike, AlikeIsOrderly DEF Orderly, Resembles
  <2>3. writing /\ MergesFirst(SaveFinished(t, e.answer)) =>
          Orderly(SaveFinished(t, e.answer))
    BY <1>4, SaveFinishedOrderly
  <2>4. Orderly(EnterUncertainCommitOutcome(t))
    BY <1>4, EnterUncertainOrderly
  <2>5. \/ n = SaveFinished(t, e.answer) /\ writing
        \/ n \in {EnterUncertainCommitOutcome(t), r, v, MonitorSignaled(r), t}
    BY <1>3 DEF CommitOutcomes
  <2> HIDE DEF n
  <2> QED BY <1>4, <2>1, <2>2, <2>3, <2>4, <2>5
<1> HIDE DEF n
<1> QED BY <1>1, <1>5, ReceiveOrderly

\* The journal has answered what became of a commit.
LEMMA FinishReconciliationOrderly ==
  ASSUME IInv, Orderly(sync), NEW e \in sync.effects,
         FinishReconciliation(e), MergesFirst(sync')
  PROVE  Orderly(sync')
<1> DEFINE t == Without(sync, e)
           f == CommitReconciliationFinished(t, e.answer)
           n == IF t.uncertain # None /\ t.uncertain.reconciliation = e.token
                THEN f ELSE t
<1>1. e.kind = "reconcileCommit" /\ e.answer # None /\ Receive(e, n)
  BY DEF FinishReconciliation
<1>2. e \in Effects
  BY DEF IInv, Nearly, Calm, Sound, States
<1>3. e.answer.outcome \in {"committed", "notCommitted", "unresolved"}
  <2>1. e \in Reconciliations
    BY <1>1, <1>2, EffectParts
  <2> QED BY <1>1, <2>1 DEF Reconciliations, EffectsOf
<1>4. Orderly(t) /\ Sound(t) /\ MergesFirst(n) => Orderly(n)
  <2> HIDE DEF t
  <2>1. Sound(t) /\ t.uncertain # None => t.uncertain.token # 0
    BY DEF Sound, States, Uncertains
  <2> QED BY <1>3, <2>1, CommitReconciliationFinishedOrderly
<1> HIDE DEF n
<1> QED BY <1>1, <1>4, ReceiveOrderly

\* The file has been read.
LEMMA FinishReadOrderly ==
  ASSUME IInv, Orderly(sync), NEW e \in sync.effects, FinishRead(e),
         MergesFirst(sync')
  PROVE  Orderly(sync')
<1> DEFINE t == Without(sync, e)
           f == ExternalReadFinished(t, e.answer)
           n == IF t.external.kind = "reading" THEN f ELSE t
<1>1. e.kind = "read" /\ e.answer # None /\ Receive(e, n)
  BY DEF FinishRead
<1>2. e \in Effects
  BY DEF IInv, Nearly, Calm, Sound, States
<1>3. e.answer.outcome \in {"failed", "unchanged", "missing", "changed"}
  <2>1. e \in Reads
    BY <1>1, <1>2, EffectParts
  <2> QED BY <1>1, <2>1 DEF Reads, EffectsOf, ReadAnswers
<1>4. Orderly(t) /\ MergesFirst(n) => Orderly(n)
  <2> HIDE DEF t
  <2> QED BY <1>3, ExternalReadFinishedOrderly
<1> HIDE DEF n
<1> QED BY <1>1, <1>4, ReceiveOrderly

\* A merge is done.
LEMMA FinishMergeOrderly ==
  ASSUME IInv, Orderly(sync), NEW e \in sync.effects, FinishMerge(e),
         MergesFirst(sync')
  PROVE  Orderly(sync')
<1> DEFINE t == Without(sync, e)
           m == t.merge
           n(outcome) == IF m # None /\ m.token = e.token
                         THEN MergeFinished(t, outcome) ELSE t
<1>1. PICK outcome \in {Merged(m.base, m.local.text, m.external.text), None} :
        Receive(e, n(outcome))
  BY DEF FinishMerge
<1>2. Orderly(t) /\ MergesFirst(n(outcome)) => Orderly(n(outcome))
  <2> HIDE DEF t
  <2> QED BY MergeFinishedOrderly
<1> HIDE DEF n
<1> QED BY <1>1, <1>2, ReceiveOrderly

\* The recovery store has answered.
LEMMA FinishRecoveryOrderly ==
  ASSUME IInv, Orderly(sync), NEW e \in sync.effects, FinishRecovery(e),
         MergesFirst(sync')
  PROVE  Orderly(sync')
<1> DEFINE t == Without(sync, e)
           records == e.answer.records
           expects == CASE e.kind = "load" ->
                             t.access = "loading" /\ ~t.barrier
                        [] e.kind = "mutate" ->
                             t.recovery = Persisting(e.request)
                        [] e.kind = "reconcile" ->
                             /\ t.access = "loading" /\ t.barrier
                             /\ t.recovery = Persisting(e.request)
           n(decodes) ==
             CASE ~e.answer.ok -> FailRecovery(t)
               [] e.answer.ok /\ ~expects -> t
               [] e.answer.ok /\ expects /\ e.kind = "load" ->
                    RecoveryLoaded(t, records)
               [] e.answer.ok /\ expects /\ e.kind = "mutate" ->
                    MutationFinished(t, records, decodes)
               [] e.answer.ok /\ expects /\ e.kind = "reconcile" ->
                    Reconciled(t, records)
<1>1. /\ e.op = "recovery" /\ e.answer # None
      /\ \E decodes \in BOOLEAN : Receive(e, n(decodes))
  BY DEF FinishRecovery
<1>2. PICK decodes \in BOOLEAN : Receive(e, n(decodes))
  BY <1>1
<1>3. e \in Effects
  BY DEF IInv, Nearly, Calm, Sound, States
<1>4. /\ e.kind \in {"load", "mutate", "reconcile"}
      /\ e.answer.ok \in BOOLEAN
      /\ e.kind # "load" => e.request \in AnyAttempt
  <2>1. e \in RecoveryCalls
    BY <1>1, <1>3, EffectParts
  <2> QED BY <1>1, <2>1 DEF RecoveryCalls, EffectsOf, StoreAnswers
<1>5. Orderly(t) /\ MergesFirst(n(decodes)) => Orderly(n(decodes))
  <2> DEFINE r == n(decodes)
             persists == t.recovery = Persisting(e.request)
                         /\ e.request \in AnyAttempt
  <2>1. \/ r \in {FailRecovery(t), t, RecoveryLoaded(t, records)}
        \/ /\ persists
           /\ r \in {MutationFinished(t, records, decodes),
                     Reconciled(t, records)}
    <3> HIDE DEF t, records
    <3> QED BY <1>4
  <2> HIDE DEF r, records, t
  <2>2. persists => /\ t.recovery.kind = "persisting"
                    /\ t.recovery.attempt \in AnyAttempt
    BY DEF Persisting
  <2> HIDE DEF persists
  <2>3. Orderly(t) /\ MergesFirst(r) => Orderly(r)
    <3>1. Orderly(t) => Orderly(FailRecovery(t))
      BY FailRecoveryOrderly DEF Orderly
    <3>2. Orderly(t) /\ MergesFirst(RecoveryLoaded(t, records))
          => Orderly(RecoveryLoaded(t, records))
      BY RecoveryLoadedOrderly
    <3>3. /\ Orderly(t) /\ persists
          /\ MergesFirst(MutationFinished(t, records, decodes))
          => Orderly(MutationFinished(t, records, decodes))
      BY <2>2, MutationFinishedOrderly
    <3>4. /\ Orderly(t) /\ persists
          /\ MergesFirst(Reconciled(t, records))
          => Orderly(Reconciled(t, records))
      BY <2>2, ReconciledOrderly
    <3> QED BY <2>1, <3>1, <3>2, <3>3, <3>4
  <2> QED BY <2>3 DEF r
<1> HIDE DEF n
<1> QED BY <1>2, <1>5, ReceiveOrderly

-----------------------------------------------------------------------------
(* The steps of the world.                                                 *)

\* An effect that advances or answers stays what it is.
LEMMA AnswerOrderly ==
  ASSUME NEW s, Orderly(s), NEW e \in s.effects, NEW u,
         u.kind = e.kind, u.token = e.token, NEW r,
         r = [s EXCEPT !.effects = (s.effects \ {e}) \cup {u}]
  PROVE  Orderly(r)
<1>1. /\ DOMAIN r = Fields /\ r.active = s.active /\ r.local = s.local
      /\ r.cleanup = s.cleanup /\ r.merge = s.merge
      /\ r.uncertain = s.uncertain /\ r.recovery = s.recovery
      /\ r.pendingDisplaced = s.pendingDisplaced
      /\ r.effects = (s.effects \ {e}) \cup {u}
  BY DEF Orderly, Formed, Fields
<1>2. Formed(r)
  BY <1>1 DEF Orderly, Formed
<1>3. SavesAlone(r)
  BY <1>1 DEF Orderly, SavesAlone, Saving, StoresDisplaced
<1>4. WritesCommit(r)
  <2>1. CASE e.kind = "commit"
    <3>1. CommitsOf(s) = {e}
      BY <2>1 DEF Orderly, WritesCommit, CommitsOf
    <3>2. CommitsOf(r) = {u}
      BY <1>1, <2>1, <3>1 DEF CommitsOf
    <3> QED BY <1>1, <3>1, <3>2 DEF Orderly, WritesCommit
  <2>2. CASE e.kind # "commit"
    <3>1. CommitsOf(r) = CommitsOf(s)
      BY <1>1, <2>2 DEF CommitsOf
    <3> QED BY <1>1, <3>1 DEF Orderly, WritesCommit
  <2> QED BY <2>1, <2>2
<1> QED BY <1>2, <1>3, <1>4 DEF Orderly

\* So does one that answers with this.
LEMMA AnsweredOrderly ==
  ASSUME NEW s, Orderly(s), NEW e \in s.effects, e \in Effects, NEW answer
  PROVE  Orderly(Answered(s, e, answer))
<1> DEFINE u == [e EXCEPT !.answer = answer]
<1>1. u.kind = e.kind /\ u.token = e.token
  BY DEF Effects, EffectsOf, Signals, Commits, Reconciliations, Reads,
     RecoveryCalls
<1>2. Answered(s, e, answer) =
        [s EXCEPT !.effects = (s.effects \ {e}) \cup {u}]
  BY DEF Answered
<1> HIDE DEF u
<1> QED BY <1>1, <1>2, AnswerOrderly

\* The monitor notices.
LEMMA NoticeOrderly ==
  ASSUME NEW s, Orderly(s)
  PROVE  Orderly(Notice(s))
<1> DEFINE e == Effect("signal", "monitor", s.active["monitor"], None)
<1>1. e.kind # "commit"
  BY DEF Effect
<1> HIDE DEF e
<1>2. Orderly(Emit(s, e))
  BY <1>1, EmitAlike, AlikeIsOrderly DEF Orderly, Resembles
<1> QED BY <1>2 DEF Notice, e

\* The steps of the effects in the world.
LEMMA WorldOrderly ==
  ASSUME IInv, Orderly(sync), NEW e \in sync.effects,
         \/ CommitValidates(e) \/ CommitExecutes(e)
         \/ ReconcileCommitExecutes(e)
         \/ ReadExecutes(e) \/ RecoveryExecutes(e)
  PROVE  Orderly(sync')
<1>1. e \in Effects
  BY DEF IInv, Nearly, Calm, Sound, States
<1>2. CASE CommitValidates(e)
  <2> DEFINE u == [e EXCEPT !.request.validated = TRUE]
  <2>1. u.kind = e.kind /\ u.token = e.token
    BY <1>1 DEF Effects, EffectsOf, Signals, Commits, Reconciliations, Reads,
       RecoveryCalls
  <2>2. \/ sync' = [sync EXCEPT !.effects = (sync.effects \ {e}) \cup {u}]
        \/ sync' = Answered(sync, e, CommitAnswer("targetChanged", None))
    BY <1>2 DEF CommitValidates
  <2> HIDE DEF u
  <2> QED BY <1>1, <2>1, <2>2, AnswerOrderly, AnsweredOrderly
<1>3. CASE CommitExecutes(e)
  <2>1. \E answer : \/ sync' = Answered(sync, e, answer)
                    \/ sync' = Notice(Answered(sync, e, answer))
    BY <1>3 DEF CommitExecutes, CommitReports, UnknownOutcome
  <2> QED BY <1>1, <2>1, AnsweredOrderly, NoticeOrderly
<1>4. CASE ReconcileCommitExecutes(e)
  <2>1. \E answer : sync' = Answered(sync, e, answer)
    BY <1>4 DEF ReconcileCommitExecutes
  <2> QED BY <1>1, <2>1, AnsweredOrderly
<1>5. CASE ReadExecutes(e)
  <2>1. \E answer : sync' = Answered(sync, e, answer)
    BY <1>5 DEF ReadExecutes
  <2> QED BY <1>1, <2>1, AnsweredOrderly
<1>6. CASE RecoveryExecutes(e)
  <2>1. \E answer, gone :
          \/ sync' = Answered([sync EXCEPT !.displaced = gone], e, answer)
          \/ sync' = Answered(sync, e, answer)
    BY <1>6 DEF RecoveryExecutes
  <2>2. ASSUME NEW gone
        PROVE  LET s == [sync EXCEPT !.displaced = gone] IN
               Orderly(s) /\ s.effects = sync.effects
    <3> DEFINE s == [sync EXCEPT !.displaced = gone]
    <3>1. Resembles(sync, s) /\ s.effects = sync.effects
      BY DEF Orderly, Formed, Fields, Resembles, Alike, CommitsOf
    <3> HIDE DEF s
    <3> QED BY <3>1, AlikeIsOrderly DEF Resembles, s
  <2>3. ASSUME NEW gone, NEW answer
        PROVE  Orderly(Answered([sync EXCEPT !.displaced = gone], e, answer))
    <3> DEFINE s == [sync EXCEPT !.displaced = gone]
    <3>1. Orderly(s) /\ e \in s.effects
      BY <2>2
    <3> HIDE DEF s
    <3>2. Orderly(Answered(s, e, answer))
      BY <1>1, <3>1, AnsweredOrderly
    <3> QED BY <3>2 DEF s
  <2> QED BY <1>1, <2>1, <2>3, AnsweredOrderly
<1> QED BY <1>2, <1>3, <1>4, <1>5, <1>6

-----------------------------------------------------------------------------
(* The specification.                                                      *)

\* Nothing is saved when a document opens.
LEMMA InitOrderly ==
  ASSUME Init
  PROVE  Orderly(sync)
<1> DEFINE e == Effect("load", "recovery", 1, None)
<1>1. /\ DOMAIN sync = Fields /\ DOMAIN sync.active = Operations
      /\ sync.local = Clean /\ sync.cleanup = None /\ sync.effects = {e}
  BY DEF Init, Emit, Fields
<1>2. e.kind # "commit"
  BY DEF Effect
<1> HIDE DEF e
<1>3. Formed(sync) /\ ~Saving(sync) /\ CommitsOf(sync) = {}
  BY <1>1, <1>2 DEF Formed, Saving, CommitsOf
<1> QED BY <1>3, SettledIsOrderly

\* Every step keeps the order of saves.
LEMMA NextOrderly ==
  ASSUME IInv, Orderly(sync), "saveDuringMerge" \notin Requests, Next,
         MergesFirst(sync')
  PROVE  Orderly(sync')
<1>1. CASE UserStep \/ HostCloses \/ HostCancels \/ MonitorFails
  BY <1>1, EditOrderly, RequestOrderly DEF UserStep
<1>2. CASE OtherProgram
  <2>1. sync' = Notice(sync)
    BY <1>2 DEF OtherProgram, ExternalWrite
  <2> QED BY <2>1, NoticeOrderly
<1>3. CASE ProgramStep
  <2>1. PICK e \in sync.effects :
          \/ Completions(e) \/ CloseDeadline(e)
          \/ CommitValidates(e) \/ CommitExecutes(e)
          \/ ReconcileCommitExecutes(e)
          \/ ReadExecutes(e) \/ RecoveryExecutes(e)
    BY <1>3 DEF ProgramStep
  <2>2. CASE Completions(e) \/ CloseDeadline(e)
    BY <2>2, DeadlineOrderly, FinishCommitOrderly, FinishReconciliationOrderly,
       FinishReadOrderly, FinishMergeOrderly, FinishRecoveryOrderly
       DEF Completions
  <2>3. CASE ~(Completions(e) \/ CloseDeadline(e))
    BY <2>1, <2>3, WorldOrderly
  <2> QED BY <2>2, <2>3
<1> QED BY <1>1, <1>2, <1>3 DEF Next

\* A close that waits for the cleanup of the recovery store has no merge under
\* way.
ClosingMergesFirst ==
  sync.lifecycle = "closing" /\ sync.cleanup # None => sync.merge = None

\* The order of saves is an invariant.
LEMMA OrderHolds ==
  ASSUME "saveDuringMerge" \notin Requests
  PROVE  Spec /\ []ClosingMergesFirst => []Orderly(sync)
<1>1. /\ IInv /\ Orderly(sync) /\ [Next]_vars
      /\ ClosingMergesFirst'
      => Orderly(sync)'
  BY NextOrderly DEF ClosingMergesFirst, MergesFirst, vars
<1> QED BY <1>1, InitOrderly, InvariantHolds, PTL DEF Spec

\* The only commit is the one that is written.
LEMMA OrderTracksCommits ==
  Orderly(sync) => CommitIsTracked
BY DEF Orderly, WritesCommit, SavesAlone, CommitIsTracked, Outstanding,
   CommitsOf, Saving, Clean, Dirty

\* A save that is under way finds nothing undecided.
LEMMA OrderDecidesFirst ==
  Orderly(sync) => ObservationIsDecidedFirst
BY DEF Orderly, WritesCommit, SavesAlone, ObservationIsDecidedFirst,
   Outstanding, CommitsOf, Saving, Clean, Dirty

\* Every commit in the bridge is the one the local state is writing, alone, and
\* its token is the active one: SavePrepared (savePrepared of the reducer) starts
\* no second commit, and no deadline, failure, contested result or answer of the
\* store forgets the one that runs.  A save asked for during a merge and a close
\* that goes on during one are the two ways in which the code lets a save start
\* beside a merge (the first is the run save_before_merge); they are
\* what the hypotheses leave out.
THEOREM CommitsAreTracked ==
  ASSUME "saveDuringMerge" \notin Requests
  PROVE  Spec /\ []ClosingMergesFirst => []CommitIsTracked
BY OrderHolds, OrderTracksCommits, PTL

\* No commit runs during a merge: what was read from the file, or displaced by
\* an earlier commit, is merged before anything is written over it, whatever is
\* edited, read or answered meanwhile (the comment in canScheduleLocalSave);
\* under the same hypotheses.
THEOREM ObservationsAreDecidedFirst ==
  ASSUME "saveDuringMerge" \notin Requests
  PROVE  Spec /\ []ClosingMergesFirst => []ObservationIsDecidedFirst
BY OrderHolds, OrderDecidesFirst, PTL

-----------------------------------------------------------------------------
(* What a close waits for.                                                 *)

\* The changes of the recovery store that are not answered yet.
Unserved(s) == {e \in s.effects : e.kind = "mutate" /\ e.answer = None}

\* The preparation that the active token waits for.
Preparations(s) ==
  {e \in s.effects : /\ e.kind = "prepareSave"
                     /\ e.token = s.active["savePreparation"]}

\* The parts of the state that a close depends on have their forms.
Shaped(s) ==
  /\ DOMAIN s = Fields
  /\ DOMAIN s.active = Operations
  /\ IsFiniteSet(s.effects)
  /\ s.access \in {"loading", "ready", "failed"}
  /\ s.recovery.kind \in {"clear", "available", "persisting"}
  /\ s.barrier \in BOOLEAN
  /\ \A e \in s.effects : e.kind = "prepareSave" =>
       e.op = "savePreparation" /\ e.token # 0

\* A recovery store that is ready and has work has an operation that waits.
Served(s) ==
  /\ s.access = "ready"
  /\ Unserved(s) # {} \/ s.active["recovery"] # 0 \/ s.barrier = TRUE
  => s.recovery.kind = "persisting"

\* A save whose preparation will be accepted is being prepared.
Prepared(s) == Preparations(s) # {} => s.local.kind = "preparing"

InHand(s) == Shaped(s) /\ Served(s) /\ Prepared(s)

Open(s) == s.lifecycle \in {"active", "closing"}

\* What is known of a document that may be closed.
Quiet(s) ==
  /\ s.lifecycle \in {"allowed", "closed"}
  /\ s.local = Clean /\ s.baseline.text = s.source.text
  /\ s.merge = None /\ s.external = Idle
  /\ s.uncertain = None
  /\ s.pendingConflict = None /\ s.pendingDisplaced = None
  /\ s.access = "ready" /\ s.barrier = FALSE
  /\ s.active["recovery"] = 0 /\ Unserved(s) = {}
  /\ s.issue \in {None, "monitor"}

\* What no operator changes that is not about recovery and preparation.
Still(s, r) ==
  /\ DOMAIN r = DOMAIN s /\ DOMAIN r.active = DOMAIN s.active
  /\ r.lifecycle \in {s.lifecycle, "active"}
  /\ r.local = s.local /\ r.access = s.access
  /\ r.recovery = s.recovery /\ r.barrier = s.barrier
  /\ r.active["recovery"] = s.active["recovery"]
  /\ r.active["savePreparation"] \in {s.active["savePreparation"], 0}
  /\ IsFiniteSet(s.effects) => IsFiniteSet(r.effects)
  /\ Unserved(r) = Unserved(s)
  /\ \A e \in r.effects : e.kind = "prepareSave" => e \in s.effects

\* What an operator does that does not allow a close.
Keeps(s, r) == InHand(r) /\ r.lifecycle \in {s.lifecycle, "active"}

\* What a handler does to a document that is not closed.
Follows(s, r) ==
  /\ InHand(r)
  /\ s.lifecycle = "active" => r.lifecycle = "active"
  /\ Open(r) \/ Quiet(r)

\* What leaves the answers of the store alone keeps them in hand.
LEMMA StillKeeps ==
  ASSUME NEW s, InHand(s), NEW r, Still(s, r)
  PROVE  Keeps(s, r)
<1>1. Shaped(r)
  BY DEF InHand, Shaped, Still
<1>2. Served(r)
  BY DEF InHand, Served, Still
<1>3. Prepared(r)
  <2>1. SUFFICES ASSUME NEW e \in Preparations(r)
                 PROVE  r.local.kind = "preparing"
    BY DEF Prepared
  <2>2. e \in s.effects /\ e.kind = "prepareSave" /\ e.token # 0
        /\ e.token = r.active["savePreparation"]
    BY <2>1 DEF Preparations, Still, InHand, Shaped
  <2>3. e \in Preparations(s)
    BY <2>2 DEF Preparations, Still
  <2> QED BY <2>3 DEF InHand, Prepared, Still
<1> QED BY <1>1, <1>2, <1>3 DEF Keeps, InHand, Still

\* Two such changes, one after the other.
LEMMA StillOn ==
  ASSUME NEW s, NEW t, NEW r, Still(s, t), Still(t, r)
  PROVE  Still(s, r)
BY DEF Still

\* No change is such a change.
LEMMA StillSame ==
  ASSUME NEW s
  PROVE  Still(s, s)
BY DEF Still

\* Two changes that keep the answers in hand.
LEMMA KeepsOn ==
  ASSUME NEW s, NEW t, NEW r, Keeps(s, t), Keeps(t, r)
  PROVE  Keeps(s, r)
BY DEF Keeps

\* A document stays open where no close is allowed.
LEMMA KeepsFollows ==
  ASSUME NEW s, Open(s), NEW r, Keeps(s, r)
  PROVE  Follows(s, r) /\ Open(r)
BY DEF Keeps, Follows, Open

\* A change before the one that may allow the close.
LEMMA FollowsOn ==
  ASSUME NEW s, NEW t, NEW r, Keeps(s, t), Follows(t, r)
  PROVE  Follows(s, r)
BY DEF Keeps, Follows

\* The local state may change when no save is being prepared.
LEMMA LocalSet ==
  ASSUME NEW s, InHand(s), s.local.kind # "preparing", NEW r,
         DOMAIN r = Fields, r.active = s.active, r.effects = s.effects,
         r.access = s.access, r.recovery = s.recovery,
         r.barrier = s.barrier, r.lifecycle = s.lifecycle
  PROVE  Keeps(s, r)
<1>1. Shaped(r)
  BY DEF InHand, Shaped
<1>2. Served(r)
  BY DEF InHand, Served, Unserved
<1>3. Prepared(r)
  BY DEF InHand, Prepared, Preparations
<1> QED BY <1>1, <1>2, <1>3 DEF Keeps, InHand

\* Taking back a token other than that of the recovery store.
LEMMA DeactivateStill ==
  ASSUME NEW s, Shaped(s), NEW op \in Operations \ {"recovery"}
  PROVE  Still(s, Deactivate(s, op))
BY DEF Shaped, Fields, Deactivate, Still, Unserved

\* Canceling an effect: a change of the store is not canceled.
LEMMA CancelStill ==
  ASSUME NEW s, Shaped(s), NEW op, NEW token
  PROVE  Still(s, Cancel(s, op, token))
<1> DEFINE r == Cancel(s, op, token)
<1>1. r.effects \subseteq s.effects
  BY DEF Shaped, Fields, Cancel
<1>2. IsFiniteSet(r.effects)
  BY <1>1, FS_Subset DEF Shaped
<1>3. Unserved(r) = Unserved(s)
  BY DEF Shaped, Fields, Cancel, Unserved, Deadlines
<1>4. /\ DOMAIN r = DOMAIN s /\ r.active = s.active
      /\ r.lifecycle = s.lifecycle /\ r.local = s.local
      /\ r.access = s.access /\ r.recovery = s.recovery
      /\ r.barrier = s.barrier
  BY DEF Shaped, Fields, Cancel
<1> HIDE DEF r
<1>5. Still(s, r)
  BY <1>1, <1>2, <1>3, <1>4 DEF Still
<1> QED BY <1>5 DEF r

\* Canceling the deadlines.
LEMMA CancelAllDeadlinesStill ==
  ASSUME NEW s, Shaped(s)
  PROVE  Still(s, CancelAllDeadlines(s))
<1> DEFINE r == CancelAllDeadlines(s)
<1>1. r.effects \subseteq s.effects
  BY DEF Shaped, Fields, CancelAllDeadlines
<1>2. IsFiniteSet(r.effects)
  BY <1>1, FS_Subset DEF Shaped
<1>3. Unserved(r) = Unserved(s)
  BY DEF Shaped, Fields, CancelAllDeadlines, Unserved, Deadlines
<1>4. /\ DOMAIN r = DOMAIN s /\ r.active = s.active
      /\ r.lifecycle = s.lifecycle /\ r.local = s.local
      /\ r.access = s.access /\ r.recovery = s.recovery
      /\ r.barrier = s.barrier
  BY DEF Shaped, Fields, CancelAllDeadlines
<1> HIDE DEF r
<1>5. Still(s, r)
  BY <1>1, <1>2, <1>3, <1>4 DEF Still
<1> QED BY <1>5 DEF r

\* Asking for an effect that no close waits for.
LEMMA EmitStill ==
  ASSUME NEW s, Shaped(s), NEW e, e.kind \notin {"mutate", "prepareSave"}
  PROVE  Still(s, Emit(s, e))
<1> DEFINE r == Emit(s, e)
<1>1. /\ DOMAIN r = DOMAIN s /\ r.active = s.active
      /\ r.lifecycle = s.lifecycle /\ r.local = s.local
      /\ r.access = s.access /\ r.recovery = s.recovery
      /\ r.barrier = s.barrier /\ r.effects = s.effects \cup {e}
  BY DEF Shaped, Fields, Emit
<1>2. IsFiniteSet(r.effects)
  BY <1>1, FS_AddElement DEF Shaped
<1> HIDE DEF r
<1>3. Unserved(r) = Unserved(s)
  BY <1>1 DEF Unserved
<1>4. Still(s, r)
  BY <1>1, <1>2, <1>3 DEF Still
<1> QED BY <1>4 DEF r

\* Starting such an effect.
LEMMA StartStill ==
  ASSUME NEW s, Shaped(s), NEW kind, kind \notin {"mutate", "prepareSave"},
         NEW request, NEW op \in Operations \ {"recovery", "savePreparation"}
  PROVE  Still(s, Start(s, kind, op, request))
         /\ Shaped(Start(s, kind, op, request))
<1> DEFINE t == FreshToken(s, op)
           q == [s EXCEPT !.active[op] = t]
           e == Effect(kind, op, t, request)
<1> HIDE DEF t
<1>1. Shaped(q) /\ Still(s, q)
  BY DEF Shaped, Fields, Still, Unserved, Operations
<1>2. e.kind \notin {"mutate", "prepareSave"}
  BY DEF Effect
<1>3. Start(s, kind, op, request) = Emit(q, e)
  BY DEF Start, t
<1> HIDE DEF q, e
<1>4. Still(s, Start(s, kind, op, request))
  BY <1>1, <1>2, <1>3, EmitStill, StillOn
<1> HIDE DEF Start
<1> QED BY <1>4 DEF Shaped, Still

\* Starting the file monitor.
LEMMA StartMonitorStill ==
  ASSUME NEW s, Shaped(s)
  PROVE  Still(s, StartMonitor(s))
BY DEF Shaped, Fields, StartMonitor, Still, Unserved, Operations

\* The form of the state after such a change.
LEMMA StillShaped ==
  ASSUME NEW s, Shaped(s), NEW r, Still(s, r)
  PROVE  Shaped(r)
BY DEF Shaped, Still

\* The delay of a save takes a token that no preparation has.
LEMMA ScheduleLocalSaveInHand ==
  ASSUME NEW s, InHand(s)
  PROVE  Keeps(s, ScheduleLocalSave(s))
         /\ ScheduleLocalSave(s).lifecycle = s.lifecycle
<1> DEFINE t == FreshToken(s, "savePreparation")
           p == [s EXCEPT !.active["savePreparation"] = t]
           e == Effect("localSaveDeadline", "savePreparation", t, None)
           r == Emit(p, e)
           q == [r EXCEPT !.local = Dirty(r.active["savePreparation"])]
<1>1. /\ t # 0
      /\ \A f \in s.effects : f.op = "savePreparation" => f.token # t
  BY FreshTokenIsNew DEF InHand, Shaped
<1>2. ScheduleLocalSave(s) \in {q, s}
  BY DEF ScheduleLocalSave, Start
<1> HIDE DEF t
<1>3. /\ DOMAIN p = Fields /\ DOMAIN p.active = Operations
      /\ p.lifecycle = s.lifecycle /\ p.access = s.access
      /\ p.recovery = s.recovery /\ p.barrier = s.barrier
      /\ p.active["recovery"] = s.active["recovery"]
      /\ p.active["savePreparation"] = t /\ p.effects = s.effects
  BY DEF InHand, Shaped, Fields, Operations
<1>4. Shaped(p)
  BY <1>3 DEF InHand, Shaped
<1>5. e.kind = "localSaveDeadline"
  BY DEF Effect
<1> HIDE DEF p, e
<1>6. Still(p, r) /\ Shaped(r) /\ r.active = p.active
      /\ r.lifecycle = p.lifecycle
  BY <1>3, <1>4, <1>5, EmitStill, StillShaped DEF Emit, Fields
<1> HIDE DEF r
<1>7. /\ DOMAIN q = Fields /\ q.active = r.active /\ q.effects = r.effects
      /\ q.access = r.access /\ q.recovery = r.recovery
      /\ q.barrier = r.barrier /\ q.lifecycle = r.lifecycle
  BY <1>6 DEF Shaped, Fields
<1> HIDE DEF q
<1>8. Shaped(q)
  BY <1>6, <1>7 DEF Shaped
<1>9. Served(q)
  <2>1. Unserved(q) = Unserved(s)
    BY <1>3, <1>6, <1>7 DEF Still, Unserved
  <2> QED BY <1>3, <1>6, <1>7, <2>1 DEF InHand, Served, Still
<1>10. Preparations(q) = {}
  BY <1>1, <1>3, <1>6, <1>7 DEF Preparations, Still, InHand, Shaped
<1>11. Keeps(s, q) /\ q.lifecycle = s.lifecycle
  BY <1>3, <1>6, <1>7, <1>8, <1>9, <1>10 DEF Keeps, InHand, Prepared
<1> QED BY <1>2, <1>11 DEF Keeps

\* Scheduling a read of the file.
LEMMA ScheduleExternalReadStill ==
  ASSUME NEW s, Shaped(s)
  PROVE  Still(s, ScheduleExternalRead(s))
<1> DEFINE r == Start(s, "externalReadDeadline", "externalRead", None)
           q == [r EXCEPT !.external = [kind |-> "debouncing",
                                   token |-> r.active["externalRead"],
                                   expected |-> s.baseline],
                     !.signalPending = FALSE]
           u == [s EXCEPT !.signalPending = TRUE]
<1>1. Still(s, r) /\ Shaped(r)
  BY StartStill DEF Operations
<1>2. Still(s, u)
  BY DEF Shaped, Fields, Still, Unserved
<1>3. ScheduleExternalRead(s) \in {q, u}
  BY DEF ScheduleExternalRead
<1> HIDE DEF r
<1>4. Still(r, q)
  BY <1>1 DEF Shaped, Fields, Still, Unserved
<1> HIDE DEF q, u
<1> QED BY <1>1, <1>2, <1>3, <1>4, StillOn

\* A preparation that is given up is not accepted.
LEMMA InvalidatePreparationInHand ==
  ASSUME NEW s, InHand(s), Formed(s)
  PROVE  LET r == InvalidatePreparation(s) IN
         /\ Keeps(s, r) /\ r.local.kind # "preparing"
<1> DEFINE d == Deactivate(s, "savePreparation")
           c == Cancel(d, "savePreparation", s.local.token)
           q == [c EXCEPT !.local = Dirty(0)]
<1>1. CASE s.local.kind \in {"dirty", "preparing"} /\ s.local.token # 0
  <2>1. Still(s, d) /\ Shaped(d) /\ d.active["savePreparation"] = 0
    <3>1. Still(s, d)
      BY DeactivateStill DEF InHand, Operations
    <3>2. d.active["savePreparation"] = 0
      BY DEF InHand, Shaped, Deactivate, Fields, Operations
    <3> QED BY <3>1, <3>2, StillShaped DEF InHand
  <2> HIDE DEF d
  <2>2. Still(d, c) /\ Shaped(c) /\ c.active["savePreparation"] = 0
    BY <2>1, CancelStill, StillShaped DEF Still
  <2> HIDE DEF c
  <2>3. Still(s, c) /\ Served(c)
    BY <2>1, <2>2, StillOn, StillKeeps DEF Keeps, InHand
  <2>4. /\ q.local = Dirty(0) /\ DOMAIN q = Fields /\ q.active = c.active
        /\ q.lifecycle = c.lifecycle /\ q.effects = c.effects
        /\ q.access = c.access /\ q.recovery = c.recovery
        /\ q.barrier = c.barrier
    BY <2>2 DEF Shaped, Fields
  <2> HIDE DEF q
  <2>5. Shaped(q) /\ Served(q)
    BY <2>2, <2>3, <2>4 DEF Shaped, Served, Unserved
  <2>6. Preparations(q) = {}
    BY <2>2, <2>4, <2>5 DEF Preparations, Shaped
  <2>7. Keeps(s, q)
    BY <2>3, <2>4, <2>5, <2>6 DEF Keeps, InHand, Prepared, Still
  <2>8. InvalidatePreparation(s) = q
    BY <1>1 DEF InvalidatePreparation, q, c, d
  <2> QED BY <2>4, <2>7, <2>8 DEF Dirty
<1>2. CASE ~(s.local.kind \in {"dirty", "preparing"} /\ s.local.token # 0)
  <2>1. InvalidatePreparation(s) = s
    BY <1>2 DEF InvalidatePreparation
  <2> QED BY <1>2, <2>1 DEF Formed, Keeps, Clean
<1> QED BY <1>1, <1>2

\* Giving up a merge.
LEMMA InvalidateMergeStill ==
  ASSUME NEW s, Shaped(s)
  PROVE  Still(s, InvalidateMerge(s))
<1> DEFINE p == [s EXCEPT
                   !.unresolvedDisplaced = s.merge.origin.continuation,
                   !.issue = "recovery"]
           r == IF s.merge.origin = None THEN s ELSE p
           d == Deactivate(r, "merge")
           c == Cancel(d, "merge", s.merge.token)
           q == [c EXCEPT !.merge = None, !.signalPending = TRUE]
<1>1. InvalidateMerge(s) \in {s, q}
  BY DEF InvalidateMerge
<1>2. Still(s, p)
  BY DEF Shaped, Fields, Still, Unserved
<1> HIDE DEF p
<1>3. Still(s, r) /\ Shaped(r)
  BY <1>2, StillSame, StillShaped
<1> HIDE DEF r
<1>4. Still(r, d) /\ Shaped(d)
  BY <1>3, DeactivateStill, StillShaped DEF Operations
<1> HIDE DEF d
<1>5. Still(d, c) /\ Shaped(c)
  BY <1>4, CancelStill, StillShaped
<1> HIDE DEF c
<1>6. Still(c, q)
  BY <1>5 DEF Shaped, Fields, Still, Unserved
<1> HIDE DEF q
<1> QED BY <1>1, <1>3, <1>4, <1>5, <1>6, StillOn, StillSame

\* Refusing to close opens the document again.
LEMMA RefuseCloseStill ==
  ASSUME NEW s, Shaped(s)
  PROVE  Still(s, RefuseCloseIfNeeded(s))
         /\ (s.lifecycle = "closing" =>
               RefuseCloseIfNeeded(s).lifecycle = "active")
<1> DEFINE d == Deactivate(s, "close")
           c == Cancel(d, "close", s.active["close"])
           q == [c EXCEPT !.lifecycle = "active"]
<1>1. RefuseCloseIfNeeded(s) = IF s.lifecycle = "closing" THEN q ELSE s
  BY DEF RefuseCloseIfNeeded
<1>2. Still(s, d) /\ Shaped(d)
  BY DeactivateStill, StillShaped DEF Operations
<1> HIDE DEF d
<1>3. Still(d, c) /\ Shaped(c)
  BY <1>2, CancelStill, StillShaped
<1> HIDE DEF c
<1>4. Still(c, q) /\ q.lifecycle = "active"
  BY <1>3 DEF Shaped, Fields, Still, Unserved
<1> HIDE DEF q
<1> QED BY <1>1, <1>2, <1>3, <1>4, StillOn, StillSame

\* Refusing to close because of a failure.
LEMMA RefuseStill ==
  ASSUME NEW s, Shaped(s), NEW failure
  PROVE  Still(s, Refuse(s, failure))
<1> DEFINE q == [s EXCEPT !.issue = failure]
<1>1. Still(s, q) /\ Shaped(q)
  BY DEF Shaped, Fields, Still, Unserved
<1> HIDE DEF q
<1>2. Still(q, RefuseCloseIfNeeded(q))
  BY <1>1, RefuseCloseStill
<1> QED BY <1>1, <1>2, StillOn DEF Refuse, q

\* Nothing that was under way is accepted any more.
LEMMA InvalidateAutomatedWorkInHand ==
  ASSUME NEW s, InHand(s)
  PROVE  LET r == InvalidateAutomatedWork(s) IN
         /\ InHand(r) /\ r.lifecycle = s.lifecycle
         /\ r.access = s.access /\ r.recovery = s.recovery
         /\ r.active["savePreparation"] = 0 /\ r.active["recovery"] = 0
         /\ Unserved(r) = Unserved(s)
         /\ s.active["recovery"] = 0 => r.barrier = s.barrier
<1> DEFINE cancelled ==
             {e \in s.effects :
                \/ /\ e.kind = "prepareSave" /\ s.local.kind = "preparing"
                   /\ e.token = s.local.token
                \/ e.kind = "merge" /\ s.merge # None
                   /\ e.token = s.merge.token}
           r == InvalidateAutomatedWork(s)
<1>1. /\ DOMAIN r = Fields /\ DOMAIN r.active = Operations
      /\ r.effects = s.effects \ cancelled
      /\ r.lifecycle = s.lifecycle /\ r.access = s.access
      /\ r.recovery = s.recovery
      /\ r.active["savePreparation"] = 0 /\ r.active["recovery"] = 0
  BY DEF InHand, Shaped, Fields, InvalidateAutomatedWork, Operations
<1>2. r.barrier = (s.barrier \/ RecoveryMutationIsActive(s))
  BY DEF InHand, Shaped, Fields, InvalidateAutomatedWork
<1>3. \A e \in cancelled : e.kind # "mutate"
  OBVIOUS
<1> HIDE DEF r, cancelled
<1>4. Unserved(r) = Unserved(s)
  BY <1>1, <1>3 DEF Unserved
<1>5. s.barrier \in BOOLEAN
  BY DEF InHand, Shaped
<1>6. r.barrier \in BOOLEAN
      /\ (RecoveryMutationIsActive(s) = TRUE
            \/ (RecoveryMutationIsActive(s) = FALSE /\ r.barrier = s.barrier))
  <2>1. RecoveryMutationIsActive(s) \in BOOLEAN
    BY DEF RecoveryMutationIsActive
  <2> HIDE DEF RecoveryMutationIsActive
  <2> QED BY <1>2, <1>5, <2>1, Zenon
<1>7. RecoveryMutationIsActive(s) =>
        /\ s.active["recovery"] # 0
        /\ s.barrier = TRUE \/ s.recovery.kind = "persisting"
  BY <1>5 DEF RecoveryMutationIsActive
<1>8. IsFiniteSet(r.effects)
  BY <1>1, FS_Subset DEF InHand, Shaped
<1>9. Shaped(r)
  BY <1>1, <1>6, <1>8 DEF InHand, Shaped
<1>10. s.active["recovery"] = 0 => r.barrier = s.barrier
  BY <1>6, <1>7
<1>11. Served(r)
  BY <1>1, <1>4, <1>6, <1>7 DEF InHand, Served
<1>12. Prepared(r)
  BY <1>1, <1>9 DEF Prepared, Preparations, Shaped
<1> QED BY <1>1, <1>4, <1>9, <1>10, <1>11, <1>12 DEF InHand, r

\* A failed store is not ready.
LEMMA FailRecoveryInHand ==
  ASSUME NEW s, InHand(s)
  PROVE  Keeps(s, FailRecovery(s))
<1> DEFINE w == InvalidateAutomatedWork(s)
           r == CancelAllDeadlines(w)
           q == [r EXCEPT !.access = "failed", !.issue = "recovery",
                  !.lifecycle = IF @ = "closing" THEN "active" ELSE @]
<1>1. InHand(w) /\ w.lifecycle = s.lifecycle
  BY InvalidateAutomatedWorkInHand
<1> HIDE DEF w
<1>2. InHand(r) /\ r.lifecycle \in {s.lifecycle, "active"}
  BY <1>1, CancelAllDeadlinesStill, StillKeeps DEF InHand, Keeps
<1> HIDE DEF r
<1>3. /\ DOMAIN q = Fields /\ q.active = r.active /\ q.effects = r.effects
      /\ q.access = "failed" /\ q.recovery = r.recovery
      /\ q.barrier = r.barrier /\ q.local = r.local
      /\ q.lifecycle \in {r.lifecycle, "active"}
  BY <1>2 DEF InHand, Shaped, Fields
<1>4. FailRecovery(s) = q
  BY DEF FailRecovery, q, r, w
<1> HIDE DEF q
<1>5. Shaped(q) /\ Served(q) /\ Prepared(q)
  BY <1>2, <1>3 DEF InHand, Shaped, Served, Prepared, Preparations
<1> QED BY <1>2, <1>3, <1>4, <1>5 DEF InHand, Keeps

\* A mutation that starts is one that waits.
LEMMA StartMutationInHand ==
  ASSUME NEW s, Shaped(s), Prepared(s), NEW attempt
  PROVE  LET r == StartMutation(s, attempt) IN
         /\ Keeps(s, r) /\ r.lifecycle = s.lifecycle
<1> DEFINE t == FreshToken(s, "recovery")
           a == [attempt EXCEPT !.token = t]
           p == [s EXCEPT !.active["recovery"] = t]
           e == Effect("mutate", "recovery", t, a)
           r == Emit(p, e)
           q == [r EXCEPT !.recovery = Persisting(a)]
<1>1. StartMutation(s, attempt) = q
  BY DEF StartMutation, Start
<1> HIDE DEF t, a
<1>2. /\ DOMAIN p = Fields /\ DOMAIN p.active = Operations
      /\ p.lifecycle = s.lifecycle /\ p.access = s.access
      /\ p.barrier = s.barrier /\ p.local = s.local
      /\ p.active["savePreparation"] = s.active["savePreparation"]
      /\ p.effects = s.effects
  BY DEF Shaped, Fields, Operations
<1>3. e.kind = "mutate"
  BY DEF Effect
<1> HIDE DEF p, e
<1>4. /\ DOMAIN r = Fields /\ r.active = p.active
      /\ r.lifecycle = p.lifecycle /\ r.access = p.access
      /\ r.barrier = p.barrier /\ r.local = p.local
      /\ r.effects = p.effects \cup {e}
  BY <1>2 DEF Emit, Fields
<1> HIDE DEF r
<1>5. /\ DOMAIN q = Fields /\ q.active = r.active
      /\ q.lifecycle = r.lifecycle /\ q.access = r.access
      /\ q.barrier = r.barrier /\ q.local = r.local
      /\ q.effects = r.effects /\ q.recovery.kind = "persisting"
  BY <1>4 DEF Fields, Persisting
<1> HIDE DEF q
<1>6. IsFiniteSet(q.effects)
  BY <1>2, <1>4, <1>5, FS_AddElement DEF Shaped
<1>7. Shaped(q)
  BY <1>2, <1>3, <1>4, <1>5, <1>6 DEF Shaped
<1>8. Served(q)
  BY <1>5 DEF Served
<1>9. Prepared(q)
  BY <1>2, <1>3, <1>4, <1>5 DEF Prepared, Preparations
<1> QED BY <1>1, <1>2, <1>4, <1>5, <1>7, <1>8, <1>9 DEF InHand, Keeps

\* A store that is loaded or reconciled is not ready.
LEMMA StartLoadingInHand ==
  ASSUME NEW s, InHand(s), NEW kind \in {"load", "reconcile"}, NEW request
  PROVE  LET r == [Start(s, kind, "recovery", request)
                     EXCEPT !.access = "loading"] IN
         Keeps(s, r)
<1> DEFINE t == FreshToken(s, "recovery")
           p == [s EXCEPT !.active["recovery"] = t]
           e == Effect(kind, "recovery", t, request)
           r == Emit(p, e)
           q == [r EXCEPT !.access = "loading"]
<1>1. [Start(s, kind, "recovery", request) EXCEPT !.access = "loading"] = q
  BY DEF Start
<1> HIDE DEF t
<1>2. /\ DOMAIN p = Fields /\ DOMAIN p.active = Operations
      /\ p.lifecycle = s.lifecycle /\ p.recovery = s.recovery
      /\ p.barrier = s.barrier /\ p.local = s.local
      /\ p.active["savePreparation"] = s.active["savePreparation"]
      /\ p.effects = s.effects
  BY DEF InHand, Shaped, Fields, Operations
<1>3. e.kind \in {"load", "reconcile"}
  BY DEF Effect
<1> HIDE DEF p, e
<1>4. /\ DOMAIN r = Fields /\ r.active = p.active
      /\ r.lifecycle = p.lifecycle /\ r.recovery = p.recovery
      /\ r.barrier = p.barrier /\ r.local = p.local
      /\ r.effects = p.effects \cup {e}
  BY <1>2 DEF Emit, Fields
<1> HIDE DEF r
<1>5. /\ DOMAIN q = Fields /\ q.active = r.active
      /\ q.lifecycle = r.lifecycle /\ q.access = "loading"
      /\ q.barrier = r.barrier /\ q.local = r.local
      /\ q.effects = r.effects /\ q.recovery = r.recovery
  BY <1>4 DEF Fields
<1> HIDE DEF q
<1>6. IsFiniteSet(q.effects)
  BY <1>2, <1>4, <1>5, FS_AddElement DEF InHand, Shaped
<1>7. Shaped(q)
  BY <1>2, <1>3, <1>4, <1>5, <1>6 DEF InHand, Shaped
<1>8. Served(q)
  BY <1>5 DEF Served
<1>9. Prepared(q)
  BY <1>2, <1>3, <1>4, <1>5 DEF InHand, Prepared, Preparations
<1>10. Keeps(s, q)
  BY <1>2, <1>4, <1>5, <1>7, <1>8, <1>9 DEF InHand, Keeps
<1> QED BY <1>1, <1>10

\* Loading the recovery records.
LEMMA StartRecoveryLoadInHand ==
  ASSUME NEW s, InHand(s)
  PROVE  Keeps(s, StartRecoveryLoad(s))
BY StartLoadingInHand DEF StartRecoveryLoad

\* Asking the recovery store what it holds.
LEMMA StartRecoveryReconciliationInHand ==
  ASSUME NEW s, InHand(s)
  PROVE  Keeps(s, StartRecoveryReconciliation(s))
BY StartLoadingInHand DEF StartRecoveryReconciliation

\* Storing the loser of a conflict.
LEMMA StartRecoveryPersistenceInHand ==
  ASSUME NEW s, InHand(s), NEW text, NEW cleanup
  PROVE  Keeps(s, StartRecoveryPersistence(s, text, cleanup))
<1> DEFINE q == [s EXCEPT !.pendingConflict = text]
<1>1. /\ DOMAIN q = Fields /\ q.active = s.active /\ q.effects = s.effects
      /\ q.access = s.access /\ q.recovery = s.recovery
      /\ q.barrier = s.barrier /\ q.lifecycle = s.lifecycle
      /\ q.local = s.local
  BY DEF InHand, Shaped, Fields
<1>2. \/ StartRecoveryPersistence(s, text, cleanup) = s
      \/ \E a : StartRecoveryPersistence(s, text, cleanup) =
                  StartMutation(q, a)
  BY DEF StartRecoveryPersistence
<1> HIDE DEF q
<1>3. Shaped(q) /\ Prepared(q)
  BY <1>1 DEF InHand, Shaped, Prepared, Preparations
<1>4. \A a : Keeps(q, StartMutation(q, a))
  BY <1>3, StartMutationInHand
<1> QED BY <1>1, <1>2, <1>4 DEF Keeps

\* Storing the displaced bytes.
LEMMA StartDisplacedPersistenceInHand ==
  ASSUME NEW s, InHand(s), NEW continuation
  PROVE  Keeps(s, StartDisplacedPersistence(s, continuation))
<1>1. \/ StartDisplacedPersistence(s, continuation) = s
      \/ \E a : StartDisplacedPersistence(s, continuation) =
                  StartMutation(s, a)
  BY DEF StartDisplacedPersistence
<1>2. \A a : Keeps(s, StartMutation(s, a))
  BY StartMutationInHand DEF InHand
<1> QED BY <1>1, <1>2 DEF Keeps

\* Discarding records.
LEMMA StartRecoveryDiscardInHand ==
  ASSUME NEW s, InHand(s), NEW target, NEW purpose
  PROVE  Keeps(s, StartRecoveryDiscard(s, target, purpose))
<1>1. \/ StartRecoveryDiscard(s, target, purpose) = s
      \/ \E a : StartRecoveryDiscard(s, target, purpose) =
                  StartMutation(s, a)
  BY DEF StartRecoveryDiscard
<1>2. \A a : Keeps(s, StartMutation(s, a))
  BY StartMutationInHand DEF InHand
<1> QED BY <1>1, <1>2 DEF Keeps

\* The cleanup that waits resumes.
LEMMA ResumeRecoveryCleanupInHand ==
  ASSUME NEW s, InHand(s)
  PROVE  Keeps(s, ResumeRecoveryCleanup(s))
BY StartRecoveryDiscardInHand DEF ResumeRecoveryCleanup

\* A close is allowed when nothing waits.
LEMMA AllowManagedCloseIsQuiet ==
  ASSUME NEW s, InHand(s), s.lifecycle = "closing",
         s.issue = None, s.uncertain = None,
         s.pendingConflict = None \/ s.active["recovery"] # 0,
         s.access = "ready", s.pendingDisplaced = None,
         s.recovery.kind # "persisting", s.merge = None, s.external = Idle,
         s.local = Clean, s.baseline = Rebased(s.baseline, s.source)
  PROVE  Follows(s, AllowManagedClose(s))
<1> DEFINE t == s.active["close"]
           c == Cancel(s, "close", t)
           q == [c EXCEPT !.lifecycle = "allowed"]
<1> HIDE DEF t
<1>1. /\ Unserved(s) = {} /\ s.active["recovery"] = 0
      /\ s.barrier = FALSE
  BY DEF InHand, Served, Shaped
<1>2. s.baseline.text = s.source.text
  BY DEF Rebased, Durable
<1>3. Still(s, c) /\ InHand(c)
  BY CancelStill, StillKeeps DEF InHand, Keeps
<1>4. /\ c.baseline = s.baseline /\ c.source = s.source
      /\ c.merge = s.merge /\ c.external = s.external
      /\ c.uncertain = s.uncertain /\ c.issue = s.issue
      /\ c.pendingConflict = s.pendingConflict
      /\ c.pendingDisplaced = s.pendingDisplaced
  BY DEF InHand, Shaped, Fields, Cancel
<1> HIDE DEF c
<1>5. /\ q.baseline = c.baseline /\ q.source = c.source
      /\ q.merge = c.merge /\ q.external = c.external
      /\ q.uncertain = c.uncertain /\ q.issue = c.issue
      /\ q.pendingConflict = c.pendingConflict
      /\ q.pendingDisplaced = c.pendingDisplaced
      /\ DOMAIN q = Fields /\ q.active = c.active /\ q.effects = c.effects
      /\ q.access = c.access /\ q.recovery = c.recovery
      /\ q.barrier = c.barrier /\ q.local = c.local
      /\ q.lifecycle = "allowed"
  BY <1>3 DEF InHand, Shaped, Fields
<1>6. AllowManagedClose(s) = q
  BY DEF AllowManagedClose, q, c, t
<1> HIDE DEF q
<1>7. InHand(q)
  BY <1>3, <1>5 DEF InHand, Shaped, Served, Prepared, Preparations, Unserved
<1>8. Unserved(q) = {}
  BY <1>1, <1>3, <1>5 DEF Unserved, Still
<1>9. Quiet(q)
  BY <1>1, <1>2, <1>3, <1>4, <1>5, <1>8 DEF Quiet, Still
<1> QED BY <1>6, <1>7, <1>9 DEF Follows

\* A close goes on: it is allowed only where nothing is left to do.
LEMMA ProgressManagedCloseFollows ==
  ASSUME NEW s, InHand(s), s.lifecycle = "closing"
  PROVE  Follows(s, ProgressManagedClose(s))
<1> DEFINE r == ProgressManagedClose(s)
<1>1. \/ r \in {RefuseCloseIfNeeded(s), s, ScheduleExternalRead(s),
                ResumeRecoveryCleanup(s), ScheduleLocalSave(s),
                StartDisplacedPersistence(s, s.pendingDisplaced)}
      \/ /\ r = AllowManagedClose(s)
         /\ s.issue = None /\ s.uncertain = None
         /\ s.pendingConflict = None \/ s.active["recovery"] # 0
         /\ s.access \notin {"loading", "failed"}
         /\ s.pendingDisplaced = None
         /\ s.recovery.kind # "persisting"
         /\ s.merge = None /\ s.external = Idle
         /\ s.local = Clean /\ s.baseline = Rebased(s.baseline, s.source)
  BY DEF ProgressManagedClose
<1> HIDE DEF r
<1>2. Open(s)
  BY DEF Open
<1>3. CASE r \in {RefuseCloseIfNeeded(s), s, ScheduleExternalRead(s),
                  ResumeRecoveryCleanup(s), ScheduleLocalSave(s),
                  StartDisplacedPersistence(s, s.pendingDisplaced)}
  <2>1. Keeps(s, s)
    BY DEF Keeps
  <2>2. Keeps(s, RefuseCloseIfNeeded(s)) /\ Keeps(s, ScheduleExternalRead(s))
    BY RefuseCloseStill, ScheduleExternalReadStill, StillKeeps DEF InHand
  <2>3. Keeps(s, r)
    BY <1>3, <2>1, <2>2, ResumeRecoveryCleanupInHand, ScheduleLocalSaveInHand,
       StartDisplacedPersistenceInHand
  <2> QED BY <1>2, <2>3, KeepsFollows DEF r
<1>4. CASE /\ r = AllowManagedClose(s)
           /\ s.issue = None /\ s.uncertain = None
           /\ s.pendingConflict = None \/ s.active["recovery"] # 0
           /\ s.access \notin {"loading", "failed"}
           /\ s.pendingDisplaced = None
           /\ s.recovery.kind # "persisting"
           /\ s.merge = None /\ s.external = Idle
           /\ s.local = Clean /\ s.baseline = Rebased(s.baseline, s.source)
  <2>1. s.access = "ready"
    BY <1>4 DEF InHand, Shaped
  <2> QED BY <1>4, <2>1, AllowManagedCloseIsQuiet DEF r
<1> QED BY <1>1, <1>3, <1>4

\* What is next when a task has ended.
LEMMA ContinueSynchronizationFollows ==
  ASSUME NEW s, InHand(s), Open(s)
  PROVE  Follows(s, ContinueSynchronization(s))
<1> DEFINE x == ScheduleExternalRead(s)
           r == ContinueSynchronization(s)
<1>1. CASE s.lifecycle = "closing"
  BY <1>1, ProgressManagedCloseFollows DEF ContinueSynchronization
<1>2. CASE s.lifecycle # "closing"
  <2>1. r \in {s, StartRecoveryPersistence(s, s.pendingConflict, None),
               StartDisplacedPersistence(s, s.pendingDisplaced),
               ResumeRecoveryCleanup(s), x, ScheduleLocalSave(x),
               ScheduleLocalSave(s)}
    BY <1>2 DEF ContinueSynchronization
  <2>2. Keeps(s, x) /\ InHand(x)
    BY ScheduleExternalReadStill, StillKeeps DEF InHand, Keeps
  <2> HIDE DEF r, x
  <2>3. Keeps(s, ScheduleLocalSave(x))
    BY <2>2, ScheduleLocalSaveInHand, KeepsOn
  <2>4. Keeps(s, s)
    BY DEF Keeps
  <2>5. Keeps(s, r)
    BY <2>1, <2>2, <2>3, <2>4, StartRecoveryPersistenceInHand,
       StartDisplacedPersistenceInHand, ResumeRecoveryCleanupInHand,
       ScheduleLocalSaveInHand
  <2> QED BY <2>5, KeepsFollows DEF r
<1> QED BY <1>1, <1>2

\* The store that has answered is ready and has no work.
LEMMA FinishRecoveryMutationFollows ==
  ASSUME NEW s, InHand(s), Open(s), Unserved(s) = {}, NEW records
  PROVE  Follows(s, FinishRecoveryMutation(s, records))
<1> DEFINE d == Deactivate(s, "recovery")
           r == [d EXCEPT !.access = "ready", !.barrier = FALSE,
                          !.recovery = RecoveryOf(records)]
           i == [r EXCEPT !.issue = None]
           z == FinishRecoveryMutation(s, records)
<1>1. \/ z = ContinueSynchronization(i)
      \/ z = ResumeRecoveryCleanup(r)
      \/ z = Refuse(r, "recovery")
  BY DEF FinishRecoveryMutation
<1> HIDE DEF z
<1>2. /\ DOMAIN d = Fields /\ DOMAIN d.active = Operations
      /\ d.active["savePreparation"] = s.active["savePreparation"]
      /\ d.active["recovery"] = 0 /\ d.effects = s.effects
      /\ d.local = s.local /\ d.lifecycle = s.lifecycle
  BY DEF InHand, Shaped, Fields, Deactivate, Operations
<1> HIDE DEF d
<1>3. /\ DOMAIN r = Fields /\ r.active = d.active /\ r.effects = d.effects
      /\ r.local = d.local /\ r.lifecycle = d.lifecycle
      /\ r.access = "ready" /\ r.barrier = FALSE
      /\ r.recovery.kind \in {"clear", "available"}
  BY <1>2, RecoveryOfIsAtRest DEF Fields
<1> HIDE DEF r
<1>4. InHand(r)
  <2>1. Shaped(r)
    BY <1>2, <1>3 DEF InHand, Shaped
  <2>2. Served(r)
    BY <1>2, <1>3 DEF Served, Unserved
  <2>3. Prepared(r)
    BY <1>2, <1>3 DEF InHand, Prepared, Preparations
  <2> QED BY <2>1, <2>2, <2>3 DEF InHand
<1>5. Still(r, i)
  BY <1>3, <1>4 DEF InHand, Shaped, Fields, Still, Unserved
<1>6. i.lifecycle = r.lifecycle
  BY <1>3 DEF Fields
<1> HIDE DEF i
<1>7. Keeps(r, i) /\ Keeps(s, r) /\ Open(r) /\ Open(i) /\ InHand(i)
  BY <1>2, <1>3, <1>4, <1>5, <1>6, StillKeeps DEF Keeps, Open
<1>8. Keeps(s, i)
  BY <1>7, KeepsOn
<1>9. CASE z = ContinueSynchronization(i)
  BY <1>7, <1>8, <1>9, ContinueSynchronizationFollows, FollowsOn DEF z
<1>10. CASE z = ResumeRecoveryCleanup(r)
  BY <1>4, <1>7, <1>10, ResumeRecoveryCleanupInHand, KeepsOn, KeepsFollows
     DEF z
<1>11. CASE z = Refuse(r, "recovery")
  BY <1>4, <1>7, <1>11, RefuseStill, StillKeeps, KeepsOn, KeepsFollows
     DEF z, InHand
<1> QED BY <1>1, <1>9, <1>10, <1>11

\* The merge with an external text ends in a conflict.
LEMMA PersistLocalConflictInHand ==
  ASSUME NEW s, InHand(s), s.local.kind # "preparing", NEW external, NEW local
  PROVE  Keeps(s, PersistLocalConflict(s, external, local))
<1> DEFINE revision == [number |-> s.source.number + 1,
                        text |-> external.text]
           q == [s EXCEPT !.source = revision,
                          !.baseline = Durable(revision, external.inode),
                          !.local = Clean, !.issue = None,
                          !.displaced = @ \cup {local}]
<1>1. PersistLocalConflict(s, external, local) \in
        {FailRecovery(s), StartRecoveryPersistence(q, local, None)}
  BY DEF PersistLocalConflict
<1> HIDE DEF revision
<1>2. Keeps(s, q)
  <2>1. /\ DOMAIN q = Fields /\ q.active = s.active /\ q.effects = s.effects
        /\ q.access = s.access /\ q.recovery = s.recovery
        /\ q.barrier = s.barrier /\ q.lifecycle = s.lifecycle
    BY DEF InHand, Shaped, Fields
  <2> HIDE DEF q
  <2> QED BY <2>1, LocalSet
<1> HIDE DEF q
<1>3. Keeps(s, StartRecoveryPersistence(q, local, None))
  BY <1>2, StartRecoveryPersistenceInHand, KeepsOn DEF Keeps
<1> QED BY <1>1, <1>3, FailRecoveryInHand

\* The merge of a contested commit ends in a conflict.
LEMMA PersistDisplacedConflictInHand ==
  ASSUME NEW s, InHand(s), s.local.kind # "preparing", NEW merge
  PROVE  Keeps(s, PersistDisplacedConflict(s, merge))
<1> DEFINE number == s.source.number + 1
           cleanup == [target |-> merge.origin.target, min |-> number,
                       purpose |-> "discardResolvedDisplacedPreimage"]
           q == [s EXCEPT !.source = [number |-> number,
                                    text |-> merge.external.text],
                        !.local = Dirty(0), !.issue = None,
                        !.displaced = @ \cup {merge.local.text}]
           p == StartRecoveryPersistence(q, merge.local.text, cleanup)
           z == [p EXCEPT !.unresolvedDisplaced = None]
<1>1. PersistDisplacedConflict(s, merge) \in {FailRecovery(s), z}
  BY DEF PersistDisplacedConflict
<1> HIDE DEF number, cleanup
<1>2. Keeps(s, q)
  <2>1. /\ DOMAIN q = Fields /\ q.active = s.active /\ q.effects = s.effects
        /\ q.access = s.access /\ q.recovery = s.recovery
        /\ q.barrier = s.barrier /\ q.lifecycle = s.lifecycle
    BY DEF InHand, Shaped, Fields
  <2> HIDE DEF q
  <2> QED BY <2>1, LocalSet
<1> HIDE DEF q
<1>3. Keeps(q, p) /\ InHand(p)
  BY <1>2, StartRecoveryPersistenceInHand DEF Keeps
<1> HIDE DEF p
<1>4. Still(p, z)
  BY <1>3 DEF InHand, Shaped, Fields, Still, Unserved
<1> HIDE DEF z
<1>5. Keeps(s, z)
  BY <1>2, <1>3, <1>4, StillKeeps, KeepsOn
<1> QED BY <1>1, <1>5, FailRecoveryInHand

-----------------------------------------------------------------------------
(* The handlers.                                                           *)

\* The user edits.
LEMMA SourceChangedFollows ==
  ASSUME NEW s, InHand(s), Open(s), Formed(s), NEW text
  PROVE  Follows(s, SourceChanged(s, text))
<1> DEFINE edited == [s EXCEPT !.source =
                        [number |-> @.number + 1, text |-> text]]
           cleared == [edited EXCEPT !.issue = None]
           s1 == IF \/ RecoveryBlocksAutomation(edited)
                    \/ s.issue = "destinationRequiresSaveAs"
                 THEN edited ELSE cleared
           m == InvalidateMerge(s1)
           s2 == InvalidatePreparation(m)
           clean == [s2 EXCEPT !.baseline = Rebased(@, s2.source),
                               !.local = Clean,
                               !.issue = IF @ = "destinationRequiresSaveAs"
                                         THEN None ELSE @]
           dirty == [s2 EXCEPT !.local = Dirty(0)]
           s3 == IF s2.baseline.text = text THEN clean ELSE dirty
           s4 == IF s3.signalPending THEN ScheduleExternalRead(s3) ELSE s3
           z == SourceChanged(s, text)
<1>1. z \in {ScheduleExternalRead(s2), s2, s4, ContinueSynchronization(s4)}
  BY DEF SourceChanged
<1> HIDE DEF z
<1>2. Still(s, edited) /\ Still(edited, cleared) /\ edited.local = s.local
      /\ cleared.local = s.local
      /\ edited.lifecycle = s.lifecycle /\ cleared.lifecycle = s.lifecycle
      /\ DOMAIN edited = Fields /\ DOMAIN cleared = Fields
      /\ edited.active = s.active /\ cleared.active = s.active
      /\ edited.cleanup = s.cleanup /\ cleared.cleanup = s.cleanup
  BY DEF InHand, Shaped, Fields, Still, Unserved
<1> HIDE DEF edited, cleared
<1>3. Still(s, cleared)
  BY <1>2, StillOn
<1>4. Still(s, s1) /\ Formed(s1) /\ InHand(s1)
  <2>1. Still(s, s1)
    BY <1>2, <1>3
  <2>2. Formed(edited) /\ Formed(cleared)
    BY <1>2 DEF Formed
  <2>3. Formed(s1)
    BY <2>2
  <2> HIDE DEF s1
  <2> QED BY <2>1, <2>3, StillKeeps DEF Keeps
<1> HIDE DEF s1
<1>5. Keeps(s1, m) /\ Formed(m) /\ InHand(m)
  BY <1>4, InvalidateMergeStill, StillKeeps, InvalidateMergeAlike,
     AlikeIsOrderly DEF InHand, Resembles, Keeps
<1> HIDE DEF m
<1>6. Keeps(m, s2) /\ s2.local.kind # "preparing" /\ InHand(s2)
  BY <1>5, InvalidatePreparationInHand DEF Keeps
<1> HIDE DEF s2
<1>7. Keeps(s, s2)
  BY <1>4, <1>5, <1>6, StillKeeps, KeepsOn
<1>8. Keeps(s2, s3)
  <2>1. /\ DOMAIN s3 = Fields /\ s3.active = s2.active
        /\ s3.effects = s2.effects
        /\ s3.access = s2.access /\ s3.recovery = s2.recovery
        /\ s3.barrier = s2.barrier /\ s3.lifecycle = s2.lifecycle
    BY <1>6 DEF InHand, Shaped, Fields
  <2> HIDE DEF s3
  <2> QED BY <1>6, <2>1, LocalSet
<1> HIDE DEF s3
<1>9. Keeps(s3, s4) /\ InHand(s4)
  <2>1. Keeps(s3, ScheduleExternalRead(s3)) /\ Keeps(s3, s3)
    BY <1>8, ScheduleExternalReadStill, StillKeeps DEF Keeps, InHand
  <2> QED BY <2>1 DEF Keeps
<1> HIDE DEF s4
<1>10. Keeps(s, s4)
  BY <1>7, <1>8, <1>9, KeepsOn
<1>11. Follows(s, s4) /\ Follows(s, s2) /\ Open(s4)
  BY <1>7, <1>10, KeepsFollows
<1>12. Follows(s, ScheduleExternalRead(s2))
  <2>1. Keeps(s2, ScheduleExternalRead(s2))
    BY <1>6, ScheduleExternalReadStill, StillKeeps DEF InHand
  <2> QED BY <1>7, <2>1, KeepsOn, KeepsFollows
<1>13. Follows(s, ContinueSynchronization(s4))
  BY <1>9, <1>10, <1>11, ContinueSynchronizationFollows, FollowsOn
<1> QED BY <1>1, <1>11, <1>12, <1>13 DEF z

\* No preparation will be accepted.
LEMMA NotPreparing ==
  ASSUME NEW s, InHand(s), s.local.kind # "preparing"
  PROVE  Preparations(s) = {}
BY DEF InHand, Prepared

\* No preparation is started by such a change.
LEMMA StillFree ==
  ASSUME NEW s, Shaped(s), Preparations(s) = {}, NEW r, Still(s, r)
  PROVE  Preparations(r) = {}
<1>1. SUFFICES ASSUME NEW e \in Preparations(r)
               PROVE  FALSE
  OBVIOUS
<1>2. e \in s.effects /\ e.kind = "prepareSave" /\ e.token # 0
      /\ e.token = r.active["savePreparation"]
  BY <1>1 DEF Preparations, Still, Shaped
<1>3. e \in Preparations(s)
  BY <1>2 DEF Preparations, Still
<1> QED BY <1>3

\* The local state may change when no preparation will be accepted.
LEMMA FreeSet ==
  ASSUME NEW s, InHand(s), Preparations(s) = {}, NEW r,
         DOMAIN r = Fields, r.active = s.active, r.effects = s.effects,
         r.access = s.access, r.recovery = s.recovery,
         r.barrier = s.barrier, r.lifecycle = s.lifecycle
  PROVE  Keeps(s, r) /\ Preparations(r) = {}
<1>1. Shaped(r)
  BY DEF InHand, Shaped
<1>2. Served(r)
  BY DEF InHand, Served, Unserved
<1>3. Preparations(r) = {}
  BY DEF Preparations
<1> QED BY <1>1, <1>2, <1>3 DEF Keeps, InHand, Prepared

\* The user or AppKit asks for a save.
LEMMA SaveRequestedInHand ==
  ASSUME NEW s, InHand(s), Formed(s)
  PROVE  Keeps(s, SaveRequested(s))
<1> DEFINE i == InvalidatePreparation(s)
<1>1. SaveRequested(s) \in {s, ScheduleLocalSave(i)}
  BY DEF SaveRequested
<1>2. Keeps(s, i)
  BY InvalidatePreparationInHand
<1> HIDE DEF i
<1>3. Keeps(s, ScheduleLocalSave(i))
  BY <1>2, ScheduleLocalSaveInHand, KeepsOn DEF Keeps
<1> QED BY <1>1, <1>3 DEF Keeps

\* The save whose delay is over is being prepared.
LEMMA LocalSaveDeadlineInHand ==
  ASSUME NEW s, InHand(s), s.active["savePreparation"] # 0
  PROVE  Keeps(s, LocalSaveDeadlineFired(s))
<1> DEFINE t == s.active["savePreparation"]
           p == [s EXCEPT !.local = [kind |-> "preparing", token |-> t,
                                rev |-> s.source, expected |-> s.baseline]]
           e == Effect("prepareSave", "savePreparation", t, None)
           r == Emit(p, e)
<1>1. r = LocalSaveDeadlineFired(s)
  BY DEF LocalSaveDeadlineFired
<1>2. /\ DOMAIN p = Fields /\ p.active = s.active /\ p.access = s.access
      /\ p.recovery = s.recovery /\ p.barrier = s.barrier
      /\ p.lifecycle = s.lifecycle /\ p.effects = s.effects
      /\ p.local.kind = "preparing"
  BY DEF InHand, Shaped, Fields
<1>3. e.kind = "prepareSave" /\ e.op = "savePreparation" /\ e.token # 0
  BY DEF Effect
<1> HIDE DEF p, e
<1>4. /\ DOMAIN r = Fields /\ r.active = p.active /\ r.access = p.access
      /\ r.recovery = p.recovery /\ r.barrier = p.barrier
      /\ r.lifecycle = p.lifecycle /\ r.effects = p.effects \cup {e}
      /\ r.local = p.local
  BY <1>2 DEF Emit, Fields
<1> HIDE DEF r
<1>5. IsFiniteSet(r.effects)
  BY <1>2, <1>4, FS_AddElement DEF InHand, Shaped
<1>6. Shaped(r)
  BY <1>2, <1>3, <1>4, <1>5 DEF InHand, Shaped
<1>7. Unserved(r) = Unserved(s)
  BY <1>2, <1>3, <1>4 DEF Unserved
<1>8. Served(r)
  BY <1>2, <1>4, <1>7 DEF InHand, Served
<1>9. Prepared(r)
  BY <1>2, <1>4 DEF Prepared
<1> QED BY <1>1, <1>2, <1>4, <1>6, <1>8, <1>9 DEF Keeps, InHand

\* The outcome of a commit is looked up.
LEMMA StartCommitReconciliationStill ==
  ASSUME NEW s, Shaped(s)
  PROVE  Still(s, StartCommitReconciliation(s))
<1> DEFINE q == [original |-> s.uncertain.token, rev |-> s.uncertain.rev,
                 expected |-> s.uncertain.expected]
           r == Start(s, "reconcileCommit", "commitReconciliation", q)
           z == [r EXCEPT !.uncertain.reconciliation =
                   r.active["commitReconciliation"]]
<1>1. StartCommitReconciliation(s) \in {s, z}
  BY DEF StartCommitReconciliation
<1> HIDE DEF q
<1>2. Still(s, r) /\ Shaped(r)
  BY StartStill DEF Operations
<1> HIDE DEF r
<1>3. Still(r, z)
  BY <1>2 DEF Shaped, Fields, Still, Unserved
<1> HIDE DEF z
<1> QED BY <1>1, <1>2, <1>3, StillOn, StillSame

\* The answer of a commit does not say what happened.
LEMMA EnterUncertainInHand ==
  ASSUME NEW s, InHand(s), Preparations(s) = {}
  PROVE  Keeps(s, EnterUncertainCommitOutcome(s))
<1> DEFINE d == Deactivate(s, "saveCommit")
           r == [d EXCEPT
              !.local = Dirty(0), !.issue = "recovery",
              !.uncertain = [token |-> s.local.token, reconciliation |-> 0,
                             rev |-> s.local.rev,
                             expected |-> s.local.expected]]
           c == StartCommitReconciliation(r)
<1>1. Keeps(s, d) /\ InHand(d) /\ Preparations(d) = {}
  BY DeactivateStill, StillKeeps, StillFree DEF InHand, Operations, Keeps
<1> HIDE DEF d
<1>2. /\ DOMAIN r = Fields /\ r.active = d.active /\ r.effects = d.effects
      /\ r.access = d.access /\ r.recovery = d.recovery
      /\ r.barrier = d.barrier /\ r.lifecycle = d.lifecycle
  BY <1>1 DEF InHand, Shaped, Fields
<1> HIDE DEF r
<1>3. Keeps(d, r) /\ InHand(r)
  BY <1>1, <1>2, FreeSet DEF Keeps
<1>4. Keeps(r, c) /\ InHand(c)
  BY <1>3, StartCommitReconciliationStill, StillKeeps DEF InHand, Keeps
<1> HIDE DEF c
<1>5. Keeps(c, RefuseCloseIfNeeded(c))
  BY <1>4, RefuseCloseStill, StillKeeps DEF InHand
<1>6. Keeps(s, RefuseCloseIfNeeded(c))
  BY <1>1, <1>3, <1>4, <1>5, KeepsOn
<1> QED BY <1>6 DEF EnterUncertainCommitOutcome, c, r, d

\* A preparation that has answered is not the one that is waited for.
LEMMA PreparationEnds ==
  ASSUME NEW s, InHand(s)
  PROVE  LET d == Deactivate(s, "savePreparation") IN
         Keeps(s, d) /\ Preparations(d) = {}
<1> DEFINE d == Deactivate(s, "savePreparation")
<1>1. Keeps(s, d) /\ Shaped(d)
  BY DeactivateStill, StillKeeps DEF InHand, Operations, Keeps
<1>2. d.active["savePreparation"] = 0
  BY DEF InHand, Shaped, Deactivate, Fields, Operations
<1> HIDE DEF d
<1>3. Preparations(d) = {}
  BY <1>1, <1>2 DEF Preparations, Shaped
<1> QED BY <1>1, <1>3 DEF d

\* A save is prepared.
LEMMA SavePreparedInHand ==
  ASSUME NEW s, InHand(s)
  PROVE  Keeps(s, SavePrepared(s))
<1> DEFINE r == Deactivate(s, "savePreparation")
           t == FreshToken(s, "saveCommit")
           w == [r EXCEPT !.active["saveCommit"] = t,
                          !.local = [@ EXCEPT !.kind = "writing",
                                              !.token = t]]
           e == Effect("commit", "saveCommit", t,
                               [rev |-> s.local.rev, validated |-> FALSE,
                                expected |-> s.local.expected])
<1>1. SavePrepared(s) \in {s, EnterUncertainCommitOutcome(w), Emit(w, e)}
  BY DEF SavePrepared
<1>2. Keeps(s, r) /\ InHand(r) /\ Preparations(r) = {}
  BY PreparationEnds DEF Keeps
<1>3. e.kind = "commit"
  BY DEF Effect
<1> HIDE DEF r, t, e
<1>4. /\ DOMAIN w = Fields /\ DOMAIN w.active = Operations
      /\ w.active["recovery"] = r.active["recovery"]
      /\ w.active["savePreparation"] = r.active["savePreparation"]
      /\ w.effects = r.effects
      /\ w.access = r.access /\ w.recovery = r.recovery
      /\ w.barrier = r.barrier /\ w.lifecycle = r.lifecycle
  BY <1>2 DEF InHand, Shaped, Fields, Operations
<1> HIDE DEF w
<1>5. Shaped(w)
  BY <1>2, <1>4 DEF InHand, Shaped
<1>6. Served(w)
  BY <1>2, <1>4 DEF InHand, Served, Unserved
<1>7. Preparations(w) = {}
  BY <1>2, <1>4 DEF Preparations
<1>8. Keeps(s, w) /\ InHand(w)
  BY <1>2, <1>4, <1>5, <1>6, <1>7 DEF InHand, Prepared, Keeps
<1>9. Keeps(w, Emit(w, e))
  BY <1>3, <1>8, EmitStill, StillKeeps DEF InHand
<1>10. Keeps(w, EnterUncertainCommitOutcome(w))
  BY <1>7, <1>8, EnterUncertainInHand
<1>11. Keeps(s, s)
  BY DEF Keeps
<1> QED BY <1>1, <1>8, <1>9, <1>10, <1>11, KeepsOn

\* The preparation of a save fails.
LEMMA SavePreparationFailedInHand ==
  ASSUME NEW s, InHand(s)
  PROVE  Keeps(s, SavePreparationFailed(s))
<1> DEFINE d == Deactivate(s, "savePreparation")
           q == [d EXCEPT !.local = Dirty(0)]
<1>1. Keeps(s, d) /\ InHand(d) /\ Preparations(d) = {}
  BY PreparationEnds DEF Keeps
<1> HIDE DEF d
<1>2. /\ DOMAIN q = Fields /\ q.active = d.active /\ q.effects = d.effects
      /\ q.access = d.access /\ q.recovery = d.recovery
      /\ q.barrier = d.barrier /\ q.lifecycle = d.lifecycle
  BY <1>1 DEF InHand, Shaped, Fields
<1> HIDE DEF q
<1>3. Keeps(d, q) /\ InHand(q)
  BY <1>1, <1>2, FreeSet DEF Keeps
<1>4. Keeps(q, Refuse(q, "localSave"))
  BY <1>3, RefuseStill, StillKeeps DEF InHand
<1>5. Keeps(s, Refuse(q, "localSave"))
  BY <1>1, <1>3, <1>4, KeepsOn
<1> QED BY <1>5 DEF SavePreparationFailed, q, d

\* The journals show that a commit did not start.
LEMMA CommitProvenNotStartedInHand ==
  ASSUME NEW s, InHand(s), Preparations(s) = {}, NEW failure
  PROVE  Keeps(s, CommitProvenNotStarted(s, failure))
<1> DEFINE d == Deactivate(s, "saveCommit")
           q == [d EXCEPT !.local = Dirty(0)]
<1>1. Keeps(s, d) /\ InHand(d) /\ Preparations(d) = {}
  BY DeactivateStill, StillKeeps, StillFree DEF InHand, Operations, Keeps
<1> HIDE DEF d
<1>2. /\ DOMAIN q = Fields /\ q.active = d.active /\ q.effects = d.effects
      /\ q.access = d.access /\ q.recovery = d.recovery
      /\ q.barrier = d.barrier /\ q.lifecycle = d.lifecycle
  BY <1>1 DEF InHand, Shaped, Fields
<1> HIDE DEF q
<1>3. Keeps(d, q) /\ InHand(q)
  BY <1>1, <1>2, FreeSet DEF Keeps
<1>4. Keeps(q, Refuse(q, failure))
  BY <1>3, RefuseStill, StillKeeps DEF InHand
<1>5. Keeps(s, Refuse(q, failure))
  BY <1>1, <1>3, <1>4, KeepsOn
<1> QED BY <1>5 DEF CommitProvenNotStarted, q, d

\* A commit has succeeded.
LEMMA SaveFinishedFollows ==
  ASSUME NEW s, InHand(s), Open(s), Preparations(s) = {}, NEW answer
  PROVE  Follows(s, SaveFinished(s, answer))
<1> DEFINE displaced == answer.displaced
           committed == Durable(s.local.rev, answer.inode)
           d == Deactivate(s, "saveCommit")
           s1 == [d EXCEPT
                    !.issue = IF @ \in {"localSave", "closeDeadline"}
                              THEN None ELSE @]
           continuation ==
             [id |-> displaced.id, text |-> displaced.text,
              mergeBase |-> s.local.expected.text, localRev |-> s.source,
              pre |-> s.local.expected, committed |-> committed]
           p == [s1 EXCEPT !.local = Dirty(0),
                           !.pendingDisplaced = continuation]
           s2 == [s1 EXCEPT !.baseline = committed]
           s3 == IF s.merge # None /\ s.merge.baseline # committed
                 THEN InvalidateMerge(s2) ELSE s2
           clean == [s3 EXCEPT !.baseline = Rebased(@, s.source),
                               !.local = Clean]
           dirty == [s3 EXCEPT !.local = Dirty(0)]
           s4 == IF s.source.text = s.local.rev.text THEN clean ELSE dirty
           z == SaveFinished(s, answer)
<1>1. \/ z = FailRecovery(s1)
      \/ z = StartDisplacedPersistence(p, continuation)
      \/ z = ResumeRecoveryCleanup(s4)
      \/ z = ContinueSynchronization(s4)
  BY DEF SaveFinished
<1> HIDE DEF z
<1>2. Still(s, d) /\ InHand(d) /\ Preparations(d) = {}
  BY DeactivateStill, StillKeeps, StillFree DEF InHand, Operations, Keeps
<1> HIDE DEF d
<1>3. Still(d, s1)
  BY <1>2 DEF InHand, Shaped, Fields, Still, Unserved
<1> HIDE DEF s1, continuation, committed
<1>4. Keeps(s, s1) /\ InHand(s1) /\ Preparations(s1) = {}
  BY <1>2, <1>3, StillKeeps, StillOn, StillFree DEF InHand, Keeps
<1>5. /\ DOMAIN p = Fields /\ p.active = s1.active /\ p.effects = s1.effects
      /\ p.access = s1.access /\ p.recovery = s1.recovery
      /\ p.barrier = s1.barrier /\ p.lifecycle = s1.lifecycle
  BY <1>4 DEF InHand, Shaped, Fields
<1> HIDE DEF p
<1>6. Keeps(s, p) /\ InHand(p)
  BY <1>4, <1>5, FreeSet, KeepsOn DEF Keeps
<1>7. Still(s1, s2)
  BY <1>4 DEF InHand, Shaped, Fields, Still, Unserved
<1> HIDE DEF s2
<1>8. Keeps(s, s2) /\ InHand(s2) /\ Preparations(s2) = {}
  BY <1>4, <1>7, StillKeeps, KeepsOn, StillFree DEF InHand, Keeps
<1>9. Still(s2, s3)
  BY <1>8, InvalidateMergeStill, StillSame DEF InHand
<1> HIDE DEF s3
<1>10. Keeps(s, s3) /\ InHand(s3) /\ Preparations(s3) = {}
  BY <1>8, <1>9, StillKeeps, KeepsOn, StillFree DEF InHand, Keeps
<1>11. /\ DOMAIN s4 = Fields /\ s4.active = s3.active
       /\ s4.effects = s3.effects
       /\ s4.access = s3.access /\ s4.recovery = s3.recovery
       /\ s4.barrier = s3.barrier /\ s4.lifecycle = s3.lifecycle
  BY <1>10 DEF InHand, Shaped, Fields
<1> HIDE DEF s4
<1>12. Keeps(s, s4) /\ InHand(s4) /\ Open(s4)
  BY <1>10, <1>11, FreeSet, KeepsOn, KeepsFollows DEF Keeps
<1>13. CASE z = FailRecovery(s1)
  BY <1>4, <1>13, FailRecoveryInHand, KeepsOn, KeepsFollows DEF z
<1>14. CASE z = StartDisplacedPersistence(p, continuation)
  BY <1>6, <1>14, StartDisplacedPersistenceInHand, KeepsOn, KeepsFollows DEF z
<1>15. CASE z = ResumeRecoveryCleanup(s4)
  BY <1>12, <1>15, ResumeRecoveryCleanupInHand, KeepsOn, KeepsFollows DEF z
<1>16. CASE z = ContinueSynchronization(s4)
  BY <1>12, <1>16, ContinueSynchronizationFollows, FollowsOn DEF z
<1> QED BY <1>1, <1>13, <1>14, <1>15, <1>16

\* The outcome of an uncertain commit is known, or is not.
LEMMA CommitReconciliationFinishedFollows ==
  ASSUME NEW s, InHand(s), Open(s), Preparations(s) = {}, NEW answer,
         answer.outcome \in {"committed", "notCommitted", "unresolved"}
  PROVE  Follows(s, CommitReconciliationFinished(s, answer))
<1> DEFINE d == Deactivate(s, "commitReconciliation")
           u == [d EXCEPT !.uncertain.reconciliation = 0]
           n == [d EXCEPT !.uncertain = None, !.local = Dirty(0),
                         !.issue = None]
           c == [d EXCEPT !.uncertain = None, !.issue = None,
                         !.active["saveCommit"] = s.uncertain.token,
                         !.local = [kind |-> "writing",
                                    token |-> s.uncertain.token,
                                    rev |-> s.uncertain.rev,
                                    expected |-> s.uncertain.expected]]
           z == CommitReconciliationFinished(s, answer)
<1>1. z \in {Refuse(u, "recovery"), ContinueSynchronization(n),
             SaveFinished(c, answer)}
  BY DEF CommitReconciliationFinished
<1> HIDE DEF z
<1>2. Keeps(s, d) /\ InHand(d) /\ Preparations(d) = {}
  BY DeactivateStill, StillKeeps, StillFree DEF InHand, Operations, Keeps
<1> HIDE DEF d
<1>3. Keeps(s, u) /\ InHand(u)
  <2>1. Still(d, u)
    BY <1>2 DEF InHand, Shaped, Fields, Still, Unserved
  <2> QED BY <1>2, <2>1, StillKeeps, KeepsOn DEF Keeps
<1>4. Keeps(s, n) /\ InHand(n) /\ Open(n)
  <2>1. /\ DOMAIN n = Fields /\ n.active = d.active /\ n.effects = d.effects
        /\ n.access = d.access /\ n.recovery = d.recovery
        /\ n.barrier = d.barrier /\ n.lifecycle = d.lifecycle
    BY <1>2 DEF InHand, Shaped, Fields
  <2> HIDE DEF n
  <2> QED BY <1>2, <2>1, FreeSet, KeepsOn, KeepsFollows DEF Keeps
<1>5. Keeps(s, c) /\ InHand(c) /\ Open(c) /\ Preparations(c) = {}
  <2>1. /\ DOMAIN c = Fields /\ DOMAIN c.active = Operations
        /\ c.active["recovery"] = d.active["recovery"]
        /\ c.active["savePreparation"] = d.active["savePreparation"]
        /\ c.effects = d.effects
        /\ c.access = d.access /\ c.recovery = d.recovery
        /\ c.barrier = d.barrier /\ c.lifecycle = d.lifecycle
    BY <1>2 DEF InHand, Shaped, Fields, Operations
  <2> HIDE DEF c
  <2>2. Shaped(c)
    BY <1>2, <2>1 DEF InHand, Shaped
  <2>3. Served(c)
    BY <1>2, <2>1 DEF InHand, Served, Unserved
  <2>4. Preparations(c) = {}
    BY <1>2, <2>1 DEF Preparations
  <2>5. Keeps(d, c)
    BY <2>1, <2>2, <2>3, <2>4 DEF InHand, Prepared, Keeps
  <2> QED BY <1>2, <2>4, <2>5, KeepsOn, KeepsFollows DEF Keeps
<1> HIDE DEF u, n, c
<1>6. Follows(s, Refuse(u, "recovery"))
  BY <1>3, RefuseStill, StillKeeps, KeepsOn, KeepsFollows DEF InHand
<1>7. Follows(s, ContinueSynchronization(n))
  BY <1>4, ContinueSynchronizationFollows, FollowsOn
<1>8. Follows(s, SaveFinished(c, answer))
  BY <1>5, SaveFinishedFollows, FollowsOn
<1> QED BY <1>1, <1>6, <1>7, <1>8 DEF z

\* The file monitor signals.
LEMMA MonitorSignaledStill ==
  ASSUME NEW s, Shaped(s)
  PROVE  Still(s, MonitorSignaled(s))
<1> DEFINE p == [s EXCEPT !.signalPending = TRUE]
<1>1. MonitorSignaled(s) \in {s, p, ScheduleExternalRead(s)}
  BY DEF MonitorSignaled
<1>2. Still(s, p)
  BY DEF Shaped, Fields, Still, Unserved
<1> HIDE DEF p
<1> QED BY <1>1, <1>2, ScheduleExternalReadStill, StillSame

\* The delay before a read is over.
LEMMA ExternalReadDeadlineStill ==
  ASSUME NEW s, Shaped(s)
  PROVE  Still(s, ExternalReadDeadlineFired(s))
<1> DEFINE p == [s EXCEPT !.external.kind = "reading"]
           e == Effect("read", "externalRead", s.active["externalRead"],
                       [expected |-> s.external.expected])
<1>1. ExternalReadDeadlineFired(s) = Emit(p, e)
  BY DEF ExternalReadDeadlineFired
<1>2. Still(s, p)
  BY DEF Shaped, Fields, Still, Unserved
<1>3. e.kind = "read"
  BY DEF Effect
<1> HIDE DEF p, e
<1> QED BY <1>1, <1>2, <1>3, EmitStill, StillShaped, StillOn

\* A merge starts.
LEMMA StartMergeStill ==
  ASSUME NEW s, Shaped(s), NEW merge
  PROVE  Still(s, StartMerge(s, merge))
<1> DEFINE r == Start(s, "merge", "merge", None)
           z == [r EXCEPT !.merge = [merge EXCEPT !.token = r.active["merge"]]]
<1>1. Still(s, r) /\ Shaped(r)
  BY StartStill DEF Operations
<1>2. StartMerge(s, merge) = z
  BY DEF StartMerge
<1> HIDE DEF r
<1>3. Still(r, z)
  BY <1>1 DEF Shaped, Fields, Still, Unserved
<1> HIDE DEF z
<1> QED BY <1>1, <1>2, <1>3, StillOn

\* A text read from the file is merged with unsaved edits.
LEMMA MergeWithLocalInHand ==
  ASSUME NEW s, InHand(s), Formed(s), NEW external
  PROVE  Keeps(s, MergeWithLocal(s, external))
<1> DEFINE i == InvalidatePreparation(s)
           m == ExternalMerge(s, external)
<1>1. Keeps(s, i) /\ InHand(i)
  BY InvalidatePreparationInHand DEF Keeps
<1> HIDE DEF i, m
<1>2. Keeps(i, StartMerge(i, m))
  BY <1>1, StartMergeStill, StillKeeps DEF InHand
<1>3. Keeps(s, StartMerge(i, m))
  BY <1>1, <1>2, KeepsOn
<1> QED BY <1>3 DEF MergeWithLocal, i, m

\* A read of the file ends.
LEMMA ExternalReadFinishedFollows ==
  ASSUME NEW s, InHand(s), Open(s), Formed(s), NEW answer,
         answer.outcome \in {"failed", "unchanged", "missing", "changed"}
  PROVE  Follows(s, ExternalReadFinished(s, answer))
<1> DEFINE d == Deactivate(s, "externalRead")
           r == [d EXCEPT !.external = Idle]
           revision == [number |-> s.source.number + 1,
                        text |-> answer.file.text]
           p == [r EXCEPT !.signalPending = TRUE]
           q == [r EXCEPT !.source = revision,
                          !.baseline = Durable(revision, answer.file.inode),
                          !.issue = None]
           z == ExternalReadFinished(s, answer)
<1>1. z \in {Refuse(r, "externalRead"), ContinueSynchronization(p),
             ContinueSynchronization(r), Refuse(r, "attachment"), p,
             MergeWithLocal(r, answer.file), ContinueSynchronization(q)}
  <2>1. \/ s.local.kind = "writing"
        \/ s.local.kind \in {"dirty", "preparing"}
        \/ s.local.kind = "clean"
    BY DEF Formed, Clean
  <2> QED BY <2>1 DEF ExternalReadFinished
<1> HIDE DEF z, revision
<1>2. Still(s, d) /\ Formed(d) /\ Shaped(d)
  BY DeactivateStill, StillShaped, DeactivateAlike, AlikeIsOrderly
     DEF InHand, Operations, Resembles
<1> HIDE DEF d
<1>3. Still(d, r) /\ Formed(r)
  BY <1>2 DEF Formed, Shaped, Fields, Still, Unserved
<1> HIDE DEF r
<1>4. Keeps(s, r) /\ InHand(r) /\ Open(r)
  BY <1>2, <1>3, StillOn, StillKeeps, KeepsFollows DEF Keeps
<1>5. Still(r, p) /\ Still(r, q)
  BY <1>4 DEF InHand, Shaped, Fields, Still, Unserved
<1> HIDE DEF p, q
<1>6. /\ Keeps(s, p) /\ InHand(p) /\ Open(p)
      /\ Keeps(s, q) /\ InHand(q) /\ Open(q)
  BY <1>4, <1>5, StillKeeps, KeepsOn, KeepsFollows DEF Keeps
<1>7. /\ Follows(s, ContinueSynchronization(r))
      /\ Follows(s, ContinueSynchronization(p))
      /\ Follows(s, ContinueSynchronization(q))
  BY <1>4, <1>6, ContinueSynchronizationFollows, FollowsOn
<1>8. \A failure : Follows(s, Refuse(r, failure))
  BY <1>4, RefuseStill, StillKeeps, KeepsOn, KeepsFollows DEF InHand
<1>9. Follows(s, MergeWithLocal(r, answer.file))
  BY <1>3, <1>4, MergeWithLocalInHand, KeepsOn, KeepsFollows
<1>10. Follows(s, p)
  BY <1>6, KeepsFollows
<1> QED BY <1>1, <1>7, <1>8, <1>9, <1>10 DEF z

\* A merge ends.
LEMMA MergeFinishedFollows ==
  ASSUME NEW s, InHand(s), Open(s), s.local.kind # "preparing", NEW outcome
  PROVE  Follows(s, MergeFinished(s, outcome))
<1> DEFINE m == s.merge
           d == Deactivate(s, "merge")
           r == [d EXCEPT !.merge = None]
           observed == Durable([m.local EXCEPT !.text = m.external.text],
                               m.external.inode)
           u == [r EXCEPT !.unresolvedDisplaced = m.origin.continuation]
           p == [r EXCEPT !.signalPending = TRUE]
           merged == [r EXCEPT !.source = [number |-> s.source.number + 1,
                                           text |-> outcome],
                               !.local = Dirty(0), !.issue = None]
           b == [merged EXCEPT !.baseline = observed]
           c == [merged EXCEPT
                       !.unresolvedDisplaced = None,
                       !.cleanup =
                         [records |-> m.origin.records,
                          target |-> m.origin.target,
                          purpose |-> "discardResolvedDisplacedPreimage",
                          min |-> s.source.number + 1]]
           z == MergeFinished(s, outcome)
<1>1. z \in {Refuse(u, "recovery"), ContinueSynchronization(p),
             ContinueSynchronization(b), FailRecovery(merged),
             ContinueSynchronization(c),
             PersistLocalConflict(r, m.external, m.local.text),
             PersistDisplacedConflict(r, m)}
  BY DEF MergeFinished
<1> HIDE DEF z, observed, m
<1>2. Still(s, d) /\ Shaped(d) /\ d.local = s.local
  BY DeactivateStill, StillShaped DEF InHand, Operations, Still
<1> HIDE DEF d
<1>3. Still(d, r) /\ r.local = d.local
  BY <1>2 DEF Shaped, Fields, Still, Unserved
<1> HIDE DEF r
<1>4. Keeps(s, r) /\ InHand(r) /\ r.local.kind # "preparing"
  BY <1>2, <1>3, StillOn, StillKeeps DEF Keeps
<1>5. Still(r, p) /\ Still(r, u)
  BY <1>4 DEF InHand, Shaped, Fields, Still, Unserved
<1> HIDE DEF p, u
<1>6. /\ DOMAIN merged = Fields /\ merged.active = r.active
      /\ merged.effects = r.effects
      /\ merged.access = r.access /\ merged.recovery = r.recovery
      /\ merged.barrier = r.barrier /\ merged.lifecycle = r.lifecycle
  BY <1>4 DEF InHand, Shaped, Fields
<1> HIDE DEF merged
<1>7. Keeps(s, merged) /\ InHand(merged)
  BY <1>4, <1>6, LocalSet, KeepsOn DEF Keeps
<1>8. Still(merged, b) /\ Still(merged, c)
  BY <1>7 DEF InHand, Shaped, Fields, Still, Unserved
<1> HIDE DEF b, c
<1>9. /\ Keeps(s, p) /\ InHand(p) /\ Open(p)
      /\ Keeps(s, u) /\ InHand(u) /\ Open(u)
  BY <1>4, <1>5, StillKeeps, KeepsOn, KeepsFollows DEF Keeps
<1>10. /\ Keeps(s, b) /\ InHand(b) /\ Open(b)
       /\ Keeps(s, c) /\ InHand(c) /\ Open(c)
  BY <1>7, <1>8, StillKeeps, KeepsOn, KeepsFollows DEF Keeps
<1>11. /\ Follows(s, ContinueSynchronization(p))
       /\ Follows(s, ContinueSynchronization(b))
       /\ Follows(s, ContinueSynchronization(c))
  BY <1>9, <1>10, ContinueSynchronizationFollows, FollowsOn
<1>12. Follows(s, Refuse(u, "recovery"))
  BY <1>9, RefuseStill, StillKeeps, KeepsOn, KeepsFollows DEF InHand
<1>13. Follows(s, FailRecovery(merged))
  BY <1>7, FailRecoveryInHand, KeepsOn, KeepsFollows
<1>14. /\ Follows(s, PersistLocalConflict(r, m.external, m.local.text))
       /\ Follows(s, PersistDisplacedConflict(r, m))
  BY <1>4, PersistLocalConflictInHand, PersistDisplacedConflictInHand,
     KeepsOn, KeepsFollows
<1> QED BY <1>1, <1>11, <1>12, <1>13, <1>14 DEF z

\* The file monitor fails.
LEMMA MonitorFailedStill ==
  ASSUME NEW s, Shaped(s)
  PROVE  Still(s, MonitorFailed(s))
<1> DEFINE d == Deactivate(s, "monitor")
           z == [d EXCEPT !.issue = "monitor"]
<1>1. Still(s, d) /\ Shaped(d)
  BY DeactivateStill, StillShaped DEF Operations
<1> HIDE DEF d
<1>2. Still(d, z)
  BY <1>1 DEF Shaped, Fields, Still, Unserved
<1> HIDE DEF z
<1>3. Still(s, z)
  BY <1>1, <1>2, StillOn
<1> QED BY <1>3 DEF MonitorFailed, z, d

\* Loaded records complete the cleanup that waits.
LEMMA CarryCleanupStill ==
  ASSUME NEW s, Shaped(s), NEW records
  PROVE  Still(s, CarryCleanup(s, records))
BY DEF CarryCleanup, Shaped, Fields, Still, Unserved

\* The loser of a conflict is stored.
LEMMA ConflictPersistedStill ==
  ASSUME NEW s, Shaped(s), NEW attempt, NEW records
  PROVE  Still(s, ConflictPersisted(s, attempt, records))
<1> DEFINE c == CleanupAfterPersist(s, attempt, records)
<1> HIDE DEF c
<1>1. ConflictPersisted(s, attempt, records) =
        [s EXCEPT !.pendingConflict = None, !.cleanup = c]
  BY DEF ConflictPersisted, c
<1> QED BY <1>1 DEF Shaped, Fields, Still, Unserved

\* Records are discarded.
LEMMA DiscardedStill ==
  ASSUME NEW s, Shaped(s), NEW attempt, NEW records
  PROVE  Still(s, Discarded(s, attempt, records))
<1> DEFINE n == [s EXCEPT !.cleanup = None]
           a == AfterDiscardCleanup(s, attempt, records)
<1>1. a \in {s, n, CarryCleanup(s, records)}
  BY DEF AfterDiscardCleanup
<1>2. Still(s, n)
  BY DEF Shaped, Fields, Still, Unserved
<1> HIDE DEF n, a
<1>3. Still(s, a) /\ Shaped(a)
  BY <1>1, <1>2, CarryCleanupStill, StillSame, StillShaped
<1>4. Still(a, ClearUnresolved(a, attempt))
  BY <1>3 DEF ClearUnresolved, Shaped, Fields, Still, Unserved
<1>5. Still(s, ClearUnresolved(a, attempt))
  BY <1>3, <1>4, StillOn
<1> QED BY <1>5 DEF Discarded, a

\* The baseline becomes what the commit wrote.
LEMMA ApplyCommittedBaselineStill ==
  ASSUME NEW s, Shaped(s), NEW continuation
  PROVE  Still(s, ApplyCommittedBaseline(s, continuation))
BY DEF ApplyCommittedBaseline, Shaped, Fields, Still, Unserved

\* The recovery store has been opened, and has no work.
LEMMA RecoveryLoadedFollows ==
  ASSUME NEW s, InHand(s), Open(s), Unserved(s) = {}, s.barrier = FALSE,
         NEW records
  PROVE  Follows(s, RecoveryLoaded(s, records))
<1> DEFINE d == Deactivate(s, "recovery")
           s1 == [d EXCEPT !.access = "ready"]
           s2 == IF s1.active["monitor"] = 0 THEN StartMonitor(s1) ELSE s1
           f == [s2 EXCEPT !.access = "failed", !.issue = "recovery"]
           k == CarryCleanup(s2, records)
           q == [k EXCEPT !.recovery = RecoveryOf(records)]
           z == RecoveryLoaded(s, records)
<1>1. z \in {f, ContinueSynchronization(q)}
  BY DEF RecoveryLoaded
<1> HIDE DEF z
<1>2. /\ DOMAIN d = Fields /\ DOMAIN d.active = Operations
      /\ d.active["savePreparation"] = s.active["savePreparation"]
      /\ d.active["recovery"] = 0 /\ d.effects = s.effects
      /\ d.local = s.local /\ d.lifecycle = s.lifecycle
      /\ d.recovery = s.recovery /\ d.barrier = s.barrier
  BY DEF InHand, Shaped, Fields, Deactivate, Operations
<1> HIDE DEF d
<1>3. /\ DOMAIN s1 = Fields /\ s1.active = d.active /\ s1.effects = d.effects
      /\ s1.local = d.local /\ s1.lifecycle = d.lifecycle
      /\ s1.access = "ready" /\ s1.barrier = FALSE
      /\ s1.recovery = d.recovery
  BY <1>2 DEF Fields
<1> HIDE DEF s1
<1>4. Shaped(s1) /\ Unserved(s1) = {} /\ Keeps(s, s1)
  <2>1. Shaped(s1)
    BY <1>2, <1>3 DEF InHand, Shaped
  <2>2. Unserved(s1) = {}
    BY <1>2, <1>3 DEF Unserved
  <2>3. Served(s1)
    BY <1>2, <1>3, <2>2 DEF Served
  <2>4. Prepared(s1)
    BY <1>2, <1>3 DEF InHand, Prepared, Preparations
  <2> QED BY <1>2, <1>3, <2>1, <2>2, <2>3, <2>4 DEF InHand, Keeps
<1>5. Still(s1, s2)
  BY <1>4, StartMonitorStill, StillSame
<1> HIDE DEF s2
<1>6. Shaped(s2) /\ Keeps(s, s2)
  BY <1>4, <1>5, StillShaped, StillKeeps, KeepsOn DEF Keeps
<1>7. Follows(s, f)
  <2>1. /\ DOMAIN f = Fields /\ f.active = s2.active
        /\ f.effects = s2.effects /\ f.local = s2.local
        /\ f.recovery = s2.recovery /\ f.barrier = s2.barrier
        /\ f.lifecycle = s2.lifecycle /\ f.access = "failed"
    BY <1>6 DEF Shaped, Fields
  <2> HIDE DEF f
  <2>2. Shaped(f) /\ Served(f) /\ Prepared(f)
    BY <1>6, <2>1 DEF Keeps, InHand, Shaped, Served, Prepared, Preparations
  <2>3. Keeps(s, f)
    BY <1>6, <2>1, <2>2 DEF Keeps, InHand
  <2> QED BY <2>3, KeepsFollows
<1>8. Still(s2, k) /\ Shaped(k)
  BY <1>6, CarryCleanupStill, StillShaped
<1> HIDE DEF k, f
<1>9. Keeps(s, k) /\ Still(s1, k)
  BY <1>5, <1>6, <1>8, StillOn, StillKeeps, KeepsOn DEF Keeps
<1>10. /\ DOMAIN q = Fields /\ q.active = k.active
       /\ q.effects = k.effects /\ q.local = k.local
       /\ q.recovery.kind \in {"clear", "available"}
       /\ q.barrier = k.barrier
       /\ q.lifecycle = k.lifecycle /\ q.access = k.access
  BY <1>8, RecoveryOfIsAtRest DEF Shaped, Fields
<1> HIDE DEF q
<1>11. Keeps(s, q)
  <2>1. Shaped(q)
    BY <1>8, <1>10 DEF Shaped
  <2>2. Unserved(q) = {}
    BY <1>4, <1>9, <1>10 DEF Still, Unserved
  <2>3. Served(q)
    BY <1>2, <1>3, <1>9, <1>10, <2>2 DEF Served, Still
  <2>4. Prepared(q)
    BY <1>9, <1>10 DEF Keeps, InHand, Prepared, Preparations
  <2> QED BY <1>9, <1>10, <2>1, <2>3, <2>4 DEF Keeps, InHand
<1>12. InHand(q) /\ Open(q)
  BY <1>11, KeepsFollows DEF Keeps
<1>13. Follows(s, ContinueSynchronization(q))
  BY <1>11, <1>12, ContinueSynchronizationFollows, FollowsOn
<1> QED BY <1>1, <1>7, <1>13 DEF z

\* Displaced bytes have been stored, and the store has no more work.
LEMMA RawRecoveryPersistedFollows ==
  ASSUME NEW s, InHand(s), Open(s), Unserved(s) = {}, Preparations(s) = {},
         NEW records, NEW decodes
  PROVE  Follows(s, RawRecoveryPersisted(s, records, decodes))
<1> DEFINE c == s.recovery.attempt.continuation
           entry == s.recovery.attempt.entry
           n == [s EXCEPT !.pendingDisplaced = None,
                          !.unresolvedDisplaced = c]
           s1 == CarryCleanup(n, records)
           d == Deactivate(s1, "recovery")
           e == [d EXCEPT !.access = "ready",
                          !.recovery = Available(records)]
           s2 == ApplyCommittedBaseline(e, c)
           s3 == IF s2.merge # None /\ s2.merge.baseline # c.committed
                 THEN InvalidateMerge(s2) ELSE s2
           s4 == [s3 EXCEPT
                    !.unresolvedDisplaced = c,
                    !.local = IF c.committed = Rebased(c.committed, c.localRev)
                              THEN Clean ELSE Dirty(0),
                    !.issue = IF @ \in {"localSave", "closeDeadline"}
                              THEN None ELSE @]
           merge == [token |-> 0, baseline |-> c.committed,
                     base |-> c.mergeBase, local |-> c.localRev,
                     external |-> [text |-> c.text, inode |-> 0],
                     origin |-> [records |-> records,
                                 target |-> RawTarget({entry}),
                                 continuation |-> c]]
           z == RawRecoveryPersisted(s, records, decodes)
<1>1. \/ z = FailRecovery(s)
      \/ z = FinishRecoveryMutation(s1, records)
      \/ /\ ~s.barrier
         /\ z \in {ResumeRecoveryCleanup(s2), Refuse(s2, "recovery"),
                   StartMerge(s4, merge), Refuse(s4, "recovery")}
  BY DEF RawRecoveryPersisted
<1> HIDE DEF z, c, entry
<1>2. Still(s, n)
  BY DEF InHand, Shaped, Fields, Still, Unserved
<1> HIDE DEF n
<1>3. Still(s, s1) /\ Shaped(s1)
  BY <1>2, CarryCleanupStill, StillOn, StillShaped DEF InHand
<1> HIDE DEF s1
<1>4. Keeps(s, s1) /\ InHand(s1) /\ Open(s1) /\ Unserved(s1) = {}
      /\ Preparations(s1) = {} /\ s1.barrier = s.barrier
  BY <1>3, StillKeeps, StillFree, KeepsFollows DEF InHand, Keeps, Still
<1>5. CASE z = FailRecovery(s)
  BY <1>5, FailRecoveryInHand, KeepsFollows DEF z
<1>6. CASE z = FinishRecoveryMutation(s1, records)
  BY <1>4, <1>6, FinishRecoveryMutationFollows, FollowsOn DEF z
<1>7. CASE /\ ~s.barrier
           /\ z \in {ResumeRecoveryCleanup(s2), Refuse(s2, "recovery"),
                     StartMerge(s4, merge), Refuse(s4, "recovery")}
  <2>1. s1.barrier = FALSE
    BY <1>4, <1>7 DEF InHand, Shaped
  <2>2. /\ DOMAIN d = Fields /\ DOMAIN d.active = Operations
        /\ d.active["savePreparation"] = s1.active["savePreparation"]
        /\ d.active["recovery"] = 0 /\ d.effects = s1.effects
        /\ d.local = s1.local /\ d.lifecycle = s1.lifecycle
        /\ d.barrier = s1.barrier
    BY <1>3 DEF Shaped, Fields, Deactivate, Operations
  <2> HIDE DEF d
  <2>3. /\ DOMAIN e = Fields /\ e.active = d.active /\ e.effects = d.effects
        /\ e.local = d.local /\ e.lifecycle = d.lifecycle
        /\ e.access = "ready" /\ e.barrier = FALSE
        /\ e.recovery.kind = "available"
    BY <2>1, <2>2 DEF Fields, Available
  <2> HIDE DEF e
  <2>4. Keeps(s, e) /\ InHand(e) /\ Preparations(e) = {}
    <3>1. Shaped(e)
      BY <1>3, <2>2, <2>3 DEF Shaped
    <3>2. Unserved(e) = {}
      BY <1>4, <2>2, <2>3 DEF Unserved
    <3>3. Served(e)
      BY <2>2, <2>3, <3>2 DEF Served
    <3>4. Preparations(e) = {}
      BY <1>4, <2>2, <2>3 DEF Preparations
    <3> QED BY <1>4, <2>2, <2>3, <3>1, <3>3, <3>4 DEF Keeps, InHand, Prepared
  <2>5. Still(e, s2)
    BY <2>4, ApplyCommittedBaselineStill DEF InHand
  <2> HIDE DEF s2
  <2>6. Keeps(s, s2) /\ InHand(s2) /\ Preparations(s2) = {}
    BY <2>4, <2>5, StillKeeps, StillFree, KeepsOn DEF Keeps, InHand
  <2>7. Still(s2, s3)
    BY <2>6, InvalidateMergeStill, StillSame DEF InHand
  <2> HIDE DEF s3
  <2>8. Keeps(s, s3) /\ InHand(s3) /\ Preparations(s3) = {}
    BY <2>6, <2>7, StillKeeps, StillFree, KeepsOn DEF Keeps, InHand
  <2>9. /\ DOMAIN s4 = Fields /\ s4.active = s3.active
        /\ s4.effects = s3.effects
        /\ s4.access = s3.access /\ s4.recovery = s3.recovery
        /\ s4.barrier = s3.barrier /\ s4.lifecycle = s3.lifecycle
    BY <2>8 DEF InHand, Shaped, Fields
  <2> HIDE DEF s4, merge
  <2>10. Keeps(s, s4) /\ InHand(s4)
    BY <2>8, <2>9, FreeSet, KeepsOn DEF Keeps
  <2>11. Keeps(s4, StartMerge(s4, merge)) /\ Keeps(s4, Refuse(s4, "recovery"))
    BY <2>10, StartMergeStill, RefuseStill, StillKeeps DEF InHand
  <2>12. Keeps(s2, ResumeRecoveryCleanup(s2))
         /\ Keeps(s2, Refuse(s2, "recovery"))
    BY <2>6, ResumeRecoveryCleanupInHand, RefuseStill, StillKeeps DEF InHand
  <2>13. Keeps(s, z)
    BY <1>7, <2>6, <2>10, <2>11, <2>12, KeepsOn
  <2> QED BY <2>13, KeepsFollows DEF z
<1> QED BY <1>1, <1>5, <1>6, <1>7

\* The recovery store answers a change.
LEMMA MutationFinishedFollows ==
  ASSUME NEW s, InHand(s), Open(s), Unserved(s) = {},
         StoresDisplaced(s) => Preparations(s) = {},
         s.recovery.kind = "persisting", s.recovery.attempt \in AnyAttempt,
         NEW records, NEW decodes
  PROVE  Follows(s, MutationFinished(s, records, decodes))
<1> DEFINE attempt == s.recovery.attempt
           x == Discarded(s, attempt, records)
           y == ConflictPersisted(s, attempt, records)
           z == MutationFinished(s, records, decodes)
<1>1. \/ z = s
      \/ z = FinishRecoveryMutation(x, records)
      \/ z = FinishRecoveryMutation(y, records)
      \/ /\ attempt.purpose # "persistConflict" /\ attempt.discard = None
         /\ z = RawRecoveryPersisted(s, records, decodes)
  BY DEF MutationFinished, Persisted
<1> HIDE DEF z
<1>2. Still(s, x) /\ Still(s, y)
  BY DiscardedStill, ConflictPersistedStill DEF InHand
<1>3. attempt.purpose # "persistConflict" /\ attempt.discard = None
        => attempt.purpose = "persistDisplacedPreimage"
  BY AttemptKinds
<1> HIDE DEF x, y, attempt
<1>4. /\ Keeps(s, x) /\ InHand(x) /\ Open(x) /\ Unserved(x) = {}
      /\ Keeps(s, y) /\ InHand(y) /\ Open(y) /\ Unserved(y) = {}
  BY <1>2, StillKeeps, KeepsFollows DEF Keeps, Still
<1>5. /\ Follows(s, FinishRecoveryMutation(x, records))
      /\ Follows(s, FinishRecoveryMutation(y, records))
  BY <1>4, FinishRecoveryMutationFollows, FollowsOn
<1>6. Follows(s, s)
  BY KeepsFollows DEF Keeps
<1>7. CASE /\ attempt.purpose # "persistConflict" /\ attempt.discard = None
           /\ z = RawRecoveryPersisted(s, records, decodes)
  <2>1. StoresDisplaced(s)
    BY <1>3, <1>7 DEF StoresDisplaced, attempt
  <2> QED BY <1>7, <2>1, RawRecoveryPersistedFollows DEF z
<1> QED BY <1>1, <1>5, <1>6, <1>7 DEF z

\* The store that has been opened again shows what became of a mutation.
LEMMA ReconciledFollows ==
  ASSUME NEW s, InHand(s), Open(s), Unserved(s) = {},
         s.recovery.kind = "persisting", NEW records
  PROVE  Follows(s, Reconciled(s, records))
<1> DEFINE attempt == s.recovery.attempt
           x == Discarded(s, attempt, records)
           y == ConflictPersisted(s, attempt, records)
           n == [s EXCEPT !.pendingDisplaced = None,
                          !.unresolvedDisplaced = attempt.continuation]
           restored == CarryCleanup(n, records)
           b == ApplyCommittedBaseline(restored, attempt.continuation)
           d == Deactivate(s, "recovery")
           restarted == [d EXCEPT !.access = "ready"]
           z == Reconciled(s, records)
<1>1. z \in {s, FinishRecoveryMutation(s, records),
             FinishRecoveryMutation(x, records),
             FinishRecoveryMutation(y, records), FailRecovery(s),
             FinishRecoveryMutation(b, records),
             StartDisplacedPersistence(restarted, attempt.continuation)}
  BY DEF Reconciled
<1> HIDE DEF z
<1>2. Still(s, x) /\ Still(s, y) /\ Still(s, s)
  BY DiscardedStill, ConflictPersistedStill, StillSame DEF InHand
<1>3. Still(s, n) /\ Shaped(n)
  <2>1. Still(s, n)
    BY DEF InHand, Shaped, Fields, Still, Unserved
  <2> QED BY <2>1, StillShaped DEF InHand
<1> HIDE DEF n, x, y
<1>4. Still(s, b)
  <2>1. Still(n, restored) /\ Shaped(restored)
    BY <1>3, CarryCleanupStill, StillShaped
  <2> HIDE DEF restored
  <2>2. Still(restored, b)
    BY <2>1, ApplyCommittedBaselineStill
  <2> QED BY <1>3, <2>1, <2>2, StillOn
<1> HIDE DEF b, attempt
<1>5. ASSUME NEW t, Still(s, t)
      PROVE  Follows(s, FinishRecoveryMutation(t, records))
  <2>1. Keeps(s, t) /\ InHand(t) /\ Open(t) /\ Unserved(t) = {}
    BY <1>5, StillKeeps, KeepsFollows DEF Keeps, Still
  <2> QED BY <2>1, FinishRecoveryMutationFollows, FollowsOn
<1>6. Keeps(s, restarted) /\ InHand(restarted)
  <2>1. /\ DOMAIN d = Fields /\ DOMAIN d.active = Operations
        /\ d.active["savePreparation"] = s.active["savePreparation"]
        /\ d.effects = s.effects
        /\ d.local = s.local /\ d.lifecycle = s.lifecycle
        /\ d.barrier = s.barrier /\ d.recovery = s.recovery
    BY DEF InHand, Shaped, Fields, Deactivate, Operations
  <2> HIDE DEF d
  <2>2. /\ DOMAIN restarted = Fields /\ restarted.active = d.active
        /\ restarted.effects = d.effects /\ restarted.local = d.local
        /\ restarted.lifecycle = d.lifecycle
        /\ restarted.barrier = d.barrier /\ restarted.recovery = d.recovery
        /\ restarted.access = "ready"
    BY <2>1 DEF Fields
  <2> HIDE DEF restarted
  <2>3. Shaped(restarted)
    BY <2>1, <2>2 DEF InHand, Shaped
  <2>4. Served(restarted)
    BY <2>1, <2>2 DEF Served
  <2>5. Prepared(restarted)
    BY <2>1, <2>2 DEF InHand, Prepared, Preparations
  <2> QED BY <2>1, <2>2, <2>3, <2>4, <2>5 DEF Keeps, InHand
<1> HIDE DEF restarted
<1>7. Follows(s, StartDisplacedPersistence(restarted, attempt.continuation))
  BY <1>6, StartDisplacedPersistenceInHand, KeepsOn, KeepsFollows
<1>8. Follows(s, s) /\ Follows(s, FailRecovery(s))
  BY FailRecoveryInHand, KeepsFollows DEF Keeps
<1> QED BY <1>1, <1>2, <1>4, <1>5, <1>7, <1>8 DEF z

-----------------------------------------------------------------------------
(* The user's answers, and closing.                                        *)

\* The user retries what failed.
LEMMA RetryFollows ==
  ASSUME NEW s, InHand(s), Open(s)
  PROVE  Follows(s, Retry(s))
<1> DEFINE c == [s EXCEPT !.issue = None]
           m == StartMonitor(c)
           z == Retry(s)
<1>1. z \in {s, StartCommitReconciliation(c), StartRecoveryReconciliation(c),
             StartRecoveryLoad(c),
             StartDisplacedPersistence(c, s.pendingDisplaced),
             ScheduleLocalSave(c), ScheduleExternalRead(c),
             ScheduleExternalRead(m), ContinueSynchronization(c)}
  BY DEF Retry
<1> HIDE DEF z
<1>2. Still(s, c) /\ Shaped(c)
  <2>1. Still(s, c)
    BY DEF InHand, Shaped, Fields, Still, Unserved
  <2> QED BY <2>1, StillShaped DEF InHand
<1> HIDE DEF c
<1>3. Keeps(s, c) /\ InHand(c) /\ Open(c)
  BY <1>2, StillKeeps, KeepsFollows DEF Keeps
<1>4. Still(c, m) /\ Shaped(m)
  BY <1>2, StartMonitorStill, StillShaped
<1> HIDE DEF m
<1>5. Still(m, ScheduleExternalRead(m)) /\ Still(c, ScheduleExternalRead(c))
      /\ Still(c, StartCommitReconciliation(c))
  BY <1>2, <1>4, ScheduleExternalReadStill, StartCommitReconciliationStill
<1>6. /\ Keeps(c, ScheduleExternalRead(m)) /\ Keeps(c, ScheduleExternalRead(c))
      /\ Keeps(c, StartCommitReconciliation(c))
  BY <1>3, <1>4, <1>5, StillOn, StillKeeps
<1>7. /\ Keeps(c, StartRecoveryReconciliation(c))
      /\ Keeps(c, StartRecoveryLoad(c))
      /\ Keeps(c, StartDisplacedPersistence(c, s.pendingDisplaced))
      /\ Keeps(c, ScheduleLocalSave(c))
  BY <1>3, StartRecoveryReconciliationInHand, StartRecoveryLoadInHand,
     StartDisplacedPersistenceInHand, ScheduleLocalSaveInHand
<1>8. Follows(s, ContinueSynchronization(c))
  BY <1>3, ContinueSynchronizationFollows, FollowsOn
<1>9. Follows(s, s)
  BY KeepsFollows DEF Keeps
<1>10. \A r : Keeps(c, r) => Follows(s, r)
  BY <1>3, KeepsOn, KeepsFollows
<1> QED BY <1>1, <1>6, <1>7, <1>8, <1>9, <1>10 DEF z

\* The user restores a record.
LEMMA RestoreFollows ==
  ASSUME NEW s, InHand(s), Open(s), CanRestore(s)
  PROVE  Follows(s, RestoreLocalRecovery(s))
<1> DEFINE records == s.recovery.records
           entry == Head(records.decoded)
           number == s.source.number + 1
           q == [s EXCEPT !.source = [number |-> number, text |-> entry.text],
                  !.local = Dirty(0), !.issue = None,
                  !.cleanup = [records |-> records,
                               target |-> DecodedTarget(entry),
                               purpose |-> "discardRestoredRecords",
                               min |-> number]]
<1>1. RestoreLocalRecovery(s) = ContinueSynchronization(q)
  BY DEF RestoreLocalRecovery
<1>2. /\ DOMAIN q = Fields /\ q.active = s.active /\ q.effects = s.effects
      /\ q.access = s.access /\ q.recovery = s.recovery
      /\ q.barrier = s.barrier /\ q.lifecycle = s.lifecycle
  BY DEF InHand, Shaped, Fields
<1> HIDE DEF q
<1>3. Keeps(s, q)
  BY <1>2, LocalSet DEF CanRestore
<1>4. InHand(q) /\ Open(q)
  BY <1>3, KeepsFollows DEF Keeps
<1> QED BY <1>1, <1>3, <1>4, ContinueSynchronizationFollows, FollowsOn

\* The user discards the records that do not decode.
LEMMA DiscardRawInHand ==
  ASSUME NEW s, InHand(s)
  PROVE  Keeps(s, DiscardRawRecovery(s))
BY StartRecoveryDiscardInHand DEF DiscardRawRecovery

\* The user closes the document.
LEMMA RequestCloseIsInHand ==
  ASSUME NEW s, InHand(s)
  PROVE  LET r == RequestClose(s) IN InHand(r) /\ (Open(r) \/ Quiet(r))
<1> DEFINE p == Start(s, "closeDeadline", "close", None)
           q == [p EXCEPT !.lifecycle = "closing"]
<1>1. Still(s, p) /\ InHand(p)
  BY StartStill, StillKeeps DEF InHand, Operations, Keeps
<1> HIDE DEF p
<1>2. /\ DOMAIN q = Fields /\ q.active = p.active /\ q.effects = p.effects
      /\ q.access = p.access /\ q.recovery = p.recovery
      /\ q.barrier = p.barrier /\ q.local = p.local
      /\ q.lifecycle = "closing"
  BY <1>1 DEF InHand, Shaped, Fields
<1>3. RequestClose(s) = ProgressManagedClose(q)
  BY DEF RequestClose, q, p
<1> HIDE DEF q
<1>4. InHand(q)
  BY <1>1, <1>2 DEF InHand, Shaped, Served, Prepared, Preparations, Unserved
<1> QED BY <1>2, <1>3, <1>4, ProgressManagedCloseFollows DEF Follows

\* The close takes too long: the document stays open.
LEMMA CloseDeadlineInHand ==
  ASSUME NEW s, InHand(s)
  PROVE  LET r == CloseDeadlineFired(s) IN
         InHand(r) /\ r.lifecycle = "active"
<1> DEFINE w == InvalidateAutomatedWork(s)
           r == CancelAllDeadlines(w)
           f == [r EXCEPT !.access = "failed"]
           l == [r EXCEPT !.access = "loading",
                          !.recovery = IF @.kind = "persisting"
                                       THEN Clear ELSE @]
           reset == CASE s.active["recovery"] = 0 -> r
                      [] s.active["recovery"] # 0 /\ r.barrier -> f
                      [] s.active["recovery"] # 0 /\ ~r.barrier -> l
           m == StartMonitor(reset)
           z == [m EXCEPT !.issue = "closeDeadline", !.lifecycle = "active"]
<1>1. InHand(w)
  BY InvalidateAutomatedWorkInHand
<1> HIDE DEF w
<1>2. InHand(r)
  BY <1>1, CancelAllDeadlinesStill, StillKeeps DEF InHand, Keeps
<1> HIDE DEF r
<1>3. InHand(f)
  <2>1. /\ DOMAIN f = Fields /\ f.active = r.active /\ f.effects = r.effects
        /\ f.access = "failed" /\ f.recovery = r.recovery
        /\ f.barrier = r.barrier /\ f.local = r.local
    BY <1>2 DEF InHand, Shaped, Fields
  <2> HIDE DEF f
  <2> QED BY <1>2, <2>1 DEF InHand, Shaped, Served, Prepared, Preparations
<1>4. InHand(l)
  <2>1. /\ DOMAIN l = Fields /\ l.active = r.active /\ l.effects = r.effects
        /\ l.access = "loading"
        /\ l.recovery.kind \in {"clear", "available", "persisting"}
        /\ l.barrier = r.barrier /\ l.local = r.local
    BY <1>2 DEF InHand, Shaped, Fields, Clear
  <2> HIDE DEF l
  <2> QED BY <1>2, <2>1 DEF InHand, Shaped, Served, Prepared, Preparations
<1> HIDE DEF f, l
<1>5. reset \in {r, f, l}
  <2>1. r.barrier \in BOOLEAN
    BY <1>2 DEF InHand, Shaped
  <2> QED BY <2>1
<1>6. InHand(reset)
  BY <1>2, <1>3, <1>4, <1>5
<1>7. CloseDeadlineFired(s) = z
  BY DEF CloseDeadlineFired, z, m, reset, f, l, r, w
<1> HIDE DEF reset
<1>8. InHand(m)
  BY <1>6, StartMonitorStill, StillKeeps DEF InHand, Keeps
<1> HIDE DEF m
<1>9. /\ DOMAIN z = Fields /\ z.active = m.active /\ z.effects = m.effects
      /\ z.access = m.access /\ z.recovery = m.recovery
      /\ z.barrier = m.barrier /\ z.local = m.local
      /\ z.lifecycle = "active"
  BY <1>8 DEF InHand, Shaped, Fields
<1> HIDE DEF z
<1>10. InHand(z)
  BY <1>8, <1>9 DEF InHand, Shaped, Served, Prepared, Preparations, Unserved
<1> QED BY <1>7, <1>9, <1>10

\* A document that may be closed is closed.
LEMMA CloseCommittedIsQuiet ==
  ASSUME NEW s, InHand(s), Quiet(s)
  PROVE  InHand(CloseCommitted(s)) /\ Quiet(CloseCommitted(s))
<1> DEFINE kept == {e \in s.effects : e.kind \notin
                      Deadlines \cup {"prepareSave", "merge"}}
           z == CloseCommitted(s)
<1>1. /\ DOMAIN z = Fields /\ DOMAIN z.active = Operations
      /\ z.lifecycle = "closed" /\ z.external = Idle /\ z.merge = None
      /\ z.active["recovery"] = 0 /\ z.active["savePreparation"] = 0
      /\ z.effects = kept /\ z.access = s.access /\ z.recovery = s.recovery
      /\ z.barrier = s.barrier /\ z.local = s.local
      /\ z.baseline = s.baseline /\ z.source = s.source
      /\ z.uncertain = s.uncertain /\ z.issue = s.issue
      /\ z.pendingConflict = s.pendingConflict
      /\ z.pendingDisplaced = s.pendingDisplaced
  BY DEF InHand, Shaped, Fields, CloseCommitted, Operations
<1>2. kept \subseteq s.effects /\ \A e \in kept : e.kind # "prepareSave"
  OBVIOUS
<1> HIDE DEF z, kept
<1>3. IsFiniteSet(z.effects)
  BY <1>1, <1>2, FS_Subset DEF InHand, Shaped
<1>4. Shaped(z)
  BY <1>1, <1>2, <1>3 DEF InHand, Shaped
<1>5. Unserved(z) = {}
  BY <1>1, <1>2 DEF Quiet, Unserved
<1>6. Served(z)
  BY <1>1, <1>5 DEF Quiet, Served
<1>7. Prepared(z)
  BY <1>1, <1>2 DEF Prepared, Preparations
<1>8. Quiet(z)
  BY <1>1, <1>5 DEF Quiet
<1> QED BY <1>4, <1>6, <1>7, <1>8 DEF InHand, z

\* The host cancels the close: the document stays open.
LEMMA CloseCancelledInHand ==
  ASSUME NEW s, InHand(s)
  PROVE  LET r == CloseCancelled(s) IN InHand(r) /\ Open(r)
<1> DEFINE d == Deactivate(s, "close")
           z == [d EXCEPT !.lifecycle = "active"]
<1>1. InHand(d)
  BY DeactivateStill, StillKeeps DEF InHand, Operations, Keeps
<1>2. z = CloseCancelled(s)
  BY DEF CloseCancelled
<1> HIDE DEF d
<1>3. /\ DOMAIN z = Fields /\ z.active = d.active /\ z.effects = d.effects
      /\ z.access = d.access /\ z.recovery = d.recovery
      /\ z.barrier = d.barrier /\ z.local = d.local
      /\ z.lifecycle = "active"
  BY <1>1 DEF InHand, Shaped, Fields
<1> HIDE DEF z
<1>4. InHand(z)
  BY <1>1, <1>3 DEF InHand, Shaped, Served, Prepared, Preparations, Unserved
<1> QED BY <1>2, <1>3, <1>4 DEF Open

\* What keeps a document that may be closed as it is.
LEMMA QuietSet ==
  ASSUME NEW s, InHand(s), Quiet(s), NEW r,
         DOMAIN r = Fields, DOMAIN r.active = Operations,
         r.lifecycle = s.lifecycle, r.local = s.local,
         r.baseline = s.baseline, r.source = s.source, r.merge = s.merge,
         r.external = s.external, r.uncertain = s.uncertain,
         r.pendingConflict = s.pendingConflict,
         r.pendingDisplaced = s.pendingDisplaced, r.access = s.access,
         r.recovery = s.recovery, r.barrier = s.barrier,
         r.active["recovery"] = s.active["recovery"],
         r.active["savePreparation"] = s.active["savePreparation"],
         r.issue \in {s.issue, None, "monitor"},
         IsFiniteSet(r.effects), Unserved(r) = {},
         \A e \in r.effects : e.kind = "prepareSave" =>
            e.op = "savePreparation" /\ e.token # 0 /\ e \in s.effects
  PROVE  InHand(r) /\ Quiet(r)
<1>1. Shaped(r)
  BY DEF InHand, Shaped
<1>2. Served(r)
  BY DEF Quiet, Served
<1>3. Prepared(r)
  BY DEF InHand, Prepared, Preparations
<1>4. Quiet(r)
  BY DEF Quiet
<1> QED BY <1>1, <1>2, <1>3, <1>4 DEF InHand

\* A retry watches the file again, and nothing more.
LEMMA RetryIsQuiet ==
  ASSUME NEW s, InHand(s), Quiet(s)
  PROVE  InHand(Retry(s)) /\ Quiet(Retry(s))
<1> DEFINE c == [s EXCEPT !.issue = None]
           m == StartMonitor(c)
           q == [m EXCEPT !.signalPending = TRUE]
<1>1. Retry(s) \in {s, ScheduleExternalRead(m)}
  BY DEF Retry, Quiet
<1>2. /\ DOMAIN c = Fields /\ c.active = s.active
      /\ c.lifecycle = s.lifecycle /\ c.local = s.local
      /\ c.baseline = s.baseline /\ c.source = s.source
      /\ c.merge = s.merge
      /\ c.external = s.external /\ c.uncertain = s.uncertain
      /\ c.pendingConflict = s.pendingConflict
      /\ c.pendingDisplaced = s.pendingDisplaced /\ c.access = s.access
      /\ c.recovery = s.recovery /\ c.barrier = s.barrier
      /\ c.issue = None /\ c.effects = s.effects
  BY DEF InHand, Shaped, Fields
<1> HIDE DEF c
<1>3. /\ DOMAIN m = Fields /\ DOMAIN m.active = Operations
      /\ m.active["recovery"] = s.active["recovery"]
      /\ m.active["savePreparation"] = s.active["savePreparation"]
      /\ m.lifecycle = s.lifecycle /\ m.local = s.local
      /\ m.baseline = s.baseline /\ m.source = s.source
      /\ m.merge = s.merge
      /\ m.external = s.external /\ m.uncertain = s.uncertain
      /\ m.pendingConflict = s.pendingConflict
      /\ m.pendingDisplaced = s.pendingDisplaced /\ m.access = s.access
      /\ m.recovery = s.recovery /\ m.barrier = s.barrier
      /\ m.issue = None /\ m.effects = s.effects
  BY <1>2 DEF InHand, Shaped, Fields, StartMonitor, Operations
<1> HIDE DEF m
<1>4. ScheduleExternalRead(m) = q
  BY <1>3 DEF ScheduleExternalRead, CanScheduleExternalRead, CanCoordinate,
     CanAcceptSourceChanges, Quiet
<1>5. /\ DOMAIN q = Fields /\ q.active = m.active
      /\ q.lifecycle = m.lifecycle /\ q.local = m.local
      /\ q.baseline = m.baseline /\ q.source = m.source
      /\ q.merge = m.merge
      /\ q.external = m.external /\ q.uncertain = m.uncertain
      /\ q.pendingConflict = m.pendingConflict
      /\ q.pendingDisplaced = m.pendingDisplaced /\ q.access = m.access
      /\ q.recovery = m.recovery /\ q.barrier = m.barrier
      /\ q.issue = m.issue /\ q.effects = m.effects
  BY <1>3 DEF Fields
<1> HIDE DEF q
<1>6. Unserved(q) = {}
  BY <1>3, <1>5 DEF Quiet, Unserved
<1>7. InHand(q) /\ Quiet(q)
  BY <1>3, <1>5, <1>6, QuietSet DEF InHand, Shaped
<1> QED BY <1>1, <1>4, <1>7

-----------------------------------------------------------------------------
(* The steps of the system.                                                *)

\* A document is open, or nothing is owed.
Accounted(s) == InHand(s) /\ (Open(s) \/ Quiet(s))

\* What a step other than a request to close does.
Moves(s, r) ==
  Accounted(r) /\ (s.lifecycle = "active" => r.lifecycle = "active")

\* What remains when an effect is delivered that is no change of the store.
LEMMA WithoutAccounted ==
  ASSUME NEW s, InHand(s), NEW e \in s.effects, e \notin Unserved(s)
  PROVE  LET t == Without(s, e) IN
         /\ InHand(t) /\ t.lifecycle = s.lifecycle /\ t.active = s.active
         /\ Unserved(t) = Unserved(s)
         /\ Open(s) => Open(t)
         /\ Quiet(s) => Quiet(t)
<1> DEFINE t == Without(s, e)
<1>1. /\ DOMAIN t = Fields /\ t.active = s.active
      /\ t.lifecycle = s.lifecycle /\ t.local = s.local
      /\ t.baseline = s.baseline /\ t.source = s.source
      /\ t.merge = s.merge
      /\ t.external = s.external /\ t.uncertain = s.uncertain
      /\ t.pendingConflict = s.pendingConflict
      /\ t.pendingDisplaced = s.pendingDisplaced /\ t.access = s.access
      /\ t.recovery = s.recovery /\ t.barrier = s.barrier
      /\ t.issue = s.issue /\ t.effects = s.effects \ {e}
  BY DEF InHand, Shaped, Fields, Without
<1> HIDE DEF t
<1>2. IsFiniteSet(t.effects)
  BY <1>1, FS_Subset DEF InHand, Shaped
<1>3. Unserved(t) = Unserved(s)
  BY <1>1 DEF Unserved
<1>4. Still(s, t)
  BY <1>1, <1>2, <1>3 DEF Still, InHand, Shaped
<1>5. InHand(t)
  BY <1>4, StillKeeps DEF Keeps
<1>6. Quiet(s) => Quiet(t)
  BY <1>1, <1>3 DEF Quiet
<1> QED BY <1>1, <1>3, <1>5, <1>6 DEF Open, t

\* The state that a delivery leaves is accounted for if the handler's is.
LEMMA ReceiveMoves ==
  ASSUME IInv, Orderly(sync), Accounted(sync), NEW e \in sync.effects,
         e \notin Unserved(sync), NEW next, Receive(e, next),
         LET t == Without(sync, e) IN
         /\ InHand(t) /\ Orderly(t) /\ Sound(t) /\ Open(t)
         /\ t.active[e.op] = e.token /\ Unserved(t) = Unserved(sync)
         => Follows(t, next),
         LET t == Without(sync, e) IN
         Quiet(t) /\ t.active[e.op] = e.token => next = t
  PROVE  Moves(sync, sync')
<1> DEFINE t == Without(sync, e)
<1>1. /\ InHand(t) /\ t.lifecycle = sync.lifecycle
      /\ Unserved(t) = Unserved(sync)
      /\ Open(t) \/ Quiet(t)
  BY WithoutAccounted DEF Accounted
<1>2. Orderly(t) /\ Sound(t)
  BY WithoutOrderly, WithoutKeeps DEF IInv, Nearly, Calm
<1>3. \/ sync' = t
      \/ t.lifecycle # "closed" /\ t.active[e.op] = e.token /\ sync' = next
  BY ReceiveLeaves
<1>4. /\ InHand(t) /\ Orderly(t) /\ Sound(t) /\ Open(t)
      /\ t.active[e.op] = e.token /\ Unserved(t) = Unserved(sync)
      => Follows(t, next)
  OBVIOUS
<1>5. Quiet(t) /\ t.active[e.op] = e.token => next = t
  OBVIOUS
<1> HIDE DEF t
<1> QED BY <1>1, <1>2, <1>3, <1>4, <1>5 DEF Moves, Accounted, Follows

\* The user edits.
LEMMA EditMoves ==
  ASSUME IInv, Orderly(sync), Accounted(sync), Edit
  PROVE  Moves(sync, sync')
<1>1. PICK a \in UserAtoms :
        LET text == sync.source.text IN
        sync' = SourceChanged(sync, (text \ {a}) \cup ({a} \ text))
  BY DEF Edit
<1> DEFINE text == (sync.source.text \ {a}) \cup ({a} \ sync.source.text)
<1>2. sync' = SourceChanged(sync, text) /\ Open(sync)
  BY <1>1 DEF Edit, CanAcceptSourceChanges, Open
<1> HIDE DEF text
<1>3. Follows(sync, sync')
  BY <1>2, SourceChangedFollows DEF Accounted, Orderly
<1> QED BY <1>3 DEF Moves, Accounted, Follows

\* The monitor fails.
LEMMA MonitorFailedMoves ==
  ASSUME NEW s, Accounted(s)
  PROVE  Moves(s, MonitorFailed(s))
<1> DEFINE r == MonitorFailed(s)
<1>1. Still(s, r)
  BY MonitorFailedStill DEF Accounted, InHand
<1>2. /\ DOMAIN r = Fields /\ DOMAIN r.active = Operations
      /\ r.active["recovery"] = s.active["recovery"]
      /\ r.active["savePreparation"] = s.active["savePreparation"]
      /\ r.lifecycle = s.lifecycle /\ r.local = s.local
      /\ r.baseline = s.baseline /\ r.source = s.source
      /\ r.merge = s.merge
      /\ r.external = s.external /\ r.uncertain = s.uncertain
      /\ r.pendingConflict = s.pendingConflict
      /\ r.pendingDisplaced = s.pendingDisplaced /\ r.access = s.access
      /\ r.recovery = s.recovery /\ r.barrier = s.barrier
      /\ r.issue = "monitor" /\ r.effects = s.effects
  BY DEF Accounted, InHand, Shaped, Fields, MonitorFailed, Deactivate,
     Operations
<1> HIDE DEF r
<1>3. Keeps(s, r)
  BY <1>1, StillKeeps DEF Accounted
<1>4. Quiet(s) => Quiet(r)
  <2>1. Unserved(r) = Unserved(s)
    BY <1>1 DEF Still
  <2> QED BY <1>2, <2>1 DEF Quiet
<1>5. Accounted(r)
  BY <1>2, <1>3, <1>4 DEF Keeps, Accounted, Open
<1> QED BY <1>2, <1>5 DEF Moves, r

\* The requests of the user and of the host, but for the close.
LEMMA RequestMoves ==
  ASSUME IInv, Orderly(sync), Accounted(sync),
         \/ RequestSave \/ UserRetries \/ UserRestores \/ UserDiscardsRaw
         \/ HostCloses \/ HostCancels \/ MonitorFails
  PROVE  Moves(sync, sync')
<1>1. InHand(sync) /\ Formed(sync)
  BY DEF Accounted, Orderly
<1>2. ASSUME NEW r, Keeps(sync, r), Open(sync)
      PROVE  Moves(sync, r)
  BY <1>2 DEF Keeps, Moves, Accounted, Open
<1>3. ASSUME NEW r, Follows(sync, r)
      PROVE  Moves(sync, r)
  BY <1>3 DEF Follows, Moves, Accounted
<1>4. CASE RequestSave
  <2>1. sync' = SaveRequested(sync)
    BY <1>4 DEF RequestSave
  <2>2. Open(sync) => Moves(sync, sync')
    BY <1>1, <1>2, <2>1, SaveRequestedInHand
  <2>3. Quiet(sync) => sync' = sync
    BY <2>1 DEF SaveRequested, CanCoordinate, CanAcceptSourceChanges, Quiet
  <2> QED BY <2>2, <2>3 DEF Moves, Accounted
<1>5. CASE UserRetries
  <2>1. sync' = Retry(sync)
    BY <1>5 DEF UserRetries
  <2>2. Open(sync) => Moves(sync, sync')
    BY <1>1, <1>3, <2>1, RetryFollows
  <2>3. Quiet(sync) => Moves(sync, sync')
    BY <1>1, <2>1, RetryIsQuiet DEF Moves, Accounted, Quiet
  <2> QED BY <2>2, <2>3 DEF Accounted
<1>6. CASE UserRestores
  <2>1. Open(sync) /\ CanRestore(sync)
    BY <1>6 DEF UserRestores, CanRestore, Open
  <2> QED BY <1>1, <1>3, <1>6, <2>1, RestoreFollows DEF UserRestores
<1>7. CASE UserDiscardsRaw
  <2>1. Open(sync)
    BY <1>7 DEF UserDiscardsRaw, CanDiscardRaw, Open
  <2> QED BY <1>1, <1>2, <1>7, <2>1, DiscardRawInHand DEF UserDiscardsRaw
<1>8. CASE HostCloses
  <2>1. sync.lifecycle = "allowed" /\ Quiet(sync)
    BY <1>8 DEF HostCloses, Accounted, Open
  <2> QED BY <1>1, <1>8, <2>1, CloseCommittedIsQuiet
          DEF HostCloses, Moves, Accounted
<1>9. CASE HostCancels
  <2>1. sync.lifecycle = "allowed"
    BY <1>9 DEF HostCancels
  <2> QED BY <1>1, <1>9, <2>1, CloseCancelledInHand
          DEF HostCancels, Moves, Accounted
<1>10. CASE MonitorFails
  BY <1>10, MonitorFailedMoves DEF MonitorFails
<1> QED BY <1>4, <1>5, <1>6, <1>7, <1>8, <1>9, <1>10

\* The request to close.
LEMMA CloseAccounted ==
  ASSUME Accounted(sync), UserCloses
  PROVE  Accounted(sync')
BY RequestCloseIsInHand DEF UserCloses, Accounted

\* Deadlines, notices and the preparation of a save.
LEMMA DeadlineMoves ==
  ASSUME IInv, Orderly(sync), Accounted(sync), NEW e \in sync.effects,
         \/ LocalSaveDeadline(e) \/ ExternalReadDeadline(e)
         \/ CloseDeadline(e) \/ MonitorSignal(e) \/ PrepareSave(e)
  PROVE  Moves(sync, sync')
<1> DEFINE t == Without(sync, e)
<1>1. e \in Effects
  BY DEF IInv, Nearly, Calm, Sound, States
<1>2. e.kind # "mutate" /\ e \notin Unserved(sync)
  BY DEF LocalSaveDeadline, ExternalReadDeadline, CloseDeadline,
     MonitorSignal, PrepareSave, Unserved
<1>3. ASSUME NEW s, Open(s), InHand(s), NEW r, Still(s, r)
      PROVE  Follows(s, r)
  BY <1>3, StillKeeps, KeepsFollows
<1>4. ASSUME NEW s, Open(s), InHand(s)
      PROVE  Follows(s, s)
  BY <1>3, <1>4, StillSame
<1>5. CASE LocalSaveDeadline(e)
  <2> DEFINE n == IF t.local = Dirty(e.token) THEN LocalSaveDeadlineFired(t)
                  ELSE t
  <2>1. e.kind = "localSaveDeadline" /\ Receive(e, n)
    BY <1>5 DEF LocalSaveDeadline
  <2>2. e.op = "savePreparation" /\ e.token \in Nat \ {0}
    BY <1>1, <2>1, EffectParts
  <2>3. InHand(t) /\ Open(t) /\ t.active[e.op] = e.token => Follows(t, n)
    <3> HIDE DEF t
    <3> QED BY <1>4, <2>2, LocalSaveDeadlineInHand, KeepsFollows
  <2>4. Quiet(t) => n = t
    <3> HIDE DEF t
    <3> QED BY DEF Quiet, Clean, Dirty
  <2> HIDE DEF n
  <2> QED BY <1>2, <2>1, <2>3, <2>4, ReceiveMoves
<1>6. CASE ExternalReadDeadline(e)
  <2> DEFINE n == IF t.external.kind = "debouncing"
                  THEN ExternalReadDeadlineFired(t) ELSE t
  <2>1. Receive(e, n)
    BY <1>6 DEF ExternalReadDeadline
  <2>2. InHand(t) /\ Open(t) => Follows(t, n)
    <3> HIDE DEF t
    <3> QED BY <1>3, <1>4, ExternalReadDeadlineStill DEF InHand
  <2>3. Quiet(t) => n = t
    <3> HIDE DEF t
    <3> QED BY DEF Quiet, Idle
  <2> HIDE DEF n
  <2> QED BY <1>2, <2>1, <2>2, <2>3, ReceiveMoves
<1>7. CASE CloseDeadline(e)
  <2> DEFINE n == IF t.lifecycle = "closing" THEN CloseDeadlineFired(t)
                  ELSE t
  <2>1. Receive(e, n)
    BY <1>7 DEF CloseDeadline
  <2>2. InHand(t) /\ Open(t) => Follows(t, n)
    <3> HIDE DEF t
    <3> QED BY <1>4, CloseDeadlineInHand DEF Follows, Open
  <2>3. Quiet(t) => n = t
    <3> HIDE DEF t
    <3> QED BY DEF Quiet
  <2> HIDE DEF n
  <2> QED BY <1>2, <2>1, <2>2, <2>3, ReceiveMoves
<1>8. CASE MonitorSignal(e)
  <2>1. Receive(e, MonitorSignaled(t))
    BY <1>8 DEF MonitorSignal
  <2>2. InHand(t) /\ Open(t) => Follows(t, MonitorSignaled(t))
    <3> HIDE DEF t
    <3> QED BY <1>3, MonitorSignaledStill DEF InHand
  <2>3. Quiet(t) => MonitorSignaled(t) = t
    <3> HIDE DEF t
    <3> QED BY DEF Quiet, MonitorSignaled, CanCoordinate,
               CanAcceptSourceChanges
  <2> QED BY <1>2, <2>1, <2>2, <2>3, ReceiveMoves
<1>9. CASE PrepareSave(e)
  <2>1. /\ e.kind = "prepareSave"
        /\ \/ Receive(e, SavePrepared(t))
           \/ Receive(e, SavePreparationFailed(t))
    BY <1>9 DEF PrepareSave
  <2>2. e.op = "savePreparation" /\ e.token # 0
    BY <1>1, <2>1, EffectParts
  <2>3. InHand(t) /\ Open(t) => /\ Follows(t, SavePrepared(t))
                                /\ Follows(t, SavePreparationFailed(t))
    <3> HIDE DEF t
    <3> QED BY SavePreparedInHand, SavePreparationFailedInHand, KeepsFollows
  <2>4. Quiet(t) => t.active[e.op] # e.token
    <3>1. t.local = sync.local /\ t.active = sync.active
      BY WithoutOrderly
    <3>2. sync.active[e.op] = e.token => e \in Preparations(sync)
      BY <2>1, <2>2 DEF Preparations
    <3> HIDE DEF t
    <3> QED BY <3>1, <3>2 DEF Accounted, InHand, Prepared, Quiet, Clean
  <2> QED BY <1>2, <2>1, <2>3, <2>4, ReceiveMoves
<1> QED BY <1>5, <1>6, <1>7, <1>8, <1>9

\* A commit has answered.
LEMMA FinishCommitMoves ==
  ASSUME IInv, Orderly(sync), Accounted(sync), NEW e \in sync.effects,
         FinishCommit(e)
  PROVE  Moves(sync, sync')
<1> DEFINE t == Without(sync, e)
           writing == t.local.kind = "writing"
           r == CommitProvenNotStarted(t, "localSave")
           v == CommitProvenNotStarted(t, "destinationRequiresSaveAs")
           n == CASE e.answer.outcome = "committed" /\ writing
                       /\ t.local.token = e.token ->
                       SaveFinished(t, e.answer)
                  [] e.answer.outcome = "unknown" /\ writing
                       /\ t.local.token = e.token ->
                       EnterUncertainCommitOutcome(t)
                  [] e.answer.outcome = "notStarted" /\ writing -> r
                  [] e.answer.outcome = "requiresSaveAs" /\ writing -> v
                  [] e.answer.outcome = "targetChanged" /\ writing ->
                       IF r.active["monitor"] = 0 THEN r
                       ELSE MonitorSignaled(r)
                  [] OTHER -> t
<1>1. e.kind = "commit" /\ e.answer # None /\ Receive(e, n)
  BY DEF FinishCommit
<1>2. e \in Effects
  BY DEF IInv, Nearly, Calm, Sound, States
<1>3. e.answer.outcome \in CommitOutcomes
  <2>1. e \in Commits
    BY <1>1, <1>2, EffectParts
  <2> QED BY <1>1, <2>1, EffectParts DEF Commits, EffectsOf
<1>4. e \notin Unserved(sync)
  BY <1>1 DEF Unserved
<1>5. InHand(t) /\ Open(t) => Follows(t, n)
  <2> HIDE DEF t
  <2> SUFFICES ASSUME InHand(t), Open(t) PROVE Follows(t, n)
    OBVIOUS
  <2>1. writing => Preparations(t) = {}
    BY NotPreparing
  <2>2. writing => /\ Keeps(t, r) /\ Keeps(t, v)
                   /\ Keeps(t, EnterUncertainCommitOutcome(t))
                   /\ Follows(t, SaveFinished(t, e.answer))
    BY <2>1, CommitProvenNotStartedInHand, EnterUncertainInHand,
       SaveFinishedFollows
  <2> HIDE DEF r, v
  <2>3. writing => Keeps(t, MonitorSignaled(r))
    BY <2>2, MonitorSignaledStill, StillKeeps, KeepsOn DEF InHand, Keeps
  <2>4. \/ n = SaveFinished(t, e.answer) /\ writing
        \/ n \in {EnterUncertainCommitOutcome(t), r, v, MonitorSignaled(r)}
           /\ writing
        \/ n = t
    BY <1>3 DEF CommitOutcomes
  <2>5. Keeps(t, t)
    BY DEF Keeps
  <2> HIDE DEF n
  <2> QED BY <2>2, <2>3, <2>4, <2>5, KeepsFollows
<1>6. Quiet(t) => n = t
  <2> HIDE DEF t
  <2>1. Quiet(t) => ~writing
    BY DEF Quiet, Clean
  <2> HIDE DEF writing
  <2> QED BY <2>1
<1> HIDE DEF n
<1> QED BY <1>1, <1>4, <1>5, <1>6, ReceiveMoves

\* The journal has answered what became of a commit.
LEMMA FinishReconciliationMoves ==
  ASSUME IInv, Orderly(sync), Accounted(sync), NEW e \in sync.effects,
         FinishReconciliation(e)
  PROVE  Moves(sync, sync')
<1> DEFINE t == Without(sync, e)
           f == CommitReconciliationFinished(t, e.answer)
           n == IF t.uncertain # None /\ t.uncertain.reconciliation = e.token
                THEN f ELSE t
<1>1. e.kind = "reconcileCommit" /\ e.answer # None /\ Receive(e, n)
  BY DEF FinishReconciliation
<1>2. e \in Effects
  BY DEF IInv, Nearly, Calm, Sound, States
<1>3. e.answer.outcome \in {"committed", "notCommitted", "unresolved"}
  <2>1. e \in Reconciliations
    BY <1>1, <1>2, EffectParts
  <2> QED BY <1>1, <2>1 DEF Reconciliations, EffectsOf
<1>4. e \notin Unserved(sync)
  BY <1>1 DEF Unserved
<1>5. InHand(t) /\ Open(t) /\ Orderly(t) => Follows(t, n)
  <2> HIDE DEF t
  <2> SUFFICES ASSUME InHand(t), Open(t), Orderly(t) PROVE Follows(t, n)
    OBVIOUS
  <2>1. t.uncertain # None => t.local.kind # "preparing"
    BY DEF Orderly, SavesAlone, Saving, Clean, Dirty
  <2>2. t.uncertain # None => Follows(t, f)
    BY <1>3, <2>1, NotPreparing, CommitReconciliationFinishedFollows
  <2>3. Follows(t, t)
    BY KeepsFollows DEF Keeps
  <2> HIDE DEF f
  <2> QED BY <2>2, <2>3
<1>6. Quiet(t) => n = t
  <2> HIDE DEF t, f
  <2> QED BY DEF Quiet
<1> HIDE DEF n
<1> QED BY <1>1, <1>4, <1>5, <1>6, ReceiveMoves

\* The file has been read.
LEMMA FinishReadMoves ==
  ASSUME IInv, Orderly(sync), Accounted(sync), NEW e \in sync.effects,
         FinishRead(e)
  PROVE  Moves(sync, sync')
<1> DEFINE t == Without(sync, e)
           f == ExternalReadFinished(t, e.answer)
           n == IF t.external.kind = "reading" THEN f ELSE t
<1>1. e.kind = "read" /\ e.answer # None /\ Receive(e, n)
  BY DEF FinishRead
<1>2. e \in Effects
  BY DEF IInv, Nearly, Calm, Sound, States
<1>3. e.answer.outcome \in {"failed", "unchanged", "missing", "changed"}
  <2>1. e \in Reads
    BY <1>1, <1>2, EffectParts
  <2> QED BY <1>1, <2>1 DEF Reads, EffectsOf, ReadAnswers
<1>4. e \notin Unserved(sync)
  BY <1>1 DEF Unserved
<1>5. InHand(t) /\ Open(t) /\ Orderly(t) => Follows(t, n)
  <2> HIDE DEF t
  <2> SUFFICES ASSUME InHand(t), Open(t), Orderly(t) PROVE Follows(t, n)
    OBVIOUS
  <2>1. Follows(t, f)
    BY <1>3, ExternalReadFinishedFollows DEF Orderly
  <2>2. Follows(t, t)
    BY KeepsFollows DEF Keeps
  <2> HIDE DEF f
  <2> QED BY <2>1, <2>2
<1>6. Quiet(t) => n = t
  <2> HIDE DEF t, f
  <2> QED BY DEF Quiet, Idle
<1> HIDE DEF n
<1> QED BY <1>1, <1>4, <1>5, <1>6, ReceiveMoves

\* A merge is done.
LEMMA FinishMergeMoves ==
  ASSUME IInv, Orderly(sync), Accounted(sync), NEW e \in sync.effects,
         FinishMerge(e)
  PROVE  Moves(sync, sync')
<1> DEFINE t == Without(sync, e)
           m == t.merge
           n(outcome) == IF m # None /\ m.token = e.token
                         THEN MergeFinished(t, outcome) ELSE t
<1>1. PICK outcome \in {Merged(m.base, m.local.text, m.external.text), None} :
        Receive(e, n(outcome))
  BY DEF FinishMerge
<1>2. e \notin Unserved(sync)
  BY DEF FinishMerge, Unserved
<1>3. InHand(t) /\ Open(t) /\ Orderly(t) => Follows(t, n(outcome))
  <2> HIDE DEF t
  <2> SUFFICES ASSUME InHand(t), Open(t), Orderly(t)
               PROVE  Follows(t, n(outcome))
    OBVIOUS
  <2>1. t.merge # None => t.local.kind # "preparing"
    BY DEF Orderly, SavesAlone, Saving, Clean, Dirty
  <2>2. t.merge # None => Follows(t, MergeFinished(t, outcome))
    BY <2>1, MergeFinishedFollows
  <2>3. Follows(t, t)
    BY KeepsFollows DEF Keeps
  <2> QED BY <2>2, <2>3
<1>4. Quiet(t) => n(outcome) = t
  <2> HIDE DEF t
  <2> QED BY DEF Quiet
<1> HIDE DEF n
<1> QED BY <1>1, <1>2, <1>3, <1>4, ReceiveMoves

\* The recovery store has answered; all it was asked before, it has answered.
LEMMA FinishRecoveryMoves ==
  ASSUME IInv, Orderly(sync), Accounted(sync), NEW e \in sync.effects,
         FinishRecovery(e)
  PROVE  Moves(sync, sync')
<1> DEFINE t == Without(sync, e)
           records == e.answer.records
           expects == CASE e.kind = "load" ->
                             t.access = "loading" /\ ~t.barrier
                        [] e.kind = "mutate" ->
                             t.recovery = Persisting(e.request)
                        [] e.kind = "reconcile" ->
                             /\ t.access = "loading" /\ t.barrier
                             /\ t.recovery = Persisting(e.request)
           n(decodes) ==
             CASE ~e.answer.ok -> FailRecovery(t)
               [] e.answer.ok /\ ~expects -> t
               [] e.answer.ok /\ expects /\ e.kind = "load" ->
                    RecoveryLoaded(t, records)
               [] e.answer.ok /\ expects /\ e.kind = "mutate" ->
                    MutationFinished(t, records, decodes)
               [] e.answer.ok /\ expects /\ e.kind = "reconcile" ->
                    Reconciled(t, records)
<1>1. /\ e.op = "recovery" /\ e.answer # None
      /\ \E decodes \in BOOLEAN : Receive(e, n(decodes))
  BY DEF FinishRecovery
<1>2. PICK decodes \in BOOLEAN : Receive(e, n(decodes))
  BY <1>1
<1>3. e \in Effects /\ sync.effects \subseteq Effects
  BY DEF IInv, Nearly, Calm, Sound, States
<1>4. /\ e.kind \in {"load", "mutate", "reconcile"}
      /\ e.answer.ok \in BOOLEAN /\ e.token # 0
      /\ e.kind # "load" => e.request \in AnyAttempt
  <2>1. e \in RecoveryCalls
    BY <1>1, <1>3, EffectParts
  <2> QED BY <1>1, <2>1 DEF RecoveryCalls, EffectsOf, StoreAnswers
<1>5. e \notin Unserved(sync)
  BY <1>1 DEF Unserved
<1>6. t.active = sync.active
  BY WithoutOrderly
<1>7. sync.active["recovery"] = e.token => Unserved(sync) = {}
  <2>1. \A f \in Unserved(sync) : f \in CallsOf(sync) /\ f.answer = None
    <3>1. ASSUME NEW f \in Effects, f.kind = "mutate"
          PROVE  f.op = "recovery"
      BY <3>1 DEF Effects, EffectsOf, Signals, Commits, Reconciliations,
                  Reads, RecoveryCalls
    <3> QED BY <1>3, <3>1 DEF Unserved, CallsOf
  <2>2. e \in CallsOf(sync)
    BY <1>1 DEF CallsOf
  <2> QED BY <1>1, <2>1, <2>2 DEF IInv, Nearly, Current
<1>8. ASSUME InHand(t), Open(t), Orderly(t), Unserved(t) = {}
      PROVE  Follows(t, n(decodes))
  <2> DEFINE r == n(decodes)
             persists == t.recovery = Persisting(e.request)
                         /\ e.request \in AnyAttempt
  <2>1. \/ r \in {FailRecovery(t), t}
        \/ ~t.barrier /\ r = RecoveryLoaded(t, records)
        \/ /\ persists
           /\ r \in {MutationFinished(t, records, decodes),
                     Reconciled(t, records)}
    <3> HIDE DEF t, records
    <3> QED BY <1>4
  <2> HIDE DEF r, records, t
  <2>2. persists => /\ t.recovery.kind = "persisting"
                    /\ t.recovery.attempt \in AnyAttempt
    BY DEF Persisting
  <2> HIDE DEF persists
  <2>3. Follows(t, t) /\ Follows(t, FailRecovery(t))
    BY <1>8, FailRecoveryInHand, KeepsFollows DEF Keeps
  <2>4. ~t.barrier => Follows(t, RecoveryLoaded(t, records))
    <3>1. ~t.barrier => t.barrier = FALSE
      BY <1>8 DEF InHand, Shaped
    <3> QED BY <1>8, <3>1, RecoveryLoadedFollows
  <2>5. StoresDisplaced(t) => Preparations(t) = {}
    <3>1. StoresDisplaced(t) => t.local.kind # "preparing"
      BY <1>8 DEF Orderly, SavesAlone, Saving, Clean, Dirty
    <3> QED BY <1>8, <3>1, NotPreparing
  <2>6. persists => /\ Follows(t, MutationFinished(t, records, decodes))
                    /\ Follows(t, Reconciled(t, records))
    BY <1>8, <2>2, <2>5, MutationFinishedFollows, ReconciledFollows
  <2>7. Follows(t, r)
    BY <2>1, <2>3, <2>4, <2>6
  <2> QED BY <2>7 DEF r
<1>9. /\ InHand(t) /\ Orderly(t) /\ Sound(t) /\ Open(t)
      /\ t.active[e.op] = e.token /\ Unserved(t) = Unserved(sync)
      => Follows(t, n(decodes))
  BY <1>1, <1>6, <1>7, <1>8
<1>10. Quiet(t) /\ t.active[e.op] = e.token => n(decodes) = t
  <2> HIDE DEF t, n
  <2> QED BY <1>1, <1>4 DEF Quiet
<1> HIDE DEF n
<1> QED BY <1>2, <1>5, <1>9, <1>10, ReceiveMoves

-----------------------------------------------------------------------------
(* The steps of the world.                                                 *)

\* An effect that advances or answers stays what it is.
LEMMA AnswerAccounted ==
  ASSUME NEW s, Accounted(s), NEW e \in s.effects, e.answer = None, NEW u,
         u.kind = e.kind, u.op = e.op, u.token = e.token, NEW r,
         r = [s EXCEPT !.effects = (s.effects \ {e}) \cup {u}]
  PROVE  Moves(s, r)
<1>1. /\ DOMAIN r = Fields /\ r.active = s.active
      /\ r.lifecycle = s.lifecycle /\ r.local = s.local
      /\ r.baseline = s.baseline /\ r.source = s.source
      /\ r.merge = s.merge
      /\ r.external = s.external /\ r.uncertain = s.uncertain
      /\ r.pendingConflict = s.pendingConflict
      /\ r.pendingDisplaced = s.pendingDisplaced /\ r.access = s.access
      /\ r.recovery = s.recovery /\ r.barrier = s.barrier
      /\ r.issue = s.issue /\ r.effects = (s.effects \ {e}) \cup {u}
  BY DEF Accounted, InHand, Shaped, Fields
<1>2. IsFiniteSet(r.effects)
  BY <1>1, FS_Subset, FS_AddElement DEF Accounted, InHand, Shaped
<1>3. Shaped(r)
  BY <1>1, <1>2 DEF Accounted, InHand, Shaped
<1>4. Unserved(s) = {} => Unserved(r) = {}
  BY <1>1 DEF Unserved
<1>5. Served(r)
  BY <1>1, <1>4 DEF Accounted, InHand, Served
<1>6. Preparations(s) = {} => Preparations(r) = {}
  BY <1>1 DEF Preparations
<1>7. Prepared(r)
  BY <1>1, <1>6 DEF Accounted, InHand, Prepared
<1>8. Quiet(s) => Quiet(r)
  BY <1>1, <1>4 DEF Quiet
<1> QED BY <1>1, <1>3, <1>5, <1>7, <1>8 DEF Moves, Accounted, InHand, Open

\* So does one that answers with this.
LEMMA AnsweredAccounted ==
  ASSUME NEW s, Accounted(s), NEW e \in s.effects, e \in Effects,
         e.answer = None, NEW answer
  PROVE  Moves(s, Answered(s, e, answer))
<1> DEFINE u == [e EXCEPT !.answer = answer]
<1>1. u.kind = e.kind /\ u.op = e.op /\ u.token = e.token
  BY DEF Effects, EffectsOf, Signals, Commits, Reconciliations, Reads,
     RecoveryCalls
<1>2. Answered(s, e, answer) =
        [s EXCEPT !.effects = (s.effects \ {e}) \cup {u}]
  BY DEF Answered
<1> HIDE DEF u
<1> QED BY <1>1, <1>2, AnswerAccounted

\* The monitor notices.
LEMMA NoticeAccounted ==
  ASSUME NEW s, Accounted(s)
  PROVE  Moves(s, Notice(s))
<1> DEFINE e == Effect("signal", "monitor", s.active["monitor"], None)
           r == Emit(s, e)
<1>1. Notice(s) \in {s, r}
  BY DEF Notice
<1>2. e.kind = "signal"
  BY DEF Effect
<1> HIDE DEF e
<1>3. Still(s, r)
  BY <1>2, EmitStill DEF Accounted, InHand
<1>4. /\ DOMAIN r = Fields /\ r.active = s.active
      /\ r.lifecycle = s.lifecycle /\ r.local = s.local
      /\ r.baseline = s.baseline /\ r.source = s.source
      /\ r.merge = s.merge
      /\ r.external = s.external /\ r.uncertain = s.uncertain
      /\ r.pendingConflict = s.pendingConflict
      /\ r.pendingDisplaced = s.pendingDisplaced /\ r.access = s.access
      /\ r.recovery = s.recovery /\ r.barrier = s.barrier
      /\ r.issue = s.issue
  BY DEF Accounted, InHand, Shaped, Fields, Emit
<1> HIDE DEF r
<1>5. Keeps(s, r)
  BY <1>3, StillKeeps DEF Accounted
<1>6. Quiet(s) => Quiet(r)
  BY <1>3, <1>4 DEF Quiet, Still
<1>7. Moves(s, r)
  BY <1>4, <1>5, <1>6 DEF Keeps, Moves, Accounted, Open
<1> QED BY <1>1, <1>7 DEF Moves

\* Two steps that no close request is part of.
LEMMA MovesOn ==
  ASSUME NEW s, NEW t, NEW r, Moves(s, t), Moves(t, r)
  PROVE  Moves(s, r)
BY DEF Moves

\* The steps of the effects in the world.
LEMMA WorldMoves ==
  ASSUME IInv, Accounted(sync), NEW e \in sync.effects,
         \/ CommitValidates(e) \/ CommitExecutes(e)
         \/ ReconcileCommitExecutes(e)
         \/ ReadExecutes(e) \/ RecoveryExecutes(e)
  PROVE  Moves(sync, sync')
<1>1. e \in Effects
  BY DEF IInv, Nearly, Calm, Sound, States
<1>2. e.answer = None
  BY DEF CommitValidates, CommitExecutes, ReconcileCommitExecutes,
     ReadExecutes, RecoveryExecutes
<1>3. \A answer : Moves(sync, Answered(sync, e, answer))
  BY <1>1, <1>2, AnsweredAccounted
<1>4. \A answer : Moves(sync, Notice(Answered(sync, e, answer)))
  BY <1>3, NoticeAccounted, MovesOn DEF Moves
<1>5. CASE CommitValidates(e)
  <2> DEFINE u == [e EXCEPT !.request.validated = TRUE]
  <2>1. u.kind = e.kind /\ u.op = e.op /\ u.token = e.token
    BY <1>1 DEF Effects, EffectsOf, Signals, Commits, Reconciliations, Reads,
       RecoveryCalls
  <2>2. \/ sync' = [sync EXCEPT !.effects = (sync.effects \ {e}) \cup {u}]
        \/ sync' = Answered(sync, e, CommitAnswer("targetChanged", None))
    BY <1>5 DEF CommitValidates
  <2> HIDE DEF u
  <2> QED BY <1>2, <1>3, <2>1, <2>2, AnswerAccounted
<1>6. CASE CommitExecutes(e)
  <2>1. \E answer : \/ sync' = Answered(sync, e, answer)
                    \/ sync' = Notice(Answered(sync, e, answer))
    BY <1>6 DEF CommitExecutes, CommitReports, UnknownOutcome
  <2> QED BY <1>3, <1>4, <2>1
<1>7. CASE ReconcileCommitExecutes(e)
  <2>1. \E answer : sync' = Answered(sync, e, answer)
    BY <1>7 DEF ReconcileCommitExecutes
  <2> QED BY <1>3, <2>1
<1>8. CASE ReadExecutes(e)
  <2>1. \E answer : sync' = Answered(sync, e, answer)
    BY <1>8 DEF ReadExecutes
  <2> QED BY <1>3, <2>1
<1>9. CASE RecoveryExecutes(e)
  <2>1. \E answer, gone :
          \/ sync' = Answered([sync EXCEPT !.displaced = gone], e, answer)
          \/ sync' = Answered(sync, e, answer)
    BY <1>9 DEF RecoveryExecutes
  <2>2. ASSUME NEW gone, NEW answer
        PROVE  Moves(sync, Answered([sync EXCEPT !.displaced = gone],
                                    e, answer))
    <3> DEFINE s == [sync EXCEPT !.displaced = gone]
    <3>1. Moves(sync, s) /\ e \in s.effects
      <4>1. /\ DOMAIN s = Fields /\ s.active = sync.active
            /\ s.lifecycle = sync.lifecycle /\ s.local = sync.local
            /\ s.baseline = sync.baseline /\ s.source = sync.source
            /\ s.merge = sync.merge
            /\ s.external = sync.external /\ s.uncertain = sync.uncertain
            /\ s.pendingConflict = sync.pendingConflict
            /\ s.pendingDisplaced = sync.pendingDisplaced
            /\ s.access = sync.access
            /\ s.recovery = sync.recovery /\ s.barrier = sync.barrier
            /\ s.issue = sync.issue /\ s.effects = sync.effects
        BY DEF Accounted, InHand, Shaped, Fields
      <4> HIDE DEF s
      <4>2. InHand(s)
        BY <4>1 DEF Accounted, InHand, Shaped, Served, Prepared, Unserved,
           Preparations
      <4>3. Quiet(sync) => Quiet(s)
        BY <4>1 DEF Quiet, Unserved
      <4> QED BY <4>1, <4>2, <4>3 DEF Moves, Accounted, Open
    <3> HIDE DEF s
    <3>2. Moves(s, Answered(s, e, answer))
      BY <1>1, <1>2, <3>1, AnsweredAccounted DEF Moves
    <3>3. Moves(sync, Answered(s, e, answer))
      BY <3>1, <3>2, MovesOn
    <3> QED BY <3>3 DEF s
  <2> QED BY <1>3, <2>1, <2>2
<1> QED BY <1>5, <1>6, <1>7, <1>8, <1>9

-----------------------------------------------------------------------------
(* The specification.                                                      *)

\* A document opens with nothing asked of the store.
LEMMA InitAccounted ==
  ASSUME Init
  PROVE  Accounted(sync)
<1> DEFINE e == Effect("load", "recovery", 1, None)
<1>1. /\ DOMAIN sync = Fields /\ DOMAIN sync.active = Operations
      /\ sync.lifecycle = "active" /\ sync.access = "loading"
      /\ sync.recovery = Clear /\ sync.barrier = FALSE
      /\ sync.effects = {e}
  BY DEF Init, Emit, Fields
<1>2. e.kind = "load"
  BY DEF Effect
<1> HIDE DEF e
<1>3. Shaped(sync)
  <2>1. IsFiniteSet(sync.effects)
    BY <1>1, FS_Singleton
  <2>2. \A x \in sync.effects : x.kind # "prepareSave"
    BY <1>1, <1>2
  <2>3. sync.recovery.kind = "clear"
    BY <1>1 DEF Clear
  <2> QED BY <1>1, <2>1, <2>2, <2>3 DEF Shaped
<1>4. Served(sync) /\ Prepared(sync)
  BY <1>1, <1>2 DEF Served, Prepared, Preparations
<1> QED BY <1>1, <1>3, <1>4 DEF Accounted, InHand, Open

\* Every step but the request to close.
LEMMA StepMoves ==
  ASSUME IInv, Orderly(sync), Accounted(sync), Next, ~UserCloses
  PROVE  Moves(sync, sync')
<1>1. CASE UserStep \/ HostCloses \/ HostCancels \/ MonitorFails
  BY <1>1, EditMoves, RequestMoves DEF UserStep
<1>2. CASE OtherProgram
  <2>1. sync' = Notice(sync)
    BY <1>2 DEF OtherProgram, ExternalWrite
  <2> QED BY <2>1, NoticeAccounted
<1>3. CASE ProgramStep
  <2>1. PICK e \in sync.effects :
          \/ Completions(e) \/ CloseDeadline(e)
          \/ CommitValidates(e) \/ CommitExecutes(e)
          \/ ReconcileCommitExecutes(e)
          \/ ReadExecutes(e) \/ RecoveryExecutes(e)
    BY <1>3 DEF ProgramStep
  <2>2. CASE Completions(e) \/ CloseDeadline(e)
    BY <2>2, DeadlineMoves, FinishCommitMoves, FinishReconciliationMoves,
       FinishReadMoves, FinishMergeMoves, FinishRecoveryMoves
       DEF Completions
  <2>3. CASE ~(Completions(e) \/ CloseDeadline(e))
    BY <2>1, <2>3, WorldMoves
  <2> QED BY <2>2, <2>3
<1> QED BY <1>1, <1>2, <1>3 DEF Next

\* Every step accounts for the answers of the store.
LEMMA NextAccounted ==
  ASSUME IInv, Orderly(sync), Accounted(sync), [Next]_vars
  PROVE  Accounted(sync')
<1>1. CASE UserCloses
  BY <1>1, CloseAccounted
<1>2. CASE Next /\ ~UserCloses
  BY <1>2, StepMoves DEF Moves
<1>3. CASE UNCHANGED vars
  BY <1>3 DEF vars
<1> QED BY <1>1, <1>2, <1>3

\* A document that may be closed owes nothing.
LEMMA NothingOwed ==
  ASSUME Orderly(sync), Accounted(sync)
  PROVE  NothingIsOwed
<1>1. CASE Open(sync)
  BY <1>1 DEF Open, NothingIsOwed
<1>2. CASE Quiet(sync)
  <2>1. Outstanding("commit") = {}
    BY <1>2 DEF Outstanding, Quiet, Orderly, WritesCommit, CommitsOf, Clean
  <2>2. \A e \in Outstanding("mutate") : e.answer # None
    BY <1>2 DEF Outstanding, Quiet, Unserved
  <2> QED BY <1>2, <2>1, <2>2 DEF Quiet, NothingIsOwed
<1> QED BY <1>1, <1>2 DEF Accounted

\* A close is allowed only when nothing is owed: the text is in the file, no
\* commit, change of the store, merge or read is under way, no bytes wait to be
\* stored, and no answer that would change that is still to come.
THEOREM ClosingOwesNothing ==
  ASSUME "saveDuringMerge" \notin Requests
  PROVE  Spec /\ []ClosingMergesFirst => []NothingIsOwed
<1>1. IInv /\ Orderly(sync) /\ Accounted(sync) /\ [Next]_vars
      => Accounted(sync)'
  BY NextAccounted
<1>2. Init => Accounted(sync)
  BY InitAccounted
<1>3. Orderly(sync) /\ Accounted(sync) => NothingIsOwed
  BY NothingOwed
<1> QED BY <1>1, <1>2, <1>3, OrderHolds, InvariantHolds, PTL DEF Spec

-----------------------------------------------------------------------------
(* A document that is never closed.                                        *)

\* No one has closed the document, and no one may.
Unclosed ==
  /\ "closes" \in DOMAIN budget /\ budget.closes = 0
  /\ sync.lifecycle = "active"

\* What the steps take from the bounds.
Spends == UNCHANGED budget \/ \E what : Spend(what)

\* A step takes at most one from one bound.
LEMMA NextSpends ==
  ASSUME Next
  PROVE  Spends
<1>1. \A kind : Fault(kind) => Spends
  BY DEF Fault, Spends
<1>2. \A what : Ask(what) => Spends
  BY DEF Ask, Spends
<1>3. CASE UserStep \/ HostCloses \/ HostCancels \/ MonitorFails
  BY <1>1, <1>2, <1>3 DEF UserStep, Edit, RequestSave, UserRetries,
     UserRestores, UserDiscardsRaw, UserCloses, HostCloses, HostCancels,
     MonitorFails, Spends
<1>4. CASE OtherProgram
  BY <1>4 DEF OtherProgram, ExternalWrite, Spends
<1>5. CASE ProgramStep
  <2>1. PICK e \in sync.effects :
          \/ Completions(e) \/ CloseDeadline(e)
          \/ CommitValidates(e) \/ CommitExecutes(e)
          \/ ReconcileCommitExecutes(e)
          \/ ReadExecutes(e) \/ RecoveryExecutes(e)
    BY <1>5 DEF ProgramStep
  <2>2. CASE Completions(e) \/ CloseDeadline(e)
    BY <1>1, <2>2 DEF Completions, CloseDeadline, LocalSaveDeadline,
       ExternalReadDeadline, PrepareSave, FinishCommit, FinishReconciliation,
       MonitorSignal, FinishRead, FinishMerge, FinishRecovery, Spends
  <2>3. CASE CommitValidates(e) \/ ReconcileCommitExecutes(e)
             \/ ReadExecutes(e)
    BY <1>1, <2>3 DEF CommitValidates, ReconcileCommitExecutes, ReadExecutes,
       Spends
  <2>4. CASE CommitExecutes(e)
    BY <1>1, <2>4 DEF CommitExecutes, CommitReports, Spends
  <2>5. CASE RecoveryExecutes(e)
    BY <1>1, <2>5 DEF RecoveryExecutes, Spends
  <2> QED BY <2>1, <2>2, <2>3, <2>4, <2>5
<1> QED BY <1>3, <1>4, <1>5 DEF Next

\* A document that no one closes stays active.
LEMMA UnclosedKeeps ==
  ASSUME IInv, Orderly(sync), Accounted(sync), Unclosed, [Next]_vars
  PROVE  Unclosed'
<1>1. CASE Next
  <2>1. ~UserCloses
    BY DEF UserCloses, Spend, Unclosed
  <2>2. sync'.lifecycle = "active"
    BY <1>1, <2>1, StepMoves DEF Moves, Unclosed
  <2>3. Spends
    BY <1>1, NextSpends
  <2>4. "closes" \in DOMAIN budget' /\ budget'.closes = 0
    BY <2>3 DEF Spends, Spend, Unclosed
  <2> QED BY <2>2, <2>4 DEF Unclosed
<1>2. CASE UNCHANGED vars
  BY <1>2 DEF vars, Unclosed
<1> QED BY <1>1, <1>2

\* The order of saves is an invariant of a document that no one closes, with
\* no premise: the merges of the close are the only ones beside a save.
LEMMA UnclosedHolds ==
  ASSUME "saveDuringMerge" \notin Requests, MaxCloses = 0
  PROVE  Spec => []Orderly(sync)
<1> DEFINE Inv == Orderly(sync) /\ Accounted(sync) /\ Unclosed
<1>1. Init => Inv
  <2>1. Init => Unclosed
    BY DEF Init, Emit, Unclosed
  <2> QED BY <2>1, InitOrderly, InitAccounted
<1>2. IInv /\ Inv /\ [Next]_vars => Inv'
  <2> SUFFICES ASSUME IInv, Inv, [Next]_vars PROVE Inv'
    OBVIOUS
  <2>1. Unclosed' /\ Accounted(sync')
    BY UnclosedKeeps, NextAccounted
  <2>2. MergesFirst(sync')
    BY <2>1 DEF Unclosed, MergesFirst
  <2>3. Orderly(sync')
    BY <2>2, NextOrderly DEF vars
  <2> QED BY <2>1, <2>3
<1>3. Inv => Orderly(sync)
  OBVIOUS
<1> HIDE DEF Inv
<1> QED BY <1>1, <1>2, <1>3, InvariantHolds, PTL DEF Spec

\* The commit of a document that is open is tracked, whatever fails, whatever
\* other programs write and whatever the user asks for except to save during a
\* merge: no premise is needed where no one closes the document.
THEOREM OpenCommitsAreTracked ==
  ASSUME "saveDuringMerge" \notin Requests, MaxCloses = 0
  PROVE  Spec => []CommitIsTracked
BY UnclosedHolds, OrderTracksCommits, PTL

\* No commit of an open document runs during a merge, with no premise either.
THEOREM OpenObservationsAreDecidedFirst ==
  ASSUME "saveDuringMerge" \notin Requests, MaxCloses = 0
  PROVE  Spec => []ObservationIsDecidedFirst
BY UnclosedHolds, OrderDecidesFirst, PTL

-----------------------------------------------------------------------------
(* What the document knows of the recovery store.                          *)

\* What a change of the store makes of the records that it expects.
After(a) ==
  CASE a.discard # None -> AfterDiscard(a.discard, a.expected)
    [] a.purpose = "persistConflict" ->
         LET all == <<a.entry>> \o a.expected.decoded
         IN  [a.expected EXCEPT !.decoded =
                SubSeq(all, 1, Min({EntryLimit, Len(all)}))]
    [] a.purpose = "persistDisplacedPreimage" ->
         [a.expected EXCEPT !.raw = @ \cup {a.entry}]

\* The parts of the state that concern the store have their forms.
Formal(s) ==
  /\ DOMAIN s = Fields /\ DOMAIN s.active = Operations
  /\ IsFiniteSet(s.effects)
  /\ s.access \in {"loading", "ready", "failed"}
  /\ s.recovery.kind \in {"clear", "available", "persisting"}
  /\ s.recovery.kind = "persisting" =>
       s.recovery = Persisting(s.recovery.attempt)
  /\ s.barrier \in BOOLEAN
  /\ \A e \in s.effects :
       e.op = "recovery" <=> e.kind \in {"load", "mutate", "reconcile"}

\* The changes and reconciliations that the store has not answered yet.
Pending(s) ==
  {e \in s.effects : e.kind \in {"mutate", "reconcile"} /\ e.answer = None}

\* The records that the state shows are those of the store, and while a change
\* is asked for, those before or after it, or more than both.
View(s, st) ==
  /\ s.recovery.kind = "available" => s.recovery.records = st
  /\ s.recovery.kind = "clear" /\ s.access = "ready" => st = NoRecords
  /\ s.recovery.kind = "persisting" =>
       \/ st = s.recovery.attempt.expected
       \/ st = After(s.recovery.attempt)
       \/ BroughtIn(s.recovery.attempt, st)

\* What lies beside the journals is not among the records, nor among those
\* that a change expects: an import of it shows.
Unfiled(st) == artifacts \cap st.raw = {}

OutOfStore(s, st) ==
  /\ Unfiled(st)
  /\ s.recovery.kind = "persisting" => Unfiled(s.recovery.attempt.expected)

\* A change the store has not carried out yet is the one the state remembers,
\* and is asked of the records that are there; a reconciliation the store has
\* not answered yet is of the change that the state remembers.
Requested(s, st) ==
  \A e \in Pending(s) :
    /\ s.recovery = Persisting(e.request)
    /\ e.kind = "mutate" =>
         /\ e.request.expected = st
         /\ \A f \in Pending(s) : f.kind = "mutate" => f = e

\* The reducer is in the state in which it takes the answer of e.
Awaits(s, e) ==
  \/ e.kind = "load" /\ s.access = "loading" /\ s.barrier = FALSE
  \/ /\ e.kind = "mutate" /\ s.recovery = Persisting(e.request)
     /\ e.request.token = e.token
  \/ /\ e.kind = "reconcile" /\ s.access = "loading" /\ s.barrier = TRUE
     /\ s.recovery = Persisting(e.request)

\* The answer of the active call will not be ignored.
ActiveIsAwaited(s) ==
  s.active["recovery"] # 0 =>
    \A e \in CallsOf(s) : e.token = s.active["recovery"] => Awaits(s, e)

\* A change that a ready store is asked for is the active call; one that was
\* interrupted leaves the barrier.
ChangeIsHeld(s) ==
  s.recovery.kind = "persisting" =>
    IF s.access = "ready"
    THEN /\ s.active["recovery"] # 0
         /\ s.active["recovery"] = s.recovery.attempt.token
    ELSE s.barrier = TRUE

Echoes(s, st) ==
  /\ Formal(s) /\ View(s, st) /\ Requested(s, st)
  /\ ActiveIsAwaited(s) /\ ChangeIsHeld(s)

InStep(s, st) ==
  /\ Formal(s) /\ View(s, st) /\ OutOfStore(s, st) /\ Requested(s, st)
  /\ ActiveIsAwaited(s) /\ ChangeIsHeld(s)

\* A change that is remembered has a call that will answer, or has failed, or
\* an import hides what became of it.
Waits(s, st) ==
  s.recovery.kind = "persisting" =>
    \/ s.access = "failed"
    \/ BroughtIn(s.recovery.attempt, st)
    \/ /\ s.active["recovery"] # 0
       /\ \E e \in CallsOf(s) : e.token = s.active["recovery"]

\* What a handler does while the store holds st.
Answers(s, r, st) == InStep(r, st) /\ (Waits(s, st) => Waits(r, st))

\* What is not about the store.
Spares(s, r) ==
  /\ Formal(r)
  /\ r.recovery = s.recovery /\ r.access = s.access
  /\ r.barrier = s.barrier
  /\ r.active["recovery"] = s.active["recovery"]
  /\ CallsOf(r) = CallsOf(s)

LEMMA PendingCalls ==
  ASSUME NEW s, Formal(s)
  PROVE  Pending(s) = {e \in CallsOf(s) :
                         /\ e.kind \in {"mutate", "reconcile"}
                         /\ e.answer = None}
BY DEF Formal, Pending, CallsOf

\* What spares the store stays in step with it.
LEMMA SparesAnswers ==
  ASSUME NEW s, NEW st, InStep(s, st), NEW r, Spares(s, r)
  PROVE  Answers(s, r, st)
<1>1. Formal(s) /\ Formal(r)
  BY DEF InStep, Spares
<1>2. Pending(r) = Pending(s)
  BY <1>1, PendingCalls DEF Spares
<1>3. View(r, st) /\ OutOfStore(r, st)
  BY DEF InStep, View, OutOfStore, Spares
<1>4. Requested(r, st)
  BY <1>2 DEF InStep, Requested, Spares
<1>5. ActiveIsAwaited(r)
  BY DEF InStep, ActiveIsAwaited, Awaits, Spares
<1>6. ChangeIsHeld(r)
  BY DEF InStep, ChangeIsHeld, Spares
<1>7. Waits(s, st) => Waits(r, st)
  BY DEF Waits, Spares
<1> QED BY <1>1, <1>3, <1>4, <1>5, <1>6, <1>7 DEF Answers, InStep

\* Two changes that spare the store.
LEMMA SparesOn ==
  ASSUME NEW s, NEW t, NEW r, Spares(s, t), Spares(t, r)
  PROVE  Spares(s, r)
BY DEF Spares

\* No change spares the store.
LEMMA SparesSame ==
  ASSUME NEW s, Formal(s)
  PROVE  Spares(s, s)
BY DEF Spares

\* Two changes in step with the store.
LEMMA AnswersOn ==
  ASSUME NEW s, NEW t, NEW r, NEW st, Answers(s, t, st), Answers(t, r, st)
  PROVE  Answers(s, r, st)
BY DEF Answers

\* No change is in step.
LEMMA AnswersSame ==
  ASSUME NEW s, NEW st, InStep(s, st)
  PROVE  Answers(s, s, st)
BY DEF Answers

\* Fields that are not about the store may change.
LEMMA SparesSet ==
  ASSUME NEW s, Formal(s), NEW r,
         DOMAIN r = Fields, r.active = s.active, r.effects = s.effects,
         r.access = s.access, r.recovery = s.recovery,
         r.barrier = s.barrier
  PROVE  Spares(s, r)
BY DEF Formal, Spares, CallsOf

\* Effects other than calls may be taken back.
LEMMA SparesLess ==
  ASSUME NEW s, Formal(s), NEW r,
         DOMAIN r = Fields, DOMAIN r.active = Operations,
         r.active["recovery"] = s.active["recovery"],
         r.effects \subseteq s.effects,
         \A e \in s.effects : e.op = "recovery" => e \in r.effects,
         r.access = s.access, r.recovery = s.recovery,
         r.barrier = s.barrier
  PROVE  Spares(s, r)
<1>1. IsFiniteSet(r.effects)
  BY FS_Subset DEF Formal
<1>2. CallsOf(r) = CallsOf(s)
  BY DEF CallsOf
<1> QED BY <1>1, <1>2 DEF Formal, Spares

LEMMA DeactivateSpares ==
  ASSUME NEW s, Formal(s), NEW op \in Operations \ {"recovery"}
  PROVE  Spares(s, Deactivate(s, op))
BY DEF Formal, Fields, Deactivate, Spares, CallsOf

LEMMA CancelSpares ==
  ASSUME NEW s, Formal(s), NEW op, NEW token
  PROVE  Spares(s, Cancel(s, op, token))
<1> DEFINE r == Cancel(s, op, token)
<1>1. /\ DOMAIN r = Fields /\ r.active = s.active
      /\ r.access = s.access /\ r.recovery = s.recovery
      /\ r.barrier = s.barrier
      /\ r.effects = {e \in s.effects :
                        ~(/\ e.op = op /\ e.token = token
                          /\ e.kind \in Deadlines \cup {"prepareSave", "merge"})}
  BY DEF Formal, Fields, Cancel
<1>2. \A e \in s.effects : e.op = "recovery" => e \in r.effects
  BY <1>1 DEF Formal, Deadlines
<1> HIDE DEF r
<1>3. Spares(s, r)
  BY <1>1, <1>2, SparesLess DEF Formal
<1> QED BY <1>3 DEF r

LEMMA CancelAllDeadlinesSpares ==
  ASSUME NEW s, Formal(s)
  PROVE  Spares(s, CancelAllDeadlines(s))
<1> DEFINE r == CancelAllDeadlines(s)
<1>1. /\ DOMAIN r = Fields /\ r.active = s.active
      /\ r.access = s.access /\ r.recovery = s.recovery
      /\ r.barrier = s.barrier
      /\ r.effects = {e \in s.effects : e.kind \notin Deadlines}
  BY DEF Formal, Fields, CancelAllDeadlines
<1>2. \A e \in s.effects : e.op = "recovery" => e \in r.effects
  BY <1>1 DEF Formal, Deadlines
<1> HIDE DEF r
<1>3. Spares(s, r)
  BY <1>1, <1>2, SparesLess DEF Formal
<1> QED BY <1>3 DEF r

LEMMA EmitSpares ==
  ASSUME NEW s, Formal(s), NEW e, e.op # "recovery",
         e.kind \notin {"load", "mutate", "reconcile"}
  PROVE  Spares(s, Emit(s, e))
<1> DEFINE r == Emit(s, e)
<1>1. /\ DOMAIN r = Fields /\ r.active = s.active
      /\ r.access = s.access /\ r.recovery = s.recovery
      /\ r.barrier = s.barrier /\ r.effects = s.effects \cup {e}
  BY DEF Formal, Fields, Emit
<1>2. IsFiniteSet(r.effects)
  BY <1>1, FS_AddElement DEF Formal
<1> HIDE DEF r
<1>3. CallsOf(r) = CallsOf(s)
  BY <1>1 DEF CallsOf
<1>4. Formal(r)
  BY <1>1, <1>2 DEF Formal
<1>5. Spares(s, r)
  BY <1>1, <1>3, <1>4 DEF Spares
<1> QED BY <1>5 DEF r

LEMMA ActivateSpares ==
  ASSUME NEW s, Formal(s), NEW op \in Operations \ {"recovery"}, NEW t
  PROVE  Spares(s, [s EXCEPT !.active[op] = t])
BY DEF Formal, Fields, Spares, CallsOf

LEMMA StartSpares ==
  ASSUME NEW s, Formal(s), NEW op \in Operations \ {"recovery"},
         NEW kind, kind \notin {"load", "mutate", "reconcile"}, NEW request
  PROVE  Spares(s, Start(s, kind, op, request))
<1> DEFINE t == FreshToken(s, op)
           q == [s EXCEPT !.active[op] = t]
           e == Effect(kind, op, t, request)
<1> HIDE DEF t
<1>1. Spares(s, q)
  BY ActivateSpares
<1>2. e.op # "recovery" /\ e.kind \notin {"load", "mutate", "reconcile"}
  BY DEF Effect
<1>3. Start(s, kind, op, request) = Emit(q, e)
  BY DEF Start, t
<1> HIDE DEF q, e
<1> QED BY <1>1, <1>2, <1>3, EmitSpares, SparesOn DEF Spares

LEMMA StartMonitorSpares ==
  ASSUME NEW s, Formal(s)
  PROVE  Spares(s, StartMonitor(s))
<1> DEFINE t == FreshToken(s, "monitor")
<1> HIDE DEF t
<1>1. "monitor" \in Operations \ {"recovery"}
  BY DEF Operations
<1>2. StartMonitor(s) = [s EXCEPT !.active["monitor"] = t]
  BY DEF StartMonitor, t
<1> QED BY <1>1, <1>2, ActivateSpares

LEMMA ScheduleLocalSaveSpares ==
  ASSUME NEW s, Formal(s)
  PROVE  Spares(s, ScheduleLocalSave(s))
<1> DEFINE r == Start(s, "localSaveDeadline", "savePreparation", None)
           q == [r EXCEPT !.local = Dirty(r.active["savePreparation"])]
<1>1. Spares(s, r)
  BY StartSpares DEF Operations
<1>2. ScheduleLocalSave(s) \in {q, s}
  BY DEF ScheduleLocalSave
<1> HIDE DEF r
<1>3. /\ DOMAIN q = Fields /\ q.active = r.active /\ q.effects = r.effects
      /\ q.access = r.access /\ q.recovery = r.recovery
      /\ q.barrier = r.barrier
  BY <1>1 DEF Spares, Formal, Fields
<1> HIDE DEF q
<1>4. Spares(s, q)
  BY <1>1, <1>3, SparesSet, SparesOn DEF Spares
<1> QED BY <1>2, <1>4, SparesSame

LEMMA ScheduleExternalReadSpares ==
  ASSUME NEW s, Formal(s)
  PROVE  Spares(s, ScheduleExternalRead(s))
<1> DEFINE r == Start(s, "externalReadDeadline", "externalRead", None)
           q == [r EXCEPT !.external = [kind |-> "debouncing",
                                        token |-> r.active["externalRead"],
                                        expected |-> s.baseline],
                          !.signalPending = FALSE]
           p == [s EXCEPT !.signalPending = TRUE]
<1>1. Spares(s, r)
  BY StartSpares DEF Operations
<1>2. ScheduleExternalRead(s) \in {q, p}
  BY DEF ScheduleExternalRead
<1> HIDE DEF r
<1>3. /\ DOMAIN q = Fields /\ q.active = r.active /\ q.effects = r.effects
      /\ q.access = r.access /\ q.recovery = r.recovery
      /\ q.barrier = r.barrier
  BY <1>1 DEF Spares, Formal, Fields
<1>4. /\ DOMAIN p = Fields /\ p.active = s.active /\ p.effects = s.effects
      /\ p.access = s.access /\ p.recovery = s.recovery
      /\ p.barrier = s.barrier
  BY DEF Formal, Fields
<1> HIDE DEF q, p
<1>5. Spares(s, q) /\ Spares(s, p)
  BY <1>1, <1>3, <1>4, SparesSet, SparesOn DEF Spares
<1> QED BY <1>2, <1>5

LEMMA InvalidatePreparationSpares ==
  ASSUME NEW s, Formal(s)
  PROVE  Spares(s, InvalidatePreparation(s))
<1> DEFINE d == Deactivate(s, "savePreparation")
           c == Cancel(d, "savePreparation", s.local.token)
           q == [c EXCEPT !.local = Dirty(0)]
<1>1. InvalidatePreparation(s) \in {q, s}
  BY DEF InvalidatePreparation
<1>2. Spares(s, d)
  BY DeactivateSpares DEF Operations
<1> HIDE DEF d
<1>3. Spares(s, c)
  BY <1>2, CancelSpares, SparesOn DEF Spares
<1> HIDE DEF c
<1>4. /\ DOMAIN q = Fields /\ q.active = c.active /\ q.effects = c.effects
      /\ q.access = c.access /\ q.recovery = c.recovery
      /\ q.barrier = c.barrier
  BY <1>3 DEF Spares, Formal, Fields
<1> HIDE DEF q
<1>5. Spares(s, q)
  BY <1>3, <1>4, SparesSet, SparesOn DEF Spares
<1> QED BY <1>1, <1>5, SparesSame

LEMMA InvalidateMergeSpares ==
  ASSUME NEW s, Formal(s)
  PROVE  Spares(s, InvalidateMerge(s))
<1> DEFINE u == [s EXCEPT
                   !.unresolvedDisplaced = s.merge.origin.continuation,
                   !.issue = "recovery"]
           r == IF s.merge.origin = None THEN s ELSE u
           d == Deactivate(r, "merge")
           c == Cancel(d, "merge", s.merge.token)
           q == [c EXCEPT !.merge = None, !.signalPending = TRUE]
<1>1. InvalidateMerge(s) \in {q, s}
  BY DEF InvalidateMerge
<1>2. /\ DOMAIN u = Fields /\ u.active = s.active /\ u.effects = s.effects
      /\ u.access = s.access /\ u.recovery = s.recovery
      /\ u.barrier = s.barrier
  BY DEF Formal, Fields
<1> HIDE DEF u
<1>3. Spares(s, r)
  BY <1>2, SparesSet, SparesSame
<1> HIDE DEF r
<1>4. Spares(s, d)
  BY <1>3, DeactivateSpares, SparesOn DEF Operations, Spares
<1> HIDE DEF d
<1>5. Spares(s, c)
  BY <1>4, CancelSpares, SparesOn DEF Spares
<1> HIDE DEF c
<1>6. /\ DOMAIN q = Fields /\ q.active = c.active /\ q.effects = c.effects
      /\ q.access = c.access /\ q.recovery = c.recovery
      /\ q.barrier = c.barrier
  BY <1>5 DEF Spares, Formal, Fields
<1> HIDE DEF q
<1>7. Spares(s, q)
  BY <1>5, <1>6, SparesSet, SparesOn DEF Spares
<1> QED BY <1>1, <1>7, SparesSame

LEMMA RefuseCloseSpares ==
  ASSUME NEW s, Formal(s)
  PROVE  Spares(s, RefuseCloseIfNeeded(s))
<1> DEFINE d == Deactivate(s, "close")
           c == Cancel(d, "close", s.active["close"])
           q == [c EXCEPT !.lifecycle = "active"]
<1>1. RefuseCloseIfNeeded(s) \in {q, s}
  BY DEF RefuseCloseIfNeeded
<1>2. Spares(s, d)
  BY DeactivateSpares DEF Operations
<1> HIDE DEF d
<1>3. Spares(s, c)
  BY <1>2, CancelSpares, SparesOn DEF Spares
<1> HIDE DEF c
<1>4. /\ DOMAIN q = Fields /\ q.active = c.active /\ q.effects = c.effects
      /\ q.access = c.access /\ q.recovery = c.recovery
      /\ q.barrier = c.barrier
  BY <1>3 DEF Spares, Formal, Fields
<1> HIDE DEF q
<1>5. Spares(s, q)
  BY <1>3, <1>4, SparesSet, SparesOn DEF Spares
<1> QED BY <1>1, <1>5, SparesSame

LEMMA RefuseSpares ==
  ASSUME NEW s, Formal(s), NEW failure
  PROVE  Spares(s, Refuse(s, failure))
<1> DEFINE i == [s EXCEPT !.issue = failure]
<1>1. Spares(s, i)
  BY SparesSet DEF Formal, Fields
<1> HIDE DEF i
<1>2. Spares(s, RefuseCloseIfNeeded(i))
  BY <1>1, RefuseCloseSpares, SparesOn DEF Spares
<1> QED BY <1>2 DEF Refuse, i

\* Giving up automatic work takes back the token of a call, and the barrier
\* remembers a change that was under way.
LEMMA InvalidateAutomatedWorkSteps ==
  ASSUME NEW s, NEW st, InStep(s, st)
  PROVE  LET r == InvalidateAutomatedWork(s) IN
         /\ InStep([r EXCEPT !.access = "failed"], st)
         /\ Formal(r) /\ r.access = s.access /\ r.recovery = s.recovery
         /\ r.active["recovery"] = 0 /\ CallsOf(r) = CallsOf(s)
         /\ s.recovery.kind = "persisting" => r.barrier = TRUE
         /\ s.active["recovery"] = 0 => r.barrier = s.barrier
<1> DEFINE cancelled ==
             {e \in s.effects :
                \/ /\ e.kind = "prepareSave" /\ s.local.kind = "preparing"
                   /\ e.token = s.local.token
                \/ e.kind = "merge" /\ s.merge # None
                   /\ e.token = s.merge.token}
           r == InvalidateAutomatedWork(s)
           q == [r EXCEPT !.access = "failed"]
<1>a. /\ Formal(s) /\ View(s, st) /\ OutOfStore(s, st) /\ Requested(s, st)
      /\ ChangeIsHeld(s)
  BY DEF InStep
<1>1. /\ DOMAIN r = Fields /\ DOMAIN r.active = Operations
      /\ r.effects = s.effects \ cancelled
      /\ r.access = s.access /\ r.recovery = s.recovery
      /\ r.active["recovery"] = 0
  BY <1>a DEF Formal, Fields, InvalidateAutomatedWork, Operations
<1>2. r.barrier = (s.barrier \/ RecoveryMutationIsActive(s))
  BY <1>a DEF Formal, Fields, InvalidateAutomatedWork
<1>3. \A e \in cancelled : e.op # "recovery"
  BY <1>a DEF Formal
<1> HIDE DEF r, cancelled
<1>4. CallsOf(r) = CallsOf(s)
  BY <1>1, <1>3 DEF CallsOf
<1>5. s.barrier \in BOOLEAN
  BY <1>a DEF Formal
<1>6. r.barrier \in BOOLEAN
      /\ (s.barrier = TRUE \/ RecoveryMutationIsActive(s) => r.barrier = TRUE)
      /\ (RecoveryMutationIsActive(s) \/ r.barrier = s.barrier)
  <2>1. RecoveryMutationIsActive(s) \in BOOLEAN
    BY DEF RecoveryMutationIsActive
  <2> HIDE DEF RecoveryMutationIsActive
  <2> QED BY <1>2, <1>5, <2>1, Zenon
<1>7. s.recovery.kind = "persisting" => r.barrier = TRUE
  BY <1>a, <1>6 DEF ChangeIsHeld, RecoveryMutationIsActive
<1>8. s.active["recovery"] = 0 => r.barrier = s.barrier
  BY <1>6 DEF RecoveryMutationIsActive
<1>9. IsFiniteSet(r.effects)
  BY <1>a, <1>1, FS_Subset DEF Formal
<1>10. Formal(r)
  BY <1>a, <1>1, <1>6, <1>9 DEF Formal
<1>11. /\ DOMAIN q = Fields /\ q.active = r.active /\ q.effects = r.effects
       /\ q.access = "failed" /\ q.recovery = r.recovery
       /\ q.barrier = r.barrier
  BY <1>1 DEF Fields
<1> HIDE DEF q
<1>12. Formal(q)
  BY <1>10, <1>11 DEF Formal
<1>13. Pending(q) = Pending(s)
  BY <1>a, <1>4, <1>11, <1>12, PendingCalls DEF CallsOf
<1>14. View(q, st) /\ OutOfStore(q, st)
  BY <1>a, <1>1, <1>11 DEF View, OutOfStore
<1>15. Requested(q, st)
  BY <1>a, <1>1, <1>11, <1>13 DEF Requested
<1>16. ActiveIsAwaited(q) /\ ChangeIsHeld(q)
  BY <1>1, <1>7, <1>11 DEF ActiveIsAwaited, ChangeIsHeld
<1>17. InStep(q, st)
  BY <1>12, <1>14, <1>15, <1>16 DEF InStep
<1> QED BY <1>1, <1>4, <1>7, <1>8, <1>10, <1>17 DEF r, q

\* A store that failed may still carry out what it was asked.
LEMMA FailRecoveryAnswers ==
  ASSUME NEW s, NEW st, InStep(s, st)
  PROVE  InStep(FailRecovery(s), st) /\ Waits(FailRecovery(s), st)
<1> DEFINE w == InvalidateAutomatedWork(s)
           r == CancelAllDeadlines(w)
           f == [w EXCEPT !.access = "failed"]
           q == [r EXCEPT !.access = "failed", !.issue = "recovery",
                  !.lifecycle = IF @ = "closing" THEN "active" ELSE @]
<1>1. InStep(f, st) /\ Formal(w)
  BY InvalidateAutomatedWorkSteps
<1>2. Spares(w, r)
  BY <1>1, CancelAllDeadlinesSpares
<1>3. FailRecovery(s) = q
  BY DEF FailRecovery
<1> HIDE DEF w
<1> HIDE DEF r
<1>4. /\ DOMAIN q = Fields /\ q.active = r.active /\ q.effects = r.effects
      /\ q.access = "failed" /\ q.recovery = r.recovery
      /\ q.barrier = r.barrier
  BY <1>2 DEF Spares, Formal, Fields
<1>5. /\ f.active = w.active /\ f.effects = w.effects
      /\ f.access = "failed" /\ f.recovery = w.recovery
      /\ f.barrier = w.barrier
  BY <1>1 DEF Formal, Fields
<1> HIDE DEF q, f
<1>6. Spares(f, q)
  BY <1>2, <1>4, <1>5 DEF Spares, Formal, CallsOf
<1>7. InStep(q, st)
  BY <1>1, <1>6, SparesAnswers DEF Answers
<1>8. Waits(q, st)
  BY <1>4 DEF Waits
<1> QED BY <1>3, <1>7, <1>8

-----------------------------------------------------------------------------
(* Calls of the store.                                                     *)

\* A new call is the active one, and no other has its token.
LEMMA StartCalls ==
  ASSUME NEW s, Formal(s), NEW request,
         NEW kind \in {"load", "mutate", "reconcile"}
  PROVE  LET t == FreshToken(s, "recovery")
             e == Effect(kind, "recovery", t, request)
             r == Start(s, kind, "recovery", request)
         IN  /\ Formal(r)
             /\ r.access = s.access /\ r.recovery = s.recovery
             /\ r.barrier = s.barrier
             /\ t # 0 /\ r.active["recovery"] = t
             /\ CallsOf(r) = CallsOf(s) \cup {e}
             /\ \A f \in CallsOf(r) : f.token = t => f = e
<1> DEFINE t == FreshToken(s, "recovery")
           e == Effect(kind, "recovery", t, request)
           p == [s EXCEPT !.active["recovery"] = t]
           r == Emit(p, e)
<1>1. t # 0 /\ \A f \in s.effects : f.op = "recovery" => f.token # t
  BY FreshTokenIsNew DEF Formal
<1>2. Start(s, kind, "recovery", request) = r
  BY DEF Start
<1> HIDE DEF t
<1>3. /\ DOMAIN p = Fields /\ DOMAIN p.active = Operations
      /\ p.active["recovery"] = t /\ p.effects = s.effects
      /\ p.access = s.access /\ p.recovery = s.recovery
      /\ p.barrier = s.barrier
  BY DEF Formal, Fields, Operations
<1> HIDE DEF p
<1>4. /\ DOMAIN r = Fields /\ r.active = p.active
      /\ r.effects = s.effects \cup {e}
      /\ r.access = s.access /\ r.recovery = s.recovery
      /\ r.barrier = s.barrier
  BY <1>3 DEF Fields, Emit
<1>5. e.op = "recovery" /\ e.kind = kind /\ e.token = t
  BY DEF Effect
<1> HIDE DEF r, e
<1>6. IsFiniteSet(r.effects)
  BY <1>4, FS_AddElement DEF Formal
<1>7. Formal(r)
  BY <1>3, <1>4, <1>5, <1>6 DEF Formal
<1>8. CallsOf(r) = CallsOf(s) \cup {e}
  BY <1>4, <1>5 DEF CallsOf
<1>9. \A f \in CallsOf(r) : f.token = t => f = e
  BY <1>1, <1>8 DEF CallsOf
<1> QED BY <1>1, <1>2, <1>3, <1>4, <1>7, <1>8, <1>9 DEF t, e

\* A change that is asked for while no other one is on its way, and of the
\* records that are there.
LEMMA StartMutationSteps ==
  ASSUME NEW s, NEW st, Formal(s), s.access = "ready", Pending(s) = {},
         Unfiled(st), NEW a, a.expected = st,
         DOMAIN a = {"token", "purpose", "expected", "entry", "discard",
                     "cleanup", "continuation"}
  PROVE  InStep(StartMutation(s, a), st) /\ Waits(StartMutation(s, a), st)
<1> DEFINE t == FreshToken(s, "recovery")
           b == [a EXCEPT !.token = t]
           e == Effect("mutate", "recovery", t, b)
           p == Start(s, "mutate", "recovery", b)
           r == [p EXCEPT !.recovery = Persisting(b)]
<1>1. StartMutation(s, a) = r
  BY DEF StartMutation
<1>2. /\ Formal(p) /\ p.access = s.access
      /\ t # 0 /\ p.active["recovery"] = t
      /\ CallsOf(p) = CallsOf(s) \cup {e}
      /\ \A f \in CallsOf(p) : f.token = t => f = e
  BY StartCalls
<1> HIDE DEF t
<1>3. b.expected = st /\ b.token = t
  OBVIOUS
<1> HIDE DEF p, b
<1>4. /\ e.kind = "mutate" /\ e.token = t /\ e.request = b
      /\ e.answer = None
  BY DEF Effect
<1> HIDE DEF e
<1>5. /\ DOMAIN r = Fields /\ r.active = p.active /\ r.effects = p.effects
      /\ r.access = "ready" /\ r.recovery = Persisting(b)
      /\ r.barrier = p.barrier
  BY <1>2 DEF Formal, Fields
<1> HIDE DEF r
<1>6. r.recovery.kind = "persisting" /\ r.recovery.attempt = b
  BY <1>5 DEF Persisting
<1>7. Formal(r) /\ CallsOf(r) = CallsOf(p)
  BY <1>2, <1>5, <1>6 DEF Formal, CallsOf
<1>8. Pending(r) = {e}
  BY <1>2, <1>4, <1>7, PendingCalls
<1>9. View(r, st) /\ OutOfStore(r, st)
  BY <1>3, <1>6 DEF View, OutOfStore
<1>10. Requested(r, st)
  BY <1>3, <1>4, <1>5, <1>8 DEF Requested
<1>11. ActiveIsAwaited(r)
  BY <1>2, <1>3, <1>4, <1>5, <1>7 DEF ActiveIsAwaited, Awaits
<1>12. ChangeIsHeld(r)
  BY <1>2, <1>3, <1>5, <1>6 DEF ChangeIsHeld
<1>13. Waits(r, st)
  BY <1>2, <1>4, <1>5, <1>7 DEF Waits
<1> QED BY <1>1, <1>7, <1>9, <1>10, <1>11, <1>12, <1>13 DEF InStep

\* A store that is not changed has no change on its way.
LEMMA PendingIsPersisting ==
  ASSUME NEW s, NEW st, InStep(s, st), s.recovery.kind # "persisting"
  PROVE  Pending(s) = {}
<1>1. \A e \in Pending(s) : s.recovery = Persisting(e.request)
  BY DEF InStep, Requested
<1>2. \A x : Persisting(x).kind = "persisting"
  BY DEF Persisting
<1> HIDE DEF Pending, Persisting
<1> QED BY <1>1, <1>2

\* Loading the records.
LEMMA StartRecoveryLoadSteps ==
  ASSUME NEW s, NEW st, InStep(s, st), s.barrier = FALSE,
         s.access # "ready"
  PROVE  InStep(StartRecoveryLoad(s), st) /\ Waits(StartRecoveryLoad(s), st)
<1> DEFINE t == FreshToken(s, "recovery")
           e == Effect("load", "recovery", t, None)
           p == Start(s, "load", "recovery", None)
           r == [p EXCEPT !.access = "loading"]
<1>1. StartRecoveryLoad(s) = r
  BY DEF StartRecoveryLoad
<1>2. /\ Formal(p) /\ p.recovery = s.recovery /\ p.barrier = s.barrier
      /\ t # 0 /\ p.active["recovery"] = t
      /\ CallsOf(p) = CallsOf(s) \cup {e}
      /\ \A f \in CallsOf(p) : f.token = t => f = e
  BY StartCalls DEF InStep
<1> HIDE DEF t
<1> HIDE DEF p
<1>3. e.kind = "load" /\ e.token = t
  BY DEF Effect
<1> HIDE DEF e
<1>4. /\ DOMAIN r = Fields /\ r.active = p.active /\ r.effects = p.effects
      /\ r.access = "loading" /\ r.recovery = s.recovery
      /\ r.barrier = FALSE
  BY <1>2 DEF Formal, Fields
<1> HIDE DEF r
<1>5. s.recovery.kind # "persisting"
  BY DEF InStep, ChangeIsHeld
<1>6. Formal(r) /\ CallsOf(r) = CallsOf(p)
  BY <1>2, <1>4 DEF Formal, CallsOf
<1>7. Pending(r) = {}
  <2>1. Pending(s) = {} /\ Formal(s)
    BY <1>5, PendingIsPersisting DEF InStep
  <2> QED BY <1>2, <1>3, <1>6, <2>1, PendingCalls
<1>8. View(r, st) /\ OutOfStore(r, st)
  BY <1>4, <1>5 DEF View, OutOfStore, InStep
<1>9. Requested(r, st)
  BY <1>7 DEF Requested
<1>10. ActiveIsAwaited(r)
  BY <1>2, <1>3, <1>4, <1>6 DEF ActiveIsAwaited, Awaits
<1>11. ChangeIsHeld(r) /\ Waits(r, st)
  BY <1>4, <1>5 DEF ChangeIsHeld, Waits
<1> QED BY <1>1, <1>6, <1>8, <1>9, <1>10, <1>11 DEF InStep

\* Asking for what is stored after a change was interrupted.
LEMMA StartRecoveryReconciliationSteps ==
  ASSUME NEW s, NEW st, InStep(s, st), s.barrier = TRUE,
         s.recovery.kind = "persisting"
  PROVE  /\ InStep(StartRecoveryReconciliation(s), st)
         /\ Waits(StartRecoveryReconciliation(s), st)
<1> DEFINE t == FreshToken(s, "recovery")
           a == s.recovery.attempt
           e == Effect("reconcile", "recovery", t, a)
           p == Start(s, "reconcile", "recovery", a)
           r == [p EXCEPT !.access = "loading"]
<1>1. StartRecoveryReconciliation(s) = r
  BY DEF StartRecoveryReconciliation
<1>2. /\ Formal(p) /\ p.recovery = s.recovery /\ p.barrier = s.barrier
      /\ t # 0 /\ p.active["recovery"] = t
      /\ CallsOf(p) = CallsOf(s) \cup {e}
      /\ \A f \in CallsOf(p) : f.token = t => f = e
  BY StartCalls DEF InStep
<1> HIDE DEF t
<1> HIDE DEF p
<1>3. e.kind = "reconcile" /\ e.token = t /\ e.request = a
  BY DEF Effect
<1> HIDE DEF e
<1>4. /\ DOMAIN r = Fields /\ r.active = p.active /\ r.effects = p.effects
      /\ r.access = "loading" /\ r.recovery = s.recovery
      /\ r.barrier = TRUE
  BY <1>2 DEF Formal, Fields
<1> HIDE DEF r
<1>6. Formal(r) /\ CallsOf(r) = CallsOf(p)
  BY <1>2, <1>4 DEF Formal, CallsOf
<1>7. Pending(r) \subseteq Pending(s) \cup {e}
  <2>1. Formal(s)
    BY DEF InStep
  <2> QED BY <1>2, <1>6, <2>1, PendingCalls
<1>8. View(r, st) /\ OutOfStore(r, st)
  BY <1>4 DEF View, OutOfStore, InStep
<1>9. Requested(r, st)
  <2>1. s.recovery = Persisting(a)
    BY DEF InStep, Formal
  <2>2. ASSUME NEW f \in Pending(r)
        PROVE  /\ r.recovery = Persisting(f.request)
               /\ f.kind = "mutate" => f \in Pending(s)
    <3> HIDE DEF a
    <3> QED BY <1>3, <1>4, <1>7, <2>1, <2>2 DEF Requested, InStep
  <2>3. ASSUME NEW f \in Pending(s), f.kind = "mutate"
        PROVE  /\ f.request.expected = st
               /\ \A g \in Pending(s) : g.kind = "mutate" => g = f
    BY <2>3 DEF Requested, InStep
  <2> HIDE DEF Pending
  <2> QED BY <2>2, <2>3 DEF Requested
<1>10. ActiveIsAwaited(r)
  BY <1>2, <1>3, <1>4, <1>6 DEF ActiveIsAwaited, Awaits, Formal
<1>11. ChangeIsHeld(r) /\ Waits(r, st)
  BY <1>2, <1>3, <1>4, <1>6 DEF ChangeIsHeld, Waits
<1> QED BY <1>1, <1>6, <1>8, <1>9, <1>10, <1>11 DEF InStep

\* A ready store that no call is active for is as the state shows it.
LEMMA AtRest ==
  ASSUME NEW s, NEW st, InStep(s, st), s.access = "ready",
         s.active["recovery"] = 0
  PROVE  /\ Formal(s) /\ Pending(s) = {} /\ Unfiled(st)
         /\ s.recovery.kind = "available" => s.recovery.records = st
         /\ s.recovery.kind # "available" => st = NoRecords
         /\ s.recovery.kind # "persisting"
<1>1. s.recovery.kind # "persisting"
  BY DEF InStep, ChangeIsHeld
<1>2. Pending(s) = {}
  BY <1>1, PendingIsPersisting
<1> QED BY <1>1, <1>2 DEF InStep, Formal, View, OutOfStore

\* Storing the loser of a conflict.
LEMMA StartRecoveryPersistenceAnswers ==
  ASSUME NEW s, NEW st, InStep(s, st), NEW text, NEW cleanup
  PROVE  Answers(s, StartRecoveryPersistence(s, text, cleanup), st)
<1> DEFINE expected == IF s.recovery.kind = "available"
                       THEN s.recovery.records ELSE NoRecords
           p == [s EXCEPT !.pendingConflict = text]
           a == [Attempt(0, "persistConflict", expected) EXCEPT
                   !.entry = [id |-> FreshEntryID(s), text |-> text],
                   !.cleanup = cleanup]
<1>1. CASE s.access = "ready" /\ ~s.barrier /\ s.active["recovery"] = 0
  <2>1. Formal(s) /\ Pending(s) = {} /\ expected = st /\ Unfiled(st)
    BY <1>1, AtRest
  <2>2. Spares(s, p) /\ p.access = "ready"
    BY <1>1, <2>1, SparesSet DEF Formal, Fields
  <2>3. a.expected = st
        /\ DOMAIN a = {"token", "purpose", "expected", "entry", "discard",
                       "cleanup", "continuation"}
    BY <2>1 DEF Attempt
  <2>4. StartRecoveryPersistence(s, text, cleanup) = StartMutation(p, a)
    BY <1>1 DEF StartRecoveryPersistence
  <2> HIDE DEF p, a
  <2>5. Formal(p) /\ Pending(p) = {}
    BY <2>1, <2>2, PendingCalls DEF Spares
  <2> QED BY <2>1, <2>2, <2>3, <2>4, <2>5, StartMutationSteps DEF Answers
<1>2. CASE ~(s.access = "ready" /\ ~s.barrier /\ s.active["recovery"] = 0)
  BY <1>2, AnswersSame DEF StartRecoveryPersistence
<1> QED BY <1>1, <1>2

\* Storing displaced bytes, of the records that are there.
LEMMA StartDisplacedSteps ==
  ASSUME NEW s, NEW st, Formal(s), s.access = "ready", Pending(s) = {},
         s.active["recovery"] = 0, Unfiled(st), NEW continuation,
         st = CASE s.recovery.kind = "available" -> s.recovery.records
                [] s.recovery.kind = "persisting" ->
                     s.recovery.attempt.expected
                [] OTHER -> NoRecords
  PROVE  /\ InStep(StartDisplacedPersistence(s, continuation), st)
         /\ Waits(StartDisplacedPersistence(s, continuation), st)
<1> DEFINE a == [Attempt(0, "persistDisplacedPreimage", st) EXCEPT
                   !.entry = [id |-> continuation.id,
                              text |-> continuation.text],
                   !.continuation = continuation]
<1>1. a.expected = st
      /\ DOMAIN a = {"token", "purpose", "expected", "entry", "discard",
                     "cleanup", "continuation"}
  BY DEF Attempt
<1>2. StartDisplacedPersistence(s, continuation) = StartMutation(s, a)
  BY DEF StartDisplacedPersistence
<1> HIDE DEF a
<1> QED BY <1>1, <1>2, StartMutationSteps

LEMMA StartDisplacedPersistenceAnswers ==
  ASSUME NEW s, NEW st, InStep(s, st), NEW continuation
  PROVE  Answers(s, StartDisplacedPersistence(s, continuation), st)
<1>1. CASE s.access = "ready" /\ s.active["recovery"] = 0
  BY <1>1, AtRest, StartDisplacedSteps DEF Answers
<1>2. CASE ~(s.access = "ready" /\ s.active["recovery"] = 0)
  BY <1>2, AnswersSame DEF StartDisplacedPersistence
<1> QED BY <1>1, <1>2

\* Discarding records.
LEMMA StartRecoveryDiscardAnswers ==
  ASSUME NEW s, NEW st, InStep(s, st), NEW target, NEW purpose
  PROVE  Answers(s, StartRecoveryDiscard(s, target, purpose), st)
<1> DEFINE a == [Attempt(0, purpose, s.recovery.records) EXCEPT
                   !.discard = target]
<1>1. CASE CanStartDiscard(s, target)
  <2>1. s.access = "ready" /\ s.recovery.kind = "available"
    BY <1>1 DEF CanStartDiscard
  <2>2. /\ Formal(s) /\ Pending(s) = {} /\ s.recovery.records = st
        /\ Unfiled(st)
    BY <2>1, PendingIsPersisting DEF InStep, View, OutOfStore
  <2>3. a.expected = st
        /\ DOMAIN a = {"token", "purpose", "expected", "entry", "discard",
                       "cleanup", "continuation"}
    BY <2>2 DEF Attempt
  <2>4. StartRecoveryDiscard(s, target, purpose) = StartMutation(s, a)
    BY <1>1 DEF StartRecoveryDiscard
  <2> HIDE DEF a
  <2> QED BY <2>1, <2>2, <2>3, <2>4, StartMutationSteps DEF Answers
<1>2. CASE ~CanStartDiscard(s, target)
  BY <1>2, AnswersSame DEF StartRecoveryDiscard
<1> QED BY <1>1, <1>2

LEMMA ResumeRecoveryCleanupAnswers ==
  ASSUME NEW s, NEW st, InStep(s, st)
  PROVE  Answers(s, ResumeRecoveryCleanup(s), st)
BY StartRecoveryDiscardAnswers DEF ResumeRecoveryCleanup

\* What a close and an open document do next.
LEMMA ProgressManagedCloseAnswers ==
  ASSUME NEW s, NEW st, InStep(s, st)
  PROVE  Answers(s, ProgressManagedClose(s), st)
<1> DEFINE c == Cancel(s, "close", s.active["close"])
           allowed == [c EXCEPT !.lifecycle = "allowed"]
<1>1. ProgressManagedClose(s)
        \in {s, RefuseCloseIfNeeded(s), allowed, ScheduleLocalSave(s),
             ScheduleExternalRead(s), ResumeRecoveryCleanup(s),
             StartDisplacedPersistence(s, s.pendingDisplaced)}
  BY DEF ProgressManagedClose, AllowManagedClose
<1>2. Spares(s, c)
  BY CancelSpares DEF InStep
<1> HIDE DEF c
<1>3. Spares(c, allowed)
  BY <1>2, SparesSet DEF Spares, Formal, Fields
<1> HIDE DEF allowed
<1>4. Spares(s, allowed) /\ Formal(s)
  BY <1>2, <1>3, SparesOn DEF InStep
<1>5. Answers(s, allowed, st)
  BY <1>4, SparesAnswers
<1>6. Answers(s, RefuseCloseIfNeeded(s), st)
  BY <1>4, RefuseCloseSpares, SparesAnswers
<1>7. Answers(s, ScheduleLocalSave(s), st)
  BY <1>4, ScheduleLocalSaveSpares, SparesAnswers
<1>8. Answers(s, ScheduleExternalRead(s), st)
  BY <1>4, ScheduleExternalReadSpares, SparesAnswers
<1> QED BY <1>1, <1>5, <1>6, <1>7, <1>8, AnswersSame,
           ResumeRecoveryCleanupAnswers, StartDisplacedPersistenceAnswers

LEMMA ContinueSynchronizationAnswers ==
  ASSUME NEW s, NEW st, InStep(s, st)
  PROVE  Answers(s, ContinueSynchronization(s), st)
<1> DEFINE r == ScheduleExternalRead(s)
<1>1. ContinueSynchronization(s)
        \in {s, ProgressManagedClose(s), r, ScheduleLocalSave(r),
             StartRecoveryPersistence(s, s.pendingConflict, None),
             StartDisplacedPersistence(s, s.pendingDisplaced),
             ResumeRecoveryCleanup(s), ScheduleLocalSave(s)}
  BY DEF ContinueSynchronization
<1>2. Formal(s) /\ Spares(s, r)
  BY ScheduleExternalReadSpares DEF InStep
<1> HIDE DEF r
<1>3. Spares(s, ScheduleLocalSave(r))
  BY <1>2, ScheduleLocalSaveSpares, SparesOn DEF Spares
<1>4. Answers(s, r, st) /\ Answers(s, ScheduleLocalSave(r), st)
  BY <1>2, <1>3, SparesAnswers
<1>5. Answers(s, ScheduleLocalSave(s), st)
  BY <1>2, ScheduleLocalSaveSpares, SparesAnswers
<1> QED BY <1>1, <1>4, <1>5, AnswersSame, ProgressManagedCloseAnswers,
           ResumeRecoveryCleanupAnswers, StartDisplacedPersistenceAnswers,
           StartRecoveryPersistenceAnswers

\* Loaded records are shown as they are.
LEMMA LoadedSteps ==
  ASSUME NEW s, NEW st, Formal(s), Pending(s) = {}, Unfiled(st),
         NEW r, Formal(r), CallsOf(r) = CallsOf(s), r.active["recovery"] = 0,
         r.recovery \in {RecoveryOf(st), Available(st)}
  PROVE  InStep(r, st) /\ Waits(r, st)
<1>1. r.recovery \in {Clear, Available(st)}
      /\ (r.recovery = Clear => st = NoRecords)
  BY DEF RecoveryOf, Clear, Available
<1>2. r.recovery.kind # "persisting"
      /\ (r.recovery.kind = "available" => r.recovery.records = st)
      /\ (r.recovery.kind = "clear" => st = NoRecords)
  BY <1>1 DEF Clear, Available
<1>3. View(r, st) /\ OutOfStore(r, st)
  BY <1>2 DEF View, OutOfStore
<1>4. Pending(r) = {}
  BY PendingCalls
<1> QED BY <1>2, <1>3, <1>4 DEF InStep, Requested, ActiveIsAwaited,
           ChangeIsHeld, Waits

\* A change is done when the store has answered it.
LEMMA FinishRecoveryMutationSteps ==
  ASSUME NEW s, NEW st, Formal(s), Pending(s) = {}, Unfiled(st)
  PROVE  InStep(FinishRecoveryMutation(s, st), st)
         /\ Waits(FinishRecoveryMutation(s, st), st)
<1> DEFINE d == Deactivate(s, "recovery")
           r == [d EXCEPT !.access = "ready", !.barrier = FALSE,
                          !.recovery = RecoveryOf(st)]
           i == [r EXCEPT !.issue = None]
<1>1. FinishRecoveryMutation(s, st)
        \in {ContinueSynchronization(i), ResumeRecoveryCleanup(r),
             Refuse(r, "recovery")}
  BY DEF FinishRecoveryMutation
<1>2. /\ DOMAIN d = Fields /\ DOMAIN d.active = Operations
      /\ d.active["recovery"] = 0 /\ d.effects = s.effects
  BY DEF Formal, Fields, Deactivate, Operations
<1> HIDE DEF d
<1>3. /\ DOMAIN r = Fields /\ r.active = d.active
      /\ r.effects = d.effects /\ r.access = "ready" /\ r.barrier = FALSE
      /\ r.recovery = RecoveryOf(st)
  BY <1>2 DEF Fields
<1>4. /\ DOMAIN i = Fields /\ i.active = d.active
      /\ i.effects = d.effects /\ i.access = "ready" /\ i.barrier = FALSE
      /\ i.recovery = RecoveryOf(st)
  BY <1>2 DEF Fields
<1> HIDE DEF r, i
<1>5. RecoveryOf(st).kind \in {"clear", "available"}
  BY DEF RecoveryOf, Clear, Available
<1>6. Formal(r) /\ Formal(i) /\ CallsOf(r) = CallsOf(s)
      /\ CallsOf(i) = CallsOf(s)
  BY <1>2, <1>3, <1>4, <1>5 DEF Formal, CallsOf
<1>7. InStep(r, st) /\ Waits(r, st) /\ InStep(i, st) /\ Waits(i, st)
  BY <1>2, <1>3, <1>4, <1>6, LoadedSteps
<1>8. Answers(r, Refuse(r, "recovery"), st)
  BY <1>6, <1>7, RefuseSpares, SparesAnswers
<1>9. Answers(r, ResumeRecoveryCleanup(r), st)
      /\ Answers(i, ContinueSynchronization(i), st)
  BY <1>7, ResumeRecoveryCleanupAnswers, ContinueSynchronizationAnswers
<1> QED BY <1>1, <1>7, <1>8, <1>9 DEF Answers

\* What spares the store, and then a step of its own.
LEMMA SparesInStep ==
  ASSUME NEW s, NEW st, InStep(s, st), NEW r, Spares(s, r)
  PROVE  InStep(r, st) /\ Formal(r)
BY SparesAnswers DEF Answers, Spares

LEMMA ThenAnswers ==
  ASSUME NEW s, NEW st, InStep(s, st), NEW t, Spares(s, t), NEW r,
         Answers(t, r, st)
  PROVE  Answers(s, r, st)
BY SparesAnswers, AnswersOn

LEMMA ThenFails ==
  ASSUME NEW s, NEW st, InStep(s, st), NEW t, Spares(s, t)
  PROVE  Answers(s, FailRecovery(t), st)
BY SparesInStep, FailRecoveryAnswers DEF Answers

\* A merge with another program's text ends in a conflict.
LEMMA PersistLocalConflictAnswers ==
  ASSUME NEW s, NEW st, InStep(s, st), NEW external, NEW local
  PROVE  Answers(s, PersistLocalConflict(s, external, local), st)
<1> DEFINE revision == [number |-> s.source.number + 1,
                        text |-> external.text]
           p == [s EXCEPT !.source = revision,
                          !.baseline = Durable(revision, external.inode),
                          !.local = Clean, !.issue = None,
                          !.displaced = @ \cup {local}]
<1>1. PersistLocalConflict(s, external, local)
        \in {FailRecovery(s), StartRecoveryPersistence(p, local, None)}
  BY DEF PersistLocalConflict
<1>2. Spares(s, p)
  <2>1. /\ DOMAIN p = Fields /\ p.active = s.active /\ p.effects = s.effects
        /\ p.access = s.access /\ p.recovery = s.recovery
        /\ p.barrier = s.barrier
    BY DEF InStep, Formal, Fields
  <2> HIDE DEF p
  <2> QED BY <2>1, SparesSet DEF InStep
<1> HIDE DEF p
<1>3. Answers(s, StartRecoveryPersistence(p, local, None), st)
  BY <1>2, SparesInStep, StartRecoveryPersistenceAnswers, ThenAnswers
<1>4. Answers(s, FailRecovery(s), st)
  BY FailRecoveryAnswers DEF Answers
<1> QED BY <1>1, <1>3, <1>4

\* The merge of a contested commit ends in a conflict.
LEMMA PersistDisplacedConflictAnswers ==
  ASSUME NEW s, NEW st, InStep(s, st), NEW merge
  PROVE  Answers(s, PersistDisplacedConflict(s, merge), st)
<1> DEFINE number == s.source.number + 1
           cleanup == [target |-> merge.origin.target, min |-> number,
                       purpose |-> "discardResolvedDisplacedPreimage"]
           p == [s EXCEPT !.source = [number |-> number,
                                      text |-> merge.external.text],
                          !.local = Dirty(0), !.issue = None,
                          !.displaced = @ \cup {merge.local.text}]
           q == StartRecoveryPersistence(p, merge.local.text, cleanup)
           r == [q EXCEPT !.unresolvedDisplaced = None]
<1>1. PersistDisplacedConflict(s, merge) \in {FailRecovery(s), r}
  BY DEF PersistDisplacedConflict
<1>2. Spares(s, p)
  <2>1. /\ DOMAIN p = Fields /\ p.active = s.active /\ p.effects = s.effects
        /\ p.access = s.access /\ p.recovery = s.recovery
        /\ p.barrier = s.barrier
    BY DEF InStep, Formal, Fields
  <2> HIDE DEF p
  <2> QED BY <2>1, SparesSet DEF InStep
<1> HIDE DEF p
<1>3. Answers(s, q, st)
  BY <1>2, SparesInStep, StartRecoveryPersistenceAnswers, ThenAnswers
<1> HIDE DEF q
<1>4. Spares(q, r)
  <2>1. /\ DOMAIN r = Fields /\ r.active = q.active /\ r.effects = q.effects
        /\ r.access = q.access /\ r.recovery = q.recovery
        /\ r.barrier = q.barrier
    BY <1>3 DEF Answers, InStep, Formal, Fields
  <2> HIDE DEF r
  <2> QED BY <1>3, <2>1, SparesSet DEF Answers, InStep
<1> HIDE DEF r
<1>5. Answers(s, r, st)
  BY <1>3, <1>4, SparesAnswers, AnswersOn DEF Answers
<1>6. Answers(s, FailRecovery(s), st)
  BY FailRecoveryAnswers DEF Answers
<1> QED BY <1>1, <1>5, <1>6

\* The user edits.
LEMMA SourceChangedAnswers ==
  ASSUME NEW s, NEW st, InStep(s, st), NEW text
  PROVE  Answers(s, SourceChanged(s, text), st)
<1> DEFINE edited == [s EXCEPT !.source =
                        [number |-> @.number + 1, text |-> text]]
           cleared == [edited EXCEPT !.issue = None]
           s1 == IF \/ RecoveryBlocksAutomation(edited)
                    \/ s.issue = "destinationRequiresSaveAs"
                 THEN edited ELSE cleared
           m == InvalidateMerge(s1)
           s2 == InvalidatePreparation(m)
           clean == [s2 EXCEPT !.baseline = Rebased(@, s2.source),
                               !.local = Clean,
                               !.issue = IF @ = "destinationRequiresSaveAs"
                                         THEN None ELSE @]
           dirty == [s2 EXCEPT !.local = Dirty(0)]
           s3 == IF s2.baseline.text = text THEN clean ELSE dirty
           s4 == IF s3.signalPending THEN ScheduleExternalRead(s3) ELSE s3
           z == SourceChanged(s, text)
<1>1. z \in {ScheduleExternalRead(s2), s2, s4, ContinueSynchronization(s4)}
  BY DEF SourceChanged
<1> HIDE DEF z
<1>2. Formal(s)
  BY DEF InStep
<1>3. Spares(s, edited) /\ Spares(s, cleared)
  <2>1. Spares(s, edited)
    BY <1>2, SparesSet DEF Formal, Fields
  <2> HIDE DEF edited
  <2>2. Spares(edited, cleared)
    BY <2>1, SparesSet DEF Spares, Formal, Fields
  <2> QED BY <2>1, <2>2, SparesOn
<1> HIDE DEF edited, cleared
<1>4. Spares(s, s1)
  BY <1>3
<1> HIDE DEF s1
<1>5. Spares(s, m)
  BY <1>4, InvalidateMergeSpares, SparesOn DEF Spares
<1> HIDE DEF m
<1>6. Spares(s, s2)
  BY <1>5, InvalidatePreparationSpares, SparesOn DEF Spares
<1> HIDE DEF s2
<1>7. Spares(s2, s3)
  <2>1. /\ DOMAIN s3 = Fields /\ s3.active = s2.active
        /\ s3.effects = s2.effects
        /\ s3.access = s2.access /\ s3.recovery = s2.recovery
        /\ s3.barrier = s2.barrier
    BY <1>6 DEF Spares, Formal, Fields
  <2> HIDE DEF s3
  <2> QED BY <1>6, <2>1, SparesSet DEF Spares
<1> HIDE DEF s3
<1>8. Spares(s, s3)
  BY <1>6, <1>7, SparesOn
<1>9. Spares(s, s4)
  BY <1>8, ScheduleExternalReadSpares, SparesOn DEF Spares
<1> HIDE DEF s4
<1>10. Spares(s, ScheduleExternalRead(s2))
  BY <1>6, ScheduleExternalReadSpares, SparesOn DEF Spares
<1>11. Answers(s, ContinueSynchronization(s4), st)
  BY <1>9, SparesInStep, ContinueSynchronizationAnswers, ThenAnswers
<1>12. Answers(s, ScheduleExternalRead(s2), st) /\ Answers(s, s2, st)
       /\ Answers(s, s4, st)
  BY <1>6, <1>9, <1>10, SparesAnswers
<1> QED BY <1>1, <1>11, <1>12 DEF z

LEMMA SaveRequestedSpares ==
  ASSUME NEW s, Formal(s)
  PROVE  Spares(s, SaveRequested(s))
<1> DEFINE p == InvalidatePreparation(s)
<1>1. SaveRequested(s) \in {s, ScheduleLocalSave(p)}
  BY DEF SaveRequested
<1>2. Spares(s, p)
  BY InvalidatePreparationSpares
<1> HIDE DEF p
<1>3. Spares(s, ScheduleLocalSave(p))
  BY <1>2, ScheduleLocalSaveSpares, SparesOn DEF Spares
<1> QED BY <1>1, <1>3, SparesSame

LEMMA LocalSaveDeadlineSpares ==
  ASSUME NEW s, Formal(s)
  PROVE  Spares(s, LocalSaveDeadlineFired(s))
<1> DEFINE t == s.active["savePreparation"]
           p == [s EXCEPT !.local = [kind |-> "preparing", token |-> t,
                                     rev |-> s.source,
                                     expected |-> s.baseline]]
           e == Effect("prepareSave", "savePreparation", t, None)
<1>1. LocalSaveDeadlineFired(s) = Emit(p, e)
  BY DEF LocalSaveDeadlineFired
<1>2. Spares(s, p)
  BY SparesSet DEF Formal, Fields
<1>3. e.op # "recovery" /\ e.kind \notin {"load", "mutate", "reconcile"}
  BY DEF Effect
<1> HIDE DEF p, e
<1> QED BY <1>1, <1>2, <1>3, EmitSpares, SparesOn DEF Spares

LEMMA StartCommitReconciliationSpares ==
  ASSUME NEW s, Formal(s)
  PROVE  Spares(s, StartCommitReconciliation(s))
<1> DEFINE q == [original |-> s.uncertain.token, rev |-> s.uncertain.rev,
                 expected |-> s.uncertain.expected]
           r == Start(s, "reconcileCommit", "commitReconciliation", q)
           z == [r EXCEPT !.uncertain.reconciliation =
                   r.active["commitReconciliation"]]
<1>1. StartCommitReconciliation(s) \in {s, z}
  BY DEF StartCommitReconciliation
<1> HIDE DEF q
<1>2. Spares(s, r)
  BY StartSpares DEF Operations
<1> HIDE DEF r
<1>3. Spares(r, z)
  <2>1. /\ DOMAIN z = Fields /\ z.active = r.active /\ z.effects = r.effects
        /\ z.access = r.access /\ z.recovery = r.recovery
        /\ z.barrier = r.barrier
    BY <1>2 DEF Spares, Formal, Fields
  <2> HIDE DEF z
  <2> QED BY <1>2, <2>1, SparesSet DEF Spares
<1> HIDE DEF z
<1> QED BY <1>1, <1>2, <1>3, SparesOn, SparesSame

LEMMA EnterUncertainSpares ==
  ASSUME NEW s, Formal(s)
  PROVE  Spares(s, EnterUncertainCommitOutcome(s))
<1> DEFINE d == Deactivate(s, "saveCommit")
           r == [d EXCEPT
              !.local = Dirty(0), !.issue = "recovery",
              !.uncertain = [token |-> s.local.token, reconciliation |-> 0,
                             rev |-> s.local.rev,
                             expected |-> s.local.expected]]
           c == StartCommitReconciliation(r)
<1>1. Spares(s, d)
  BY DeactivateSpares DEF Operations
<1> HIDE DEF d
<1>2. Spares(d, r)
  <2>1. /\ DOMAIN r = Fields /\ r.active = d.active /\ r.effects = d.effects
        /\ r.access = d.access /\ r.recovery = d.recovery
        /\ r.barrier = d.barrier
    BY <1>1 DEF Spares, Formal, Fields
  <2> HIDE DEF r
  <2> QED BY <1>1, <2>1, SparesSet DEF Spares
<1> HIDE DEF r
<1>3. Spares(r, c)
  BY <1>2, StartCommitReconciliationSpares DEF Spares
<1> HIDE DEF c
<1>4. Spares(c, RefuseCloseIfNeeded(c))
  BY <1>3, RefuseCloseSpares DEF Spares
<1>5. Spares(s, RefuseCloseIfNeeded(c))
  BY <1>1, <1>2, <1>3, <1>4, SparesOn
<1> QED BY <1>5 DEF EnterUncertainCommitOutcome, c, r, d

LEMMA SavePreparedSpares ==
  ASSUME NEW s, Formal(s)
  PROVE  Spares(s, SavePrepared(s))
<1> DEFINE r == Deactivate(s, "savePreparation")
           t == FreshToken(s, "saveCommit")
           v == [r EXCEPT !.active["saveCommit"] = t]
           w == [v EXCEPT !.local = [@ EXCEPT !.kind = "writing",
                                              !.token = t]]
           e == Effect("commit", "saveCommit", t,
                       [rev |-> s.local.rev, validated |-> FALSE,
                        expected |-> s.local.expected])
<1>0. [r EXCEPT !.active["saveCommit"] = t,
                !.local = [@ EXCEPT !.kind = "writing", !.token = t]] = w
  OBVIOUS
<1>1. SavePrepared(s) \in {s, EnterUncertainCommitOutcome(w), Emit(w, e)}
  BY <1>0 DEF SavePrepared
<1> HIDE DEF t
<1>2. Spares(s, r)
  BY DeactivateSpares DEF Operations
<1> HIDE DEF r
<1>3. Spares(s, v)
  BY <1>2, ActivateSpares, SparesOn DEF Operations, Spares
<1> HIDE DEF v
<1>4. Spares(v, w)
  BY <1>3, SparesSet DEF Spares, Formal, Fields
<1> HIDE DEF w
<1>5. Spares(s, w)
  BY <1>3, <1>4, SparesOn
<1>6. Spares(s, EnterUncertainCommitOutcome(w))
  BY <1>5, EnterUncertainSpares, SparesOn DEF Spares
<1>7. e.op # "recovery" /\ e.kind \notin {"load", "mutate", "reconcile"}
  BY DEF Effect
<1> HIDE DEF e
<1>8. Spares(s, Emit(w, e))
  BY <1>5, <1>7, EmitSpares, SparesOn DEF Spares
<1> QED BY <1>1, <1>6, <1>8, SparesSame

LEMMA SavePreparationFailedSpares ==
  ASSUME NEW s, Formal(s)
  PROVE  Spares(s, SavePreparationFailed(s))
<1> DEFINE d == Deactivate(s, "savePreparation")
           r == [d EXCEPT !.local = Dirty(0)]
<1>1. Spares(s, d)
  BY DeactivateSpares DEF Operations
<1> HIDE DEF d
<1>2. Spares(d, r)
  BY <1>1, SparesSet DEF Spares, Formal, Fields
<1> HIDE DEF r
<1>3. Spares(s, Refuse(r, "localSave"))
  BY <1>1, <1>2, RefuseSpares, SparesOn DEF Spares
<1> QED BY <1>3 DEF SavePreparationFailed, r, d

LEMMA CommitProvenNotStartedSpares ==
  ASSUME NEW s, Formal(s), NEW failure
  PROVE  Spares(s, CommitProvenNotStarted(s, failure))
<1> DEFINE d == Deactivate(s, "saveCommit")
           r == [d EXCEPT !.local = Dirty(0)]
<1>1. Spares(s, d)
  BY DeactivateSpares DEF Operations
<1> HIDE DEF d
<1>2. Spares(d, r)
  BY <1>1, SparesSet DEF Spares, Formal, Fields
<1> HIDE DEF r
<1>3. Spares(s, Refuse(r, failure))
  BY <1>1, <1>2, RefuseSpares, SparesOn DEF Spares
<1> QED BY <1>3 DEF CommitProvenNotStarted, r, d

\* Fields that are not about the store may change after what spares it.
LEMMA SparesThenSet ==
  ASSUME NEW s, NEW t, Spares(s, t), NEW r,
         DOMAIN r = Fields, r.active = t.active, r.effects = t.effects,
         r.access = t.access, r.recovery = t.recovery,
         r.barrier = t.barrier
  PROVE  Spares(s, r)
<1>1. Formal(t)
  BY DEF Spares
<1>2. Spares(t, r)
  BY <1>1, SparesSet
<1> QED BY <1>2, SparesOn

\* A save that the file holds.
LEMMA SaveFinishedAnswers ==
  ASSUME NEW s, NEW st, InStep(s, st), NEW answer
  PROVE  Answers(s, SaveFinished(s, answer), st)
<1> DEFINE displaced == answer.displaced
           committed == Durable(s.local.rev, answer.inode)
           d == Deactivate(s, "saveCommit")
           s1 == [d EXCEPT
                    !.issue = IF @ \in {"localSave", "closeDeadline"}
                              THEN None ELSE @]
           continuation ==
             [id |-> displaced.id, text |-> displaced.text,
              mergeBase |-> s.local.expected.text, localRev |-> s.source,
              pre |-> s.local.expected, committed |-> committed]
           p == [s1 EXCEPT !.local = Dirty(0),
                           !.pendingDisplaced = continuation]
           s2 == [s1 EXCEPT !.baseline = committed]
           s3 == IF s.merge # None /\ s.merge.baseline # committed
                 THEN InvalidateMerge(s2) ELSE s2
           clean == [s3 EXCEPT !.baseline = Rebased(@, s.source),
                               !.local = Clean]
           dirty == [s3 EXCEPT !.local = Dirty(0)]
           s4 == IF s.source.text = s.local.rev.text THEN clean ELSE dirty
           z == SaveFinished(s, answer)
<1>1. \/ z = FailRecovery(s1)
      \/ z = StartDisplacedPersistence(p, continuation)
      \/ z = ResumeRecoveryCleanup(s4)
      \/ z = ContinueSynchronization(s4)
  BY DEF SaveFinished
<1> HIDE DEF z
<1>2. Spares(s, d)
  BY DeactivateSpares DEF InStep, Operations
<1> HIDE DEF d
<1>3. Spares(s, s1)
  <2>1. /\ DOMAIN s1 = Fields /\ s1.active = d.active
        /\ s1.effects = d.effects
        /\ s1.access = d.access /\ s1.recovery = d.recovery
        /\ s1.barrier = d.barrier
    BY <1>2 DEF Spares, Formal, Fields
  <2> HIDE DEF s1
  <2> QED BY <1>2, <2>1, SparesThenSet
<1> HIDE DEF s1, continuation, committed
<1>4. Spares(s, p)
  <2>1. /\ DOMAIN p = Fields /\ p.active = s1.active
        /\ p.effects = s1.effects
        /\ p.access = s1.access /\ p.recovery = s1.recovery
        /\ p.barrier = s1.barrier
    BY <1>3 DEF Spares, Formal, Fields
  <2> HIDE DEF p
  <2> QED BY <1>3, <2>1, SparesThenSet
<1> HIDE DEF p
<1>5. Spares(s, s2)
  <2>1. /\ DOMAIN s2 = Fields /\ s2.active = s1.active
        /\ s2.effects = s1.effects
        /\ s2.access = s1.access /\ s2.recovery = s1.recovery
        /\ s2.barrier = s1.barrier
    BY <1>3 DEF Spares, Formal, Fields
  <2> HIDE DEF s2
  <2> QED BY <1>3, <2>1, SparesThenSet
<1> HIDE DEF s2
<1>6. Spares(s, s3)
  BY <1>5, InvalidateMergeSpares, SparesOn DEF Spares
<1> HIDE DEF s3
<1>7. Spares(s, s4)
  <2>1. /\ DOMAIN s4 = Fields /\ s4.active = s3.active
        /\ s4.effects = s3.effects
        /\ s4.access = s3.access /\ s4.recovery = s3.recovery
        /\ s4.barrier = s3.barrier
    BY <1>6 DEF Spares, Formal, Fields
  <2> HIDE DEF s4
  <2> QED BY <1>6, <2>1, SparesThenSet
<1> HIDE DEF s4
<1>8. Answers(s, FailRecovery(s1), st)
  BY <1>3, ThenFails
<1>9. Answers(s, StartDisplacedPersistence(p, continuation), st)
  BY <1>4, SparesInStep, StartDisplacedPersistenceAnswers, ThenAnswers
<1>10. Answers(s, ResumeRecoveryCleanup(s4), st)
  BY <1>7, SparesInStep, ResumeRecoveryCleanupAnswers, ThenAnswers
<1>11. Answers(s, ContinueSynchronization(s4), st)
  BY <1>7, SparesInStep, ContinueSynchronizationAnswers, ThenAnswers
<1> QED BY <1>1, <1>8, <1>9, <1>10, <1>11 DEF z

\* What the journal says of a commit.
LEMMA CommitReconciliationFinishedAnswers ==
  ASSUME NEW s, NEW st, InStep(s, st), NEW answer,
         answer.outcome \in {"committed", "notCommitted", "unresolved"}
  PROVE  Answers(s, CommitReconciliationFinished(s, answer), st)
<1> DEFINE d == Deactivate(s, "commitReconciliation")
           u == [d EXCEPT !.uncertain.reconciliation = 0]
           n == [d EXCEPT !.uncertain = None, !.local = Dirty(0),
                         !.issue = None]
           a == [d EXCEPT !.active["saveCommit"] = s.uncertain.token]
           c == [a EXCEPT !.uncertain = None, !.issue = None,
                         !.local = [kind |-> "writing",
                                    token |-> s.uncertain.token,
                                    rev |-> s.uncertain.rev,
                                    expected |-> s.uncertain.expected]]
           z == CommitReconciliationFinished(s, answer)
<1>0. [d EXCEPT !.uncertain = None, !.issue = None,
                !.active["saveCommit"] = s.uncertain.token,
                !.local = [kind |-> "writing",
                           token |-> s.uncertain.token,
                           rev |-> s.uncertain.rev,
                           expected |-> s.uncertain.expected]] = c
  OBVIOUS
<1>1. z \in {Refuse(u, "recovery"), ContinueSynchronization(n),
             SaveFinished(c, answer)}
  BY <1>0 DEF CommitReconciliationFinished
<1> HIDE DEF z
<1>2. Spares(s, d)
  BY DeactivateSpares DEF InStep, Operations
<1> HIDE DEF d
<1>3. Spares(s, u)
  <2>1. /\ DOMAIN u = Fields /\ u.active = d.active /\ u.effects = d.effects
        /\ u.access = d.access /\ u.recovery = d.recovery
        /\ u.barrier = d.barrier
    BY <1>2 DEF Spares, Formal, Fields
  <2> HIDE DEF u
  <2> QED BY <1>2, <2>1, SparesThenSet
<1>4. Spares(s, n)
  <2>1. /\ DOMAIN n = Fields /\ n.active = d.active /\ n.effects = d.effects
        /\ n.access = d.access /\ n.recovery = d.recovery
        /\ n.barrier = d.barrier
    BY <1>2 DEF Spares, Formal, Fields
  <2> HIDE DEF n
  <2> QED BY <1>2, <2>1, SparesThenSet
<1>5. Spares(s, a)
  BY <1>2, ActivateSpares, SparesOn DEF Operations, Spares
<1> HIDE DEF a
<1>6. Spares(s, c)
  <2>1. /\ DOMAIN c = Fields /\ c.active = a.active /\ c.effects = a.effects
        /\ c.access = a.access /\ c.recovery = a.recovery
        /\ c.barrier = a.barrier
    BY <1>5 DEF Spares, Formal, Fields
  <2> HIDE DEF c
  <2> QED BY <1>5, <2>1, SparesThenSet
<1> HIDE DEF u, n, c
<1>7. Answers(s, Refuse(u, "recovery"), st)
  BY <1>3, RefuseSpares, SparesOn, SparesAnswers DEF Spares
<1>8. Answers(s, ContinueSynchronization(n), st)
  BY <1>4, SparesInStep, ContinueSynchronizationAnswers, ThenAnswers
<1>9. Answers(s, SaveFinished(c, answer), st)
  BY <1>6, SparesInStep, SaveFinishedAnswers, ThenAnswers
<1> QED BY <1>1, <1>7, <1>8, <1>9 DEF z

LEMMA SignalPendingSpares ==
  ASSUME NEW s, Formal(s)
  PROVE  Spares(s, [s EXCEPT !.signalPending = TRUE])
<1> DEFINE p == [s EXCEPT !.signalPending = TRUE]
<1>1. /\ DOMAIN p = Fields /\ p.active = s.active /\ p.effects = s.effects
      /\ p.access = s.access /\ p.recovery = s.recovery
      /\ p.barrier = s.barrier
  BY DEF Formal, Fields
<1> HIDE DEF p
<1>2. Spares(s, p)
  BY <1>1, SparesSet
<1> QED BY <1>2 DEF p

LEMMA MonitorSignaledSpares ==
  ASSUME NEW s, Formal(s)
  PROVE  Spares(s, MonitorSignaled(s))
<1>1. MonitorSignaled(s) \in {s, [s EXCEPT !.signalPending = TRUE],
                              ScheduleExternalRead(s)}
  BY DEF MonitorSignaled
<1> QED BY <1>1, SignalPendingSpares, ScheduleExternalReadSpares, SparesSame

LEMMA ExternalReadDeadlineSpares ==
  ASSUME NEW s, Formal(s)
  PROVE  Spares(s, ExternalReadDeadlineFired(s))
<1> DEFINE p == [s EXCEPT !.external.kind = "reading"]
           e == Effect("read", "externalRead", s.active["externalRead"],
                       [expected |-> s.external.expected])
<1>1. ExternalReadDeadlineFired(s) = Emit(p, e)
  BY DEF ExternalReadDeadlineFired
<1>2. Spares(s, p)
  <2>1. /\ DOMAIN p = Fields /\ p.active = s.active /\ p.effects = s.effects
        /\ p.access = s.access /\ p.recovery = s.recovery
        /\ p.barrier = s.barrier
    BY DEF Formal, Fields
  <2> HIDE DEF p
  <2> QED BY <2>1, SparesSet
<1>3. e.op # "recovery" /\ e.kind \notin {"load", "mutate", "reconcile"}
  BY DEF Effect
<1> HIDE DEF p, e
<1> QED BY <1>1, <1>2, <1>3, EmitSpares, SparesOn DEF Spares

LEMMA StartMergeSpares ==
  ASSUME NEW s, Formal(s), NEW merge
  PROVE  Spares(s, StartMerge(s, merge))
<1> DEFINE r == Start(s, "merge", "merge", None)
           z == [r EXCEPT !.merge = [merge EXCEPT !.token = r.active["merge"]]]
<1>1. Spares(s, r)
  BY StartSpares DEF Operations
<1>2. StartMerge(s, merge) = z
  BY DEF StartMerge
<1> HIDE DEF r
<1>3. /\ DOMAIN z = Fields /\ z.active = r.active /\ z.effects = r.effects
      /\ z.access = r.access /\ z.recovery = r.recovery
      /\ z.barrier = r.barrier
  BY <1>1 DEF Spares, Formal, Fields
<1> HIDE DEF z
<1> QED BY <1>1, <1>2, <1>3, SparesThenSet

LEMMA MergeWithLocalSpares ==
  ASSUME NEW s, Formal(s), NEW external
  PROVE  Spares(s, MergeWithLocal(s, external))
<1> DEFINE i == InvalidatePreparation(s)
           m == ExternalMerge(s, external)
<1>1. Spares(s, i)
  BY InvalidatePreparationSpares
<1> HIDE DEF i, m
<1>2. Spares(s, StartMerge(i, m))
  BY <1>1, StartMergeSpares, SparesOn DEF Spares
<1> QED BY <1>2 DEF MergeWithLocal, i, m

\* A read of the file.
LEMMA ExternalReadFinishedAnswers ==
  ASSUME NEW s, NEW st, InStep(s, st), NEW answer,
         s.local.kind \in {"clean", "dirty", "preparing", "writing"},
         answer.outcome \in {"failed", "unchanged", "missing", "changed"}
  PROVE  Answers(s, ExternalReadFinished(s, answer), st)
<1> DEFINE d == Deactivate(s, "externalRead")
           r == [d EXCEPT !.external = Idle]
           revision == [number |-> s.source.number + 1,
                        text |-> answer.file.text]
           p == [r EXCEPT !.signalPending = TRUE]
           q == [r EXCEPT !.source = revision,
                          !.baseline = Durable(revision, answer.file.inode),
                          !.issue = None]
           z == ExternalReadFinished(s, answer)
<1>1. z \in {Refuse(r, "externalRead"), ContinueSynchronization(p),
             ContinueSynchronization(r), Refuse(r, "attachment"), p,
             MergeWithLocal(r, answer.file), ContinueSynchronization(q)}
  BY DEF ExternalReadFinished
<1> HIDE DEF z, revision
<1>2. Spares(s, d)
  BY DeactivateSpares DEF InStep, Operations
<1> HIDE DEF d
<1>3. Spares(s, r)
  <2>1. /\ DOMAIN r = Fields /\ r.active = d.active /\ r.effects = d.effects
        /\ r.access = d.access /\ r.recovery = d.recovery
        /\ r.barrier = d.barrier
    BY <1>2 DEF Spares, Formal, Fields
  <2> HIDE DEF r
  <2> QED BY <1>2, <2>1, SparesThenSet
<1> HIDE DEF r
<1>4. Spares(s, p)
  BY <1>3, SignalPendingSpares, SparesOn DEF Spares
<1>5. Spares(s, q)
  <2>1. /\ DOMAIN q = Fields /\ q.active = r.active /\ q.effects = r.effects
        /\ q.access = r.access /\ q.recovery = r.recovery
        /\ q.barrier = r.barrier
    BY <1>3 DEF Spares, Formal, Fields
  <2> HIDE DEF q
  <2> QED BY <1>3, <2>1, SparesThenSet
<1> HIDE DEF p, q
<1>6. /\ Answers(s, ContinueSynchronization(r), st)
      /\ Answers(s, ContinueSynchronization(p), st)
      /\ Answers(s, ContinueSynchronization(q), st)
  BY <1>3, <1>4, <1>5, SparesInStep, ContinueSynchronizationAnswers,
     ThenAnswers
<1>7. \A failure : Answers(s, Refuse(r, failure), st)
  BY <1>3, RefuseSpares, SparesOn, SparesAnswers DEF Spares
<1>8. Answers(s, MergeWithLocal(r, answer.file), st)
  BY <1>3, MergeWithLocalSpares, SparesOn, SparesAnswers DEF Spares
<1>9. Answers(s, p, st)
  BY <1>4, SparesAnswers
<1> QED BY <1>1, <1>6, <1>7, <1>8, <1>9 DEF z

\* A merge that is done.
LEMMA MergeFinishedAnswers ==
  ASSUME NEW s, NEW st, InStep(s, st), NEW outcome
  PROVE  Answers(s, MergeFinished(s, outcome), st)
<1> DEFINE m == s.merge
           d == Deactivate(s, "merge")
           r == [d EXCEPT !.merge = None]
           observed == Durable([m.local EXCEPT !.text = m.external.text],
                               m.external.inode)
           u == [r EXCEPT !.unresolvedDisplaced = m.origin.continuation]
           p == [r EXCEPT !.signalPending = TRUE]
           merged == [r EXCEPT !.source = [number |-> s.source.number + 1,
                                           text |-> outcome],
                               !.local = Dirty(0), !.issue = None]
           b == [merged EXCEPT !.baseline = observed]
           c == [merged EXCEPT
                       !.unresolvedDisplaced = None,
                       !.cleanup =
                         [records |-> m.origin.records,
                          target |-> m.origin.target,
                          purpose |-> "discardResolvedDisplacedPreimage",
                          min |-> s.source.number + 1]]
           z == MergeFinished(s, outcome)
<1>1. z \in {Refuse(u, "recovery"), ContinueSynchronization(p),
             ContinueSynchronization(b), FailRecovery(merged),
             ContinueSynchronization(c),
             PersistLocalConflict(r, m.external, m.local.text),
             PersistDisplacedConflict(r, m)}
  BY DEF MergeFinished
<1> HIDE DEF z, observed, m
<1>2. Spares(s, d)
  BY DeactivateSpares DEF InStep, Operations
<1> HIDE DEF d
<1>3. Spares(s, r)
  <2>1. /\ DOMAIN r = Fields /\ r.active = d.active /\ r.effects = d.effects
        /\ r.access = d.access /\ r.recovery = d.recovery
        /\ r.barrier = d.barrier
    BY <1>2 DEF Spares, Formal, Fields
  <2> HIDE DEF r
  <2> QED BY <1>2, <2>1, SparesThenSet
<1> HIDE DEF r
<1>4. Spares(s, p)
  BY <1>3, SignalPendingSpares, SparesOn DEF Spares
<1>5. Spares(s, u)
  <2>1. /\ DOMAIN u = Fields /\ u.active = r.active /\ u.effects = r.effects
        /\ u.access = r.access /\ u.recovery = r.recovery
        /\ u.barrier = r.barrier
    BY <1>3 DEF Spares, Formal, Fields
  <2> HIDE DEF u
  <2> QED BY <1>3, <2>1, SparesThenSet
<1>6. Spares(s, merged)
  <2>1. /\ DOMAIN merged = Fields /\ merged.active = r.active
        /\ merged.effects = r.effects
        /\ merged.access = r.access /\ merged.recovery = r.recovery
        /\ merged.barrier = r.barrier
    BY <1>3 DEF Spares, Formal, Fields
  <2> HIDE DEF merged
  <2> QED BY <1>3, <2>1, SparesThenSet
<1> HIDE DEF p, u, merged
<1>7. Spares(s, b) /\ Spares(s, c)
  <2>1. /\ DOMAIN b = Fields /\ b.active = merged.active
        /\ b.effects = merged.effects
        /\ b.access = merged.access /\ b.recovery = merged.recovery
        /\ b.barrier = merged.barrier
    BY <1>6 DEF Spares, Formal, Fields
  <2>2. /\ DOMAIN c = Fields /\ c.active = merged.active
        /\ c.effects = merged.effects
        /\ c.access = merged.access /\ c.recovery = merged.recovery
        /\ c.barrier = merged.barrier
    BY <1>6 DEF Spares, Formal, Fields
  <2> HIDE DEF b, c
  <2> QED BY <1>6, <2>1, <2>2, SparesThenSet
<1> HIDE DEF b, c
<1>8. /\ Answers(s, ContinueSynchronization(p), st)
      /\ Answers(s, ContinueSynchronization(b), st)
      /\ Answers(s, ContinueSynchronization(c), st)
  BY <1>4, <1>7, SparesInStep, ContinueSynchronizationAnswers, ThenAnswers
<1>9. Answers(s, Refuse(u, "recovery"), st)
  BY <1>5, RefuseSpares, SparesOn, SparesAnswers DEF Spares
<1>10. Answers(s, FailRecovery(merged), st)
  BY <1>6, ThenFails
<1>11. /\ Answers(s, PersistLocalConflict(r, m.external, m.local.text), st)
       /\ Answers(s, PersistDisplacedConflict(r, m), st)
  BY <1>3, SparesInStep, PersistLocalConflictAnswers,
     PersistDisplacedConflictAnswers, ThenAnswers
<1> QED BY <1>1, <1>8, <1>9, <1>10, <1>11 DEF z

LEMMA MonitorFailedSpares ==
  ASSUME NEW s, Formal(s)
  PROVE  Spares(s, MonitorFailed(s))
<1> DEFINE d == Deactivate(s, "monitor")
           z == [d EXCEPT !.issue = "monitor"]
<1>1. Spares(s, d)
  BY DeactivateSpares DEF Operations
<1> HIDE DEF d
<1>2. /\ DOMAIN z = Fields /\ z.active = d.active /\ z.effects = d.effects
      /\ z.access = d.access /\ z.recovery = d.recovery
      /\ z.barrier = d.barrier
  BY <1>1 DEF Spares, Formal, Fields
<1> HIDE DEF z
<1>3. Spares(s, z)
  BY <1>1, <1>2, SparesThenSet
<1> QED BY <1>3 DEF MonitorFailed, z, d

LEMMA CarryCleanupSpares ==
  ASSUME NEW s, Formal(s), NEW records
  PROVE  Spares(s, CarryCleanup(s, records))
<1> DEFINE k == [s EXCEPT !.cleanup.records = records]
<1>1. CarryCleanup(s, records) \in {s, k}
  BY DEF CarryCleanup
<1>2. /\ DOMAIN k = Fields /\ k.active = s.active /\ k.effects = s.effects
      /\ k.access = s.access /\ k.recovery = s.recovery
      /\ k.barrier = s.barrier
  BY DEF Formal, Fields
<1> HIDE DEF k
<1> QED BY <1>1, <1>2, SparesSet, SparesSame

LEMMA ConflictPersistedSpares ==
  ASSUME NEW s, Formal(s), NEW attempt, NEW records
  PROVE  Spares(s, ConflictPersisted(s, attempt, records))
<1> DEFINE c == CleanupAfterPersist(s, attempt, records)
           k == [s EXCEPT !.pendingConflict = None, !.cleanup = c]
<1> HIDE DEF c
<1>1. ConflictPersisted(s, attempt, records) = k
  BY DEF ConflictPersisted, c
<1>2. /\ DOMAIN k = Fields /\ k.active = s.active /\ k.effects = s.effects
      /\ k.access = s.access /\ k.recovery = s.recovery
      /\ k.barrier = s.barrier
  BY DEF Formal, Fields
<1> HIDE DEF k
<1> QED BY <1>1, <1>2, SparesSet

LEMMA DiscardedSpares ==
  ASSUME NEW s, Formal(s), NEW attempt, NEW records
  PROVE  Spares(s, Discarded(s, attempt, records))
<1> DEFINE n == [s EXCEPT !.cleanup = None]
           a == AfterDiscardCleanup(s, attempt, records)
           u == [a EXCEPT !.unresolvedDisplaced = None]
<1>1. a \in {s, n, CarryCleanup(s, records)}
  BY DEF AfterDiscardCleanup
<1>2. Spares(s, n)
  <2>1. /\ DOMAIN n = Fields /\ n.active = s.active /\ n.effects = s.effects
        /\ n.access = s.access /\ n.recovery = s.recovery
        /\ n.barrier = s.barrier
    BY DEF Formal, Fields
  <2> HIDE DEF n
  <2> QED BY <2>1, SparesSet
<1> HIDE DEF n, a
<1>3. Spares(s, a)
  BY <1>1, <1>2, CarryCleanupSpares, SparesSame
<1>4. ClearUnresolved(a, attempt) \in {a, u}
  BY DEF ClearUnresolved
<1>5. /\ DOMAIN u = Fields /\ u.active = a.active /\ u.effects = a.effects
      /\ u.access = a.access /\ u.recovery = a.recovery
      /\ u.barrier = a.barrier
  BY <1>3 DEF Spares, Formal, Fields
<1> HIDE DEF u
<1>6. Spares(s, ClearUnresolved(a, attempt))
  BY <1>3, <1>4, <1>5, SparesThenSet
<1> QED BY <1>6 DEF Discarded, a

LEMMA ApplyCommittedBaselineSpares ==
  ASSUME NEW s, Formal(s), NEW continuation
  PROVE  Spares(s, ApplyCommittedBaseline(s, continuation))
<1> DEFINE k == [s EXCEPT !.baseline = continuation.committed]
<1>1. ApplyCommittedBaseline(s, continuation) \in {s, k}
  BY DEF ApplyCommittedBaseline
<1>2. /\ DOMAIN k = Fields /\ k.active = s.active /\ k.effects = s.effects
      /\ k.access = s.access /\ k.recovery = s.recovery
      /\ k.barrier = s.barrier
  BY DEF Formal, Fields
<1> HIDE DEF k
<1> QED BY <1>1, <1>2, SparesSet, SparesSame

\* The store has been opened, and shows what it has.
LEMMA RecoveryLoadedSteps ==
  ASSUME NEW s, NEW st, InStep(s, st), Pending(s) = {}, s.barrier = FALSE,
         s.access = "loading"
  PROVE  InStep(RecoveryLoaded(s, st), st) /\ Waits(RecoveryLoaded(s, st), st)
<1> DEFINE d == Deactivate(s, "recovery")
           s1 == [d EXCEPT !.access = "ready"]
           s2 == IF s1.active["monitor"] = 0 THEN StartMonitor(s1) ELSE s1
           f == [s2 EXCEPT !.access = "failed", !.issue = "recovery"]
           k == CarryCleanup(s2, st)
           q == [k EXCEPT !.recovery = RecoveryOf(st)]
           z == RecoveryLoaded(s, st)
<1>1. z \in {f, ContinueSynchronization(q)}
  BY DEF RecoveryLoaded
<1> HIDE DEF z
<1>2. /\ DOMAIN d = Fields /\ DOMAIN d.active = Operations
      /\ d.active["recovery"] = 0 /\ d.effects = s.effects
      /\ d.recovery = s.recovery /\ d.barrier = s.barrier
  BY DEF InStep, Formal, Fields, Deactivate, Operations
<1> HIDE DEF d
<1>3. /\ DOMAIN s1 = Fields /\ s1.active = d.active /\ s1.effects = d.effects
      /\ s1.access = "ready" /\ s1.barrier = FALSE
      /\ s1.recovery = d.recovery
  BY <1>2 DEF Fields
<1> HIDE DEF s1
<1>4. Formal(s1) /\ CallsOf(s1) = CallsOf(s)
  BY <1>2, <1>3 DEF InStep, Formal, CallsOf
<1>5. Spares(s1, s2)
  BY <1>4, StartMonitorSpares, SparesSame
<1> HIDE DEF s2
<1>6. s.recovery.kind # "persisting"
  BY DEF InStep, ChangeIsHeld
<1>7. InStep(f, st) /\ Waits(f, st)
  <2>1. /\ DOMAIN f = Fields /\ f.active = s2.active
        /\ f.effects = s2.effects
        /\ f.recovery = s2.recovery /\ f.barrier = s2.barrier
        /\ f.access = "failed"
    BY <1>5 DEF Spares, Formal, Fields
  <2> HIDE DEF f
  <2>2. Formal(f) /\ CallsOf(f) = CallsOf(s) /\ f.recovery = s.recovery
        /\ f.active["recovery"] = 0
    BY <1>2, <1>3, <1>4, <1>5, <2>1 DEF Spares, Formal, CallsOf
  <2>3. Pending(f) = {}
    BY <2>2, PendingCalls DEF InStep
  <2>4. View(f, st) /\ OutOfStore(f, st)
    BY <1>6, <2>1, <2>2 DEF InStep, View, OutOfStore
  <2> QED BY <1>6, <2>2, <2>3, <2>4 DEF InStep, Requested, ActiveIsAwaited,
             ChangeIsHeld, Waits
<1>8. Spares(s1, k)
  BY <1>5, CarryCleanupSpares, SparesOn DEF Spares
<1> HIDE DEF k, f
<1>9. /\ DOMAIN q = Fields /\ q.active = k.active
      /\ q.effects = k.effects /\ q.recovery = RecoveryOf(st)
      /\ q.barrier = k.barrier /\ q.access = k.access
  BY <1>8 DEF Spares, Formal, Fields
<1> HIDE DEF q
<1>10. RecoveryOf(st).kind \in {"clear", "available"}
  BY DEF RecoveryOf, Clear, Available
<1>11. Formal(q)
  BY <1>8, <1>9, <1>10 DEF Spares, Formal
<1>12. CallsOf(q) = CallsOf(s) /\ q.active["recovery"] = 0
  BY <1>2, <1>3, <1>4, <1>8, <1>9 DEF Spares, CallsOf
<1>13. InStep(q, st) /\ Waits(q, st)
  BY <1>9, <1>11, <1>12, LoadedSteps DEF InStep, OutOfStore
<1>14. Answers(q, ContinueSynchronization(q), st)
  BY <1>13, ContinueSynchronizationAnswers
<1> QED BY <1>1, <1>7, <1>13, <1>14 DEF Answers, z

\* What a ready store holds now, of a state that no call is active for.
LEMMA RestedSteps ==
  ASSUME NEW s, NEW st, Formal(s), Pending(s) = {}, Unfiled(st),
         NEW t, Spares(s, t)
  PROVE  /\ InStep(FinishRecoveryMutation(t, st), st)
         /\ Waits(FinishRecoveryMutation(t, st), st)
<1>1. Formal(t) /\ Pending(t) = {}
  BY PendingCalls DEF Spares
<1> QED BY <1>1, FinishRecoveryMutationSteps

\* Displaced bytes have been stored.
LEMMA RawRecoveryPersistedSteps ==
  ASSUME NEW s, NEW st, InStep(s, st), Pending(s) = {},
         NEW decodes
  PROVE  /\ InStep(RawRecoveryPersisted(s, st, decodes), st)
         /\ Waits(RawRecoveryPersisted(s, st, decodes), st)
<1> DEFINE c == s.recovery.attempt.continuation
           entry == s.recovery.attempt.entry
           n == [s EXCEPT !.pendingDisplaced = None,
                          !.unresolvedDisplaced = c]
           s1 == CarryCleanup(n, st)
           d == Deactivate(s1, "recovery")
           e == [d EXCEPT !.access = "ready",
                          !.recovery = Available(st)]
           s2 == ApplyCommittedBaseline(e, c)
           s3 == IF s2.merge # None /\ s2.merge.baseline # c.committed
                 THEN InvalidateMerge(s2) ELSE s2
           s4 == [s3 EXCEPT
                    !.unresolvedDisplaced = c,
                    !.local = IF c.committed = Rebased(c.committed, c.localRev)
                              THEN Clean ELSE Dirty(0),
                    !.issue = IF @ \in {"localSave", "closeDeadline"}
                              THEN None ELSE @]
           merge == [token |-> 0, baseline |-> c.committed,
                     base |-> c.mergeBase, local |-> c.localRev,
                     external |-> [text |-> c.text, inode |-> 0],
                     origin |-> [records |-> st,
                                 target |-> RawTarget({entry}),
                                 continuation |-> c]]
           z == RawRecoveryPersisted(s, st, decodes)
<1>1. z \in {FailRecovery(s), FinishRecoveryMutation(s1, st),
             ResumeRecoveryCleanup(s2), Refuse(s2, "recovery"),
             StartMerge(s4, merge), Refuse(s4, "recovery")}
  BY DEF RawRecoveryPersisted
<1> HIDE DEF z, c, entry
<1>2. Spares(s, n)
  <2>1. /\ DOMAIN n = Fields /\ n.active = s.active /\ n.effects = s.effects
        /\ n.access = s.access /\ n.recovery = s.recovery
        /\ n.barrier = s.barrier
    BY DEF InStep, Formal, Fields
  <2> HIDE DEF n
  <2> QED BY <2>1, SparesSet DEF InStep
<1> HIDE DEF n
<1>3. Spares(s, s1)
  BY <1>2, CarryCleanupSpares, SparesOn DEF Spares
<1> HIDE DEF s1
<1>4. InStep(FailRecovery(s), st) /\ Waits(FailRecovery(s), st)
  BY FailRecoveryAnswers
<1>5. /\ InStep(FinishRecoveryMutation(s1, st), st)
      /\ Waits(FinishRecoveryMutation(s1, st), st)
  BY <1>3, RestedSteps DEF InStep, OutOfStore
<1>6. /\ DOMAIN d = Fields /\ DOMAIN d.active = Operations
      /\ d.active["recovery"] = 0 /\ d.effects = s1.effects
      /\ d.barrier = s1.barrier
  BY <1>3 DEF Spares, Formal, Fields, Deactivate, Operations
<1> HIDE DEF d
<1>7. /\ DOMAIN e = Fields /\ e.active = d.active /\ e.effects = d.effects
      /\ e.access = "ready" /\ e.barrier = d.barrier
      /\ e.recovery = Available(st)
  BY <1>6 DEF Fields
<1> HIDE DEF e
<1>8. Available(st).kind = "available"
  BY DEF Available
<1>9. Formal(e) /\ CallsOf(e) = CallsOf(s) /\ e.active["recovery"] = 0
  BY <1>3, <1>6, <1>7, <1>8 DEF Spares, Formal, CallsOf
<1>10. InStep(e, st) /\ Waits(e, st)
  BY <1>7, <1>9, LoadedSteps DEF InStep, OutOfStore
<1>11. Spares(e, s2)
  BY <1>9, ApplyCommittedBaselineSpares
<1> HIDE DEF s2
<1>12. Spares(e, s3)
  BY <1>11, InvalidateMergeSpares, SparesOn DEF Spares
<1> HIDE DEF s3
<1>13. Spares(e, s4)
  <2>1. /\ DOMAIN s4 = Fields /\ s4.active = s3.active
        /\ s4.effects = s3.effects
        /\ s4.access = s3.access /\ s4.recovery = s3.recovery
        /\ s4.barrier = s3.barrier
    BY <1>12 DEF Spares, Formal, Fields
  <2> HIDE DEF s4
  <2> QED BY <1>12, <2>1, SparesThenSet
<1> HIDE DEF s4, merge
<1>14. Answers(e, ResumeRecoveryCleanup(s2), st)
  BY <1>10, <1>11, SparesInStep, ResumeRecoveryCleanupAnswers, ThenAnswers
<1>15. Answers(e, Refuse(s2, "recovery"), st)
  BY <1>10, <1>11, RefuseSpares, SparesOn, SparesAnswers DEF Spares
<1>16. Answers(e, Refuse(s4, "recovery"), st)
  BY <1>10, <1>13, RefuseSpares, SparesOn, SparesAnswers DEF Spares
<1>17. Answers(e, StartMerge(s4, merge), st)
  BY <1>10, <1>13, StartMergeSpares, SparesOn, SparesAnswers DEF Spares
<1> QED BY <1>1, <1>4, <1>5, <1>10, <1>14, <1>15, <1>16, <1>17
        DEF Answers, z

\* The store has answered a change with the records it holds; when it has
\* kept what it had, nothing remains to be done.
LEMMA MutationFinishedSteps ==
  ASSUME NEW s, NEW st, InStep(s, st), Pending(s) = {},
         NEW decodes
  PROVE  LET r == MutationFinished(s, st, decodes) IN
         /\ InStep(r, st)
         /\ \/ s.recovery.attempt.discard # None
            \/ RecordsPreserve(s.recovery.attempt.expected, st)
            \/ BroughtIn(s.recovery.attempt, st)
            => Waits(r, st)
<1> DEFINE attempt == s.recovery.attempt
           x == Discarded(s, attempt, st)
           y == ConflictPersisted(s, attempt, st)
           z == MutationFinished(s, st, decodes)
<1>1. \/ /\ z = s /\ attempt.discard = None
         /\ ~RecordsPreserve(attempt.expected, st)
      \/ z \in {FinishRecoveryMutation(x, st), FinishRecoveryMutation(y, st),
                RawRecoveryPersisted(s, st, decodes)}
  BY DEF MutationFinished, Persisted
<1> HIDE DEF z
<1>2. Spares(s, x) /\ Spares(s, y)
  BY DiscardedSpares, ConflictPersistedSpares DEF InStep
<1> HIDE DEF x, y, attempt
<1>3. /\ InStep(FinishRecoveryMutation(x, st), st)
      /\ Waits(FinishRecoveryMutation(x, st), st)
      /\ InStep(FinishRecoveryMutation(y, st), st)
      /\ Waits(FinishRecoveryMutation(y, st), st)
  BY <1>2, RestedSteps DEF InStep, OutOfStore
<1>4. /\ InStep(RawRecoveryPersisted(s, st, decodes), st)
      /\ Waits(RawRecoveryPersisted(s, st, decodes), st)
  BY RawRecoveryPersistedSteps
<1>5. BroughtIn(s.recovery.attempt, st) => Waits(s, st)
  BY DEF Waits
<1> QED BY <1>1, <1>3, <1>4, <1>5 DEF z, attempt

\* The records that are there are those before or after the change, or more.
LEMMA ChangeIsKnown ==
  ASSUME NEW s, NEW st, InStep(s, st), s.recovery.kind = "persisting"
  PROVE  \/ st = s.recovery.attempt.expected
         \/ st = After(s.recovery.attempt)
         \/ BroughtIn(s.recovery.attempt, st)
BY DEF InStep, View

\* What a change makes of the records does not depend on the order of cases.
LEMMA AfterIsOne ==
  ASSUME NEW a \in AnyAttempt
  PROVE  /\ a.discard # None => After(a) = AfterDiscard(a.discard, a.expected)
         /\ a.purpose = "persistConflict" =>
              LET all == <<a.entry>> \o a.expected.decoded
              IN  After(a) = [a.expected EXCEPT !.decoded =
                               SubSeq(all, 1, Min({EntryLimit, Len(all)}))]
         /\ a.purpose = "persistDisplacedPreimage" =>
              After(a) = [a.expected EXCEPT !.raw = @ \cup {a.entry}]
<1>1. /\ a.discard # None => /\ a.purpose # "persistConflict"
                             /\ a.purpose # "persistDisplacedPreimage"
  BY AttemptKinds DEF ConflictAttempts, DisplacedAttempts, DiscardAttempts,
     DiscardPurposes
<1>2. a.discard # None => After(a) = AfterDiscard(a.discard, a.expected)
  BY <1>1 DEF After
<1>3. a.purpose = "persistDisplacedPreimage" =>
        After(a) = [a.expected EXCEPT !.raw = @ \cup {a.entry}]
  BY <1>1 DEF After
<1>4. a.purpose = "persistConflict" =>
        LET all == <<a.entry>> \o a.expected.decoded
        IN  After(a) = [a.expected EXCEPT !.decoded =
                         SubSeq(all, 1, Min({EntryLimit, Len(all)}))]
  BY <1>1 DEF After
<1> QED BY <1>2, <1>3, <1>4

\* The store that has been opened again shows what became of a change.
LEMMA ReconciledSteps ==
  ASSUME NEW s, NEW st, InStep(s, st), Pending(s) = {},
         s.recovery.kind = "persisting", s.recovery.attempt \in AnyAttempt
  PROVE  LET r == Reconciled(s, st)
             a == s.recovery.attempt
         IN  /\ InStep(r, st)
             /\ \/ a.discard # None
                \/ /\ RecordsPreserve(a.expected, st)
                   /\ st = a.expected \/ Holds(st, a)
                \/ BroughtIn(a, st)
                => Waits(r, st)
<1> DEFINE a == s.recovery.attempt
           x == Discarded(s, a, st)
           y == ConflictPersisted(s, a, st)
           n == [s EXCEPT !.pendingDisplaced = None,
                          !.unresolvedDisplaced = a.continuation]
           restored == CarryCleanup(n, st)
           b == ApplyCommittedBaseline(restored, a.continuation)
           d == Deactivate(s, "recovery")
           restarted == [d EXCEPT !.access = "ready"]
           matches ==
             IF a.discard # None
             THEN st \in {a.expected, AfterDiscard(a.discard, a.expected)}
             ELSE RecordsPreserve(a.expected, st)
                  /\ (st = a.expected \/ Holds(st, a))
           z == Reconciled(s, st)
<1>1. st = a.expected \/ st = After(a) \/ BroughtIn(a, st)
  BY ChangeIsKnown
<1>2. \/ z = s /\ ~matches
      \/ z \in {FinishRecoveryMutation(s, st), FinishRecoveryMutation(x, st),
                FinishRecoveryMutation(y, st), FailRecovery(s),
                FinishRecoveryMutation(b, st)}
      \/ /\ a.purpose = "persistDisplacedPreimage" /\ a.discard = None
         /\ matches /\ ~Holds(st, a)
         /\ z = StartDisplacedPersistence(restarted, a.continuation)
  <2>1. a.purpose = "persistDisplacedPreimage" => a.discard = None
    BY AttemptKinds DEF DisplacedAttempts
  <2> QED BY <2>1 DEF Reconciled
<1>3. a.discard # None => matches \/ BroughtIn(a, st)
  <2>1. a.discard # None => After(a) = AfterDiscard(a.discard, a.expected)
    BY AfterIsOne
  <2> HIDE DEF a
  <2> QED BY <1>1, <2>1
<1>4. Spares(s, n)
  <2>1. /\ DOMAIN n = Fields /\ n.active = s.active /\ n.effects = s.effects
        /\ n.access = s.access /\ n.recovery = s.recovery
        /\ n.barrier = s.barrier
    BY DEF InStep, Formal, Fields
  <2> HIDE DEF n
  <2> QED BY <2>1, SparesSet DEF InStep
<1> HIDE DEF n
<1>5. Spares(s, restored)
  BY <1>4, CarryCleanupSpares, SparesOn DEF Spares
<1> HIDE DEF restored
<1>6. Spares(s, b)
  BY <1>5, ApplyCommittedBaselineSpares, SparesOn DEF Spares
<1> HIDE DEF b
<1>7. Spares(s, x) /\ Spares(s, y) /\ Spares(s, s)
  BY DiscardedSpares, ConflictPersistedSpares, SparesSame DEF InStep
<1> HIDE DEF x, y
<1>8. ASSUME NEW t, Spares(s, t)
      PROVE  /\ InStep(FinishRecoveryMutation(t, st), st)
             /\ Waits(FinishRecoveryMutation(t, st), st)
  BY <1>8, RestedSteps DEF InStep, OutOfStore
<1> HIDE DEF z
<1>9. ASSUME a.purpose = "persistDisplacedPreimage", a.discard = None,
             matches, ~Holds(st, a),
             z = StartDisplacedPersistence(restarted, a.continuation)
      PROVE  InStep(z, st) /\ Waits(z, st)
  <2>1. st = a.expected
    BY <1>9
  <2>2. /\ DOMAIN d = Fields /\ DOMAIN d.active = Operations
        /\ d.active["recovery"] = 0 /\ d.effects = s.effects
        /\ d.barrier = s.barrier /\ d.recovery = s.recovery
    BY DEF InStep, Formal, Fields, Deactivate, Operations
  <2> HIDE DEF d
  <2>3. /\ DOMAIN restarted = Fields /\ restarted.active = d.active
        /\ restarted.effects = d.effects
        /\ restarted.barrier = d.barrier /\ restarted.recovery = d.recovery
        /\ restarted.access = "ready"
    BY <2>2 DEF Fields
  <2> HIDE DEF restarted
  <2>4. Formal(restarted) /\ CallsOf(restarted) = CallsOf(s)
    BY <2>2, <2>3 DEF InStep, Formal, CallsOf
  <2>5. Pending(restarted) = {}
    BY <2>4, PendingCalls DEF InStep
  <2>6. st = CASE restarted.recovery.kind = "available" ->
                    restarted.recovery.records
               [] restarted.recovery.kind = "persisting" ->
                    restarted.recovery.attempt.expected
               [] OTHER -> NoRecords
    BY <2>1, <2>2, <2>3
  <2>7. InStep(z, st) /\ Waits(z, st)
    BY <1>9, <2>2, <2>3, <2>4, <2>5, <2>6, StartDisplacedSteps
       DEF InStep, OutOfStore
  <2> QED BY <2>7
<1> HIDE DEF restarted
<1>10. InStep(FailRecovery(s), st) /\ Waits(FailRecovery(s), st)
  BY FailRecoveryAnswers
<1>11. InStep(z, st) /\ (matches \/ BroughtIn(a, st) => Waits(z, st))
  <2>1. /\ InStep(FinishRecoveryMutation(s, st), st)
        /\ Waits(FinishRecoveryMutation(s, st), st)
        /\ InStep(FinishRecoveryMutation(x, st), st)
        /\ Waits(FinishRecoveryMutation(x, st), st)
    BY <1>7, <1>8
  <2>2. /\ InStep(FinishRecoveryMutation(y, st), st)
        /\ Waits(FinishRecoveryMutation(y, st), st)
        /\ InStep(FinishRecoveryMutation(b, st), st)
        /\ Waits(FinishRecoveryMutation(b, st), st)
    BY <1>6, <1>7, <1>8
  <2>3. CASE z = s /\ ~matches
    <3>1. BroughtIn(a, st) => Waits(s, st)
      BY DEF Waits
    <3> QED BY <2>3, <3>1
  <2>4. CASE z \in {FinishRecoveryMutation(s, st),
                   FinishRecoveryMutation(x, st),
                   FinishRecoveryMutation(y, st), FailRecovery(s),
                   FinishRecoveryMutation(b, st)}
    <3>1. InStep(z, st) /\ Waits(z, st)
      BY <1>10, <2>1, <2>2, <2>4
    <3> QED BY <3>1
  <2> HIDE DEF matches, a
  <2> QED BY <1>2, <1>9, <2>3, <2>4
<1> QED BY <1>3, <1>11 DEF z

\* What starts afresh is in step, whatever was under way.
LEMMA StartsAnswer ==
  ASSUME NEW s, NEW r, NEW st, InStep(r, st), Waits(r, st)
  PROVE  Answers(s, r, st)
BY DEF Answers

\* The user tries again.
LEMMA RetryAnswers ==
  ASSUME NEW s, NEW st, InStep(s, st)
  PROVE  Answers(s, Retry(s), st)
<1> DEFINE c == [s EXCEPT !.issue = None]
           m == StartMonitor(c)
           z == Retry(s)
<1>1. \/ z \in {s, StartCommitReconciliation(c),
                StartDisplacedPersistence(c, s.pendingDisplaced),
                ScheduleLocalSave(c), ScheduleExternalRead(c),
                ScheduleExternalRead(m), ContinueSynchronization(c)}
      \/ /\ z = StartRecoveryReconciliation(c)
         /\ s.barrier /\ s.recovery.kind = "persisting"
      \/ /\ z = StartRecoveryLoad(c)
         /\ ~s.barrier /\ s.access \in {"failed", "loading"}
  BY DEF Retry
<1> HIDE DEF z
<1>2. /\ DOMAIN c = Fields /\ c.active = s.active /\ c.effects = s.effects
      /\ c.access = s.access /\ c.recovery = s.recovery
      /\ c.barrier = s.barrier /\ s.barrier \in BOOLEAN
  BY DEF InStep, Formal, Fields
<1> HIDE DEF c
<1>3. Spares(s, c) /\ InStep(c, st) /\ Formal(c)
  BY <1>2, SparesSet, SparesInStep DEF InStep
<1>4. Answers(s, s, st)
  BY AnswersSame
<1>5. ASSUME NEW r, Spares(c, r)
      PROVE  Answers(s, r, st)
  BY <1>3, <1>5, SparesAnswers, ThenAnswers
<1>6. Spares(c, m) /\ Formal(m)
  BY <1>3, StartMonitorSpares DEF Spares
<1> HIDE DEF m
<1>7. Spares(m, ScheduleExternalRead(m))
  BY <1>6, ScheduleExternalReadSpares
<1>8. /\ Spares(c, StartCommitReconciliation(c))
      /\ Spares(c, ScheduleLocalSave(c))
      /\ Spares(c, ScheduleExternalRead(c))
      /\ Spares(c, ScheduleExternalRead(m))
  BY <1>3, <1>6, <1>7, StartCommitReconciliationSpares,
     ScheduleLocalSaveSpares, ScheduleExternalReadSpares, SparesOn
<1>9. /\ Answers(s, StartDisplacedPersistence(c, s.pendingDisplaced), st)
      /\ Answers(s, ContinueSynchronization(c), st)
  BY <1>3, StartDisplacedPersistenceAnswers, ContinueSynchronizationAnswers,
     ThenAnswers
<1>10. s.barrier /\ s.recovery.kind = "persisting"
       => Answers(s, StartRecoveryReconciliation(c), st)
  <2> SUFFICES ASSUME s.barrier, s.recovery.kind = "persisting"
               PROVE  Answers(s, StartRecoveryReconciliation(c), st)
    OBVIOUS
  <2>1. c.barrier = TRUE /\ c.recovery.kind = "persisting"
    BY <1>2
  <2> QED BY <1>3, <2>1, StartRecoveryReconciliationSteps, StartsAnswer
<1>11. ~s.barrier /\ s.access \in {"failed", "loading"}
       => Answers(s, StartRecoveryLoad(c), st)
  <2> SUFFICES ASSUME ~s.barrier, s.access \in {"failed", "loading"}
               PROVE  Answers(s, StartRecoveryLoad(c), st)
    OBVIOUS
  <2>1. c.barrier = FALSE /\ c.access # "ready"
    BY <1>2
  <2> QED BY <1>3, <2>1, StartRecoveryLoadSteps, StartsAnswer
<1>12. Answers(s, z, st)
  BY <1>1, <1>4, <1>5, <1>8, <1>9, <1>10, <1>11
<1> QED BY <1>12 DEF z

\* The user takes the stored text, or throws the stored bytes away.
LEMMA RestoreLocalRecoveryAnswers ==
  ASSUME NEW s, NEW st, InStep(s, st)
  PROVE  Answers(s, RestoreLocalRecovery(s), st)
<1> DEFINE records == s.recovery.records
           entry == Head(records.decoded)
           number == s.source.number + 1
           q == [s EXCEPT !.source = [number |-> number, text |-> entry.text],
                  !.local = Dirty(0), !.issue = None,
                  !.cleanup = [records |-> records,
                               target |-> DecodedTarget(entry),
                               purpose |-> "discardRestoredRecords",
                               min |-> number]]
<1>1. RestoreLocalRecovery(s) = ContinueSynchronization(q)
  BY DEF RestoreLocalRecovery
<1>2. /\ DOMAIN q = Fields /\ q.active = s.active /\ q.effects = s.effects
      /\ q.access = s.access /\ q.recovery = s.recovery
      /\ q.barrier = s.barrier
  BY DEF InStep, Formal, Fields
<1> HIDE DEF q
<1>3. Spares(s, q) /\ InStep(q, st)
  BY <1>2, SparesSet, SparesInStep DEF InStep
<1> QED BY <1>1, <1>3, ContinueSynchronizationAnswers, ThenAnswers

LEMMA DiscardRawRecoveryAnswers ==
  ASSUME NEW s, NEW st, InStep(s, st)
  PROVE  Answers(s, DiscardRawRecovery(s), st)
BY StartRecoveryDiscardAnswers DEF DiscardRawRecovery

\* The user closes the document.
LEMMA RequestCloseAnswers ==
  ASSUME NEW s, NEW st, InStep(s, st)
  PROVE  Answers(s, RequestClose(s), st)
<1> DEFINE p == Start(s, "closeDeadline", "close", None)
           q == [p EXCEPT !.lifecycle = "closing"]
<1>1. RequestClose(s) = ProgressManagedClose(q)
  BY DEF RequestClose
<1>2. Spares(s, p)
  BY StartSpares DEF InStep, Operations
<1> HIDE DEF p
<1>3. /\ DOMAIN q = Fields /\ q.active = p.active /\ q.effects = p.effects
      /\ q.access = p.access /\ q.recovery = p.recovery
      /\ q.barrier = p.barrier
  BY <1>2 DEF Spares, Formal, Fields
<1> HIDE DEF q
<1>4. Spares(s, q) /\ InStep(q, st)
  BY <1>2, <1>3, SparesThenSet, SparesInStep
<1> QED BY <1>1, <1>4, ProgressManagedCloseAnswers, ThenAnswers

\* The host gives up closing.
LEMMA CloseCancelledSpares ==
  ASSUME NEW s, Formal(s)
  PROVE  Spares(s, CloseCancelled(s))
<1> DEFINE d == Deactivate(s, "close")
           q == [d EXCEPT !.lifecycle = "active"]
<1>1. Spares(s, d)
  BY DeactivateSpares DEF Operations
<1> HIDE DEF d
<1>2. /\ DOMAIN q = Fields /\ q.active = d.active /\ q.effects = d.effects
      /\ q.access = d.access /\ q.recovery = d.recovery
      /\ q.barrier = d.barrier
  BY <1>1 DEF Spares, Formal, Fields
<1> HIDE DEF q
<1>3. Spares(s, q)
  BY <1>1, <1>2, SparesThenSet
<1> QED BY <1>3 DEF CloseCancelled, d, q

\* The deadline of the close passes: what was asked of the store is
\* given up, and a change that may have been carried out is remembered.
LEMMA CloseDeadlineFiredAnswers ==
  ASSUME NEW s, NEW st, InStep(s, st)
  PROVE  Answers(s, CloseDeadlineFired(s), st)
<1> DEFINE w == InvalidateAutomatedWork(s)
           r == CancelAllDeadlines(w)
           f == [r EXCEPT !.access = "failed"]
           g == [w EXCEPT !.access = "failed"]
           l == [r EXCEPT !.access = "loading",
                          !.recovery = IF @.kind = "persisting"
                                       THEN Clear ELSE @]
           reset == CASE s.active["recovery"] = 0 -> r
                      [] s.active["recovery"] # 0 /\ r.barrier -> f
                      [] s.active["recovery"] # 0 /\ ~r.barrier -> l
           m == StartMonitor(reset)
           q == [m EXCEPT !.issue = "closeDeadline", !.lifecycle = "active"]
<1>1. CloseDeadlineFired(s) = q
  BY DEF CloseDeadlineFired
<1>2. /\ InStep(g, st)
      /\ Formal(w) /\ w.access = s.access /\ w.recovery = s.recovery
      /\ w.active["recovery"] = 0 /\ CallsOf(w) = CallsOf(s)
      /\ s.recovery.kind = "persisting" => w.barrier = TRUE
      /\ s.active["recovery"] = 0 => w.barrier = s.barrier
  BY InvalidateAutomatedWorkSteps
<1>3. /\ DOMAIN g = Fields /\ g.active = w.active /\ g.effects = w.effects
      /\ g.access = "failed" /\ g.recovery = w.recovery
      /\ g.barrier = w.barrier
  BY <1>2 DEF Formal, Fields
<1> HIDE DEF w, g
<1>4. Spares(w, r)
  BY <1>2, CancelAllDeadlinesSpares
<1> HIDE DEF r
<1>5. /\ DOMAIN f = Fields /\ f.active = r.active /\ f.effects = r.effects
      /\ f.access = "failed" /\ f.recovery = r.recovery
      /\ f.barrier = r.barrier
  BY <1>4 DEF Spares, Formal, Fields
<1>6. s.active["recovery"] = 0 => Answers(s, r, st)
  <2> SUFFICES ASSUME s.active["recovery"] = 0 PROVE Answers(s, r, st)
    OBVIOUS
  <2>1. Spares(s, r)
    BY <1>2, <1>4 DEF Spares
  <2> QED BY <2>1, SparesAnswers
<1>7. Answers(s, f, st)
  <2> HIDE DEF f
  <2>1. Spares(g, f)
    BY <1>2, <1>3, <1>4, <1>5 DEF Spares, Formal, CallsOf
  <2>2. InStep(f, st)
    BY <1>2, <2>1, SparesInStep
  <2>3. Waits(f, st)
    BY <1>5 DEF Waits
  <2> QED BY <2>2, <2>3, StartsAnswer
<1>8. r.barrier \in BOOLEAN
  BY <1>4 DEF Spares, Formal
<1>9. ~r.barrier => Answers(s, l, st)
  <2> SUFFICES ASSUME ~r.barrier PROVE Answers(s, l, st)
    OBVIOUS
  <2>1. s.recovery.kind # "persisting"
    BY <1>2, <1>4 DEF Spares
  <2>2. /\ DOMAIN l = Fields /\ l.active = r.active /\ l.effects = r.effects
        /\ l.access = "loading" /\ l.recovery = s.recovery
        /\ l.barrier = r.barrier
    BY <1>2, <1>4, <2>1 DEF Spares, Formal, Fields
  <2> HIDE DEF l
  <2>3. Formal(l) /\ CallsOf(l) = CallsOf(s)
    BY <1>2, <1>4, <2>2 DEF Spares, Formal, CallsOf
  <2>4. Pending(l) = Pending(s)
    BY <2>3, PendingCalls DEF InStep
  <2>5. View(l, st) /\ OutOfStore(l, st) /\ Requested(l, st)
    BY <2>1, <2>2, <2>4 DEF InStep, View, OutOfStore, Requested
  <2>6. l.active["recovery"] = 0
    BY <1>2, <1>4, <2>2 DEF Spares
  <2>7. ActiveIsAwaited(l) /\ ChangeIsHeld(l) /\ Waits(l, st)
    BY <2>1, <2>2, <2>6 DEF ActiveIsAwaited, ChangeIsHeld, Waits
  <2>8. InStep(l, st)
    BY <2>3, <2>5, <2>7 DEF InStep
  <2> QED BY <2>7, <2>8, StartsAnswer
<1> HIDE DEF f, l
<1>10. Answers(s, reset, st)
  BY <1>6, <1>7, <1>8, <1>9
<1> HIDE DEF reset
<1>11. InStep(reset, st) /\ Formal(reset)
  BY <1>10 DEF Answers, InStep
<1>12. Spares(reset, m)
  BY <1>11, StartMonitorSpares
<1> HIDE DEF m
<1>13. /\ DOMAIN q = Fields /\ q.active = m.active /\ q.effects = m.effects
       /\ q.access = m.access /\ q.recovery = m.recovery
       /\ q.barrier = m.barrier
  BY <1>12 DEF Spares, Formal, Fields
<1> HIDE DEF q
<1>14. Spares(reset, q)
  BY <1>12, <1>13, SparesThenSet
<1>15. Answers(reset, q, st)
  BY <1>11, <1>14, SparesAnswers
<1>16. Answers(s, q, st)
  BY <1>10, <1>15, AnswersOn
<1> QED BY <1>1, <1>16

-----------------------------------------------------------------------------
(* What the store holds after a change.                                    *)

\* The list of the store has room for another conflict.
Roomy(st) == Len(st.decoded) < EntryLimit

\* A list that is not full after an entry was put in front of it has not been
\* cut.
LEMMA RoomKeepsAll ==
  ASSUME NEW decoded \in Seq(Entries), NEW entry \in Entries
  PROVE  LET all == <<entry>> \o decoded
             cut == SubSeq(all, 1, Min({EntryLimit, Len(all)}))
         IN  Len(cut) < EntryLimit =>
               /\ ToSet(decoded) \subseteq ToSet(cut)
               /\ entry \in ToSet(cut)
<1> DEFINE all == <<entry>> \o decoded
           l == Len(all)
           n == Min({EntryLimit, l})
           cut == SubSeq(all, 1, n)
<1>1. /\ all \in Seq(Entries) /\ l \in Nat \ {0} /\ all[1] = entry
      /\ l = Len(decoded) + 1
      /\ \A i \in 1 .. Len(decoded) : all[i + 1] = decoded[i]
  OBVIOUS
<1>2. EntryLimit \in Nat \ {0}
  BY SyncAssumption
<1> HIDE DEF all
<1>3. n \in {EntryLimit, l} /\ n =< l
  <2> HIDE DEF l
  <2>1. \E x \in {EntryLimit, l} : \A y \in {EntryLimit, l} : x =< y
    <3>1. EntryLimit =< l \/ l =< EntryLimit
      BY <1>1, <1>2
    <3> QED BY <1>1, <1>2, <3>1
  <2> QED BY <1>1, <1>2, <2>1 DEF Min
<1> HIDE DEF n
<1>4. Len(cut) = n
  BY <1>1, <1>2, <1>3
<1> SUFFICES ASSUME Len(cut) < EntryLimit
             PROVE  ToSet(decoded) \subseteq ToSet(cut) /\ entry \in ToSet(cut)
  BY DEF n, all
<1>5. n = l
  BY <1>2, <1>3, <1>4
<1>6. \A i \in 1 .. l : i \in DOMAIN cut /\ cut[i] = all[i]
  BY <1>1, <1>5
<1> HIDE DEF cut, l
<1>7. entry \in ToSet(cut)
  <2>1. 1 \in 1 .. l
    BY <1>1
  <2> QED BY <1>1, <1>6, <2>1 DEF ToSet
<1>8. ASSUME NEW x \in ToSet(decoded)
      PROVE  x \in ToSet(cut)
  <2>1. PICK i \in 1 .. Len(decoded) : decoded[i] = x
    BY DEF ToSet
  <2>2. i + 1 \in 1 .. l /\ all[i + 1] = x
    BY <1>1, <2>1
  <2> QED BY <1>6, <2>2 DEF ToSet
<1> QED BY <1>7, <1>8

\* While there is room, a change that adds a record takes none away.
LEMMA RoomPreserves ==
  ASSUME NEW a \in AnyAttempt, a.discard = None, NEW st, Roomy(st),
         st = a.expected \/ st = After(a)
  PROVE  /\ RecordsPreserve(a.expected, st)
         /\ st = a.expected \/ Holds(st, a)
<1>1. RecordsPreserve(a.expected, a.expected)
  BY DEF RecordsPreserve
<1>2. a \in ConflictAttempts \/ a \in DisplacedAttempts
  BY TextAssumption DEF AnyAttempt, DiscardAttempts
<1>3. ASSUME a \in DisplacedAttempts, st = After(a)
      PROVE  RecordsPreserve(a.expected, st) /\ Holds(st, a)
  <2>1. a.purpose = "persistDisplacedPreimage" /\ a.expected \in RecordLists
    BY <1>3 DEF DisplacedAttempts
  <2>2. st = [a.expected EXCEPT !.raw = @ \cup {a.entry}]
    BY <1>3, <2>1, AfterIsOne
  <2>3. st.decoded = a.expected.decoded
        /\ st.raw = a.expected.raw \cup {a.entry}
    BY <2>1, <2>2 DEF RecordLists
  <2> QED BY <2>1, <2>3 DEF RecordsPreserve, Holds
<1>4. ASSUME a \in ConflictAttempts, st = After(a)
      PROVE  RecordsPreserve(a.expected, st) /\ Holds(st, a)
  <2>1. /\ a.purpose = "persistConflict" /\ a.expected \in RecordLists
        /\ a.entry \in Entries
    BY <1>4 DEF ConflictAttempts
  <2> DEFINE all == <<a.entry>> \o a.expected.decoded
             cut == SubSeq(all, 1, Min({EntryLimit, Len(all)}))
  <2>2. st = [a.expected EXCEPT !.decoded = cut]
    BY <1>4, <2>1, AfterIsOne
  <2>3. a.expected.decoded \in Seq(Entries)
    BY <2>1 DEF RecordLists
  <2>4. Len(cut) < EntryLimit => /\ ToSet(a.expected.decoded) \subseteq ToSet(cut)
                                 /\ a.entry \in ToSet(cut)
    BY <2>1, <2>3, RoomKeepsAll
  <2> HIDE DEF cut
  <2>5. st.decoded = cut /\ st.raw = a.expected.raw
    BY <2>1, <2>2 DEF RecordLists
  <2> QED BY <2>1, <2>4, <2>5 DEF Roomy, RecordsPreserve, Holds
<1> QED BY <1>1, <1>2, <1>3, <1>4

\* What the store makes of a change is what was expected of it.
LEMMA MutatedIsAfter ==
  ASSUME NEW a \in AnyAttempt, a.expected = store
  PROVE  Mutated(a) = After(a)
<1>1. CASE a \in DiscardAttempts
  <2>1. a.discard # None
        /\ a.purpose \notin {"persistConflict", "persistDisplacedPreimage"}
    BY <1>1, TextAssumption DEF DiscardAttempts, DiscardPurposes
  <2> QED BY <2>1, AfterIsOne DEF Mutated
<1>2. CASE a \in DisplacedAttempts
  <2>1. a.discard = None /\ a.purpose = "persistDisplacedPreimage"
    BY <1>2 DEF DisplacedAttempts
  <2> QED BY <2>1, AfterIsOne DEF Mutated
<1>3. CASE a \in ConflictAttempts
  <2>1. a.discard = None /\ a.purpose = "persistConflict"
    BY <1>3 DEF ConflictAttempts
  <2> QED BY <2>1, AfterIsOne DEF Mutated
<1> QED BY <1>1, <1>2, <1>3 DEF AnyAttempt

-----------------------------------------------------------------------------
(* The steps of the coordinator, and the store.                            *)

\* A document is in step with the store until it is closed.
Told(s, st) == s.lifecycle = "closed" \/ InStep(s, st)
Attended(s, st) == s.lifecycle = "closed" \/ Waits(s, st)

Tells(s, r, st) == Told(r, st) /\ (Attended(s, st) => Attended(r, st))

LEMMA AnswersTells ==
  ASSUME NEW s, NEW st, Told(s, st), s.lifecycle # "closed", NEW r,
         InStep(s, st) => Answers(s, r, st)
  PROVE  Tells(s, r, st)
BY DEF Told, Attended, Tells, Answers

LEMMA TellsSame ==
  ASSUME NEW s, NEW st, Told(s, st)
  PROVE  Tells(s, s, st)
BY DEF Tells

\* An effect that leaves.
LEMMA WithoutInStep ==
  ASSUME NEW s, NEW st, InStep(s, st), NEW e \in s.effects, e \notin Pending(s)
  PROVE  LET t == Without(s, e) IN
         /\ InStep(t, st) /\ Pending(t) = Pending(s)
         /\ t.active = s.active /\ t.recovery = s.recovery
         /\ t.access = s.access /\ t.barrier = s.barrier
         /\ e.op # "recovery" \/ e.token # s.active["recovery"] =>
              (Waits(s, st) => Waits(t, st))
<1> DEFINE t == Without(s, e)
<1>1. /\ DOMAIN t = Fields /\ t.active = s.active
      /\ t.access = s.access /\ t.recovery = s.recovery
      /\ t.barrier = s.barrier /\ t.effects = s.effects \ {e}
  BY DEF InStep, Formal, Fields, Without
<1> HIDE DEF t
<1>2. IsFiniteSet(t.effects)
  BY <1>1, FS_Subset DEF InStep, Formal
<1>3. Formal(t)
  BY <1>1, <1>2 DEF InStep, Formal
<1>4. Pending(t) = Pending(s)
  BY <1>1 DEF Pending
<1>5. CallsOf(t) = CallsOf(s) \ {e}
  BY <1>1 DEF CallsOf
<1>6. View(t, st) /\ OutOfStore(t, st) /\ Requested(t, st) /\ ChangeIsHeld(t)
  BY <1>1, <1>4 DEF InStep, View, OutOfStore, Requested, ChangeIsHeld
<1>7. ActiveIsAwaited(t)
  BY <1>1, <1>5 DEF InStep, ActiveIsAwaited, Awaits
<1>8. InStep(t, st)
  BY <1>3, <1>6, <1>7 DEF InStep
<1>9. ASSUME e.op # "recovery" \/ e.token # s.active["recovery"], Waits(s, st)
      PROVE  Waits(t, st)
  BY <1>1, <1>5, <1>9 DEF Waits, CallsOf
<1> QED BY <1>1, <1>4, <1>8, <1>9 DEF t

\* The delivery of a result that is not about the store.
LEMMA ReceiveTells ==
  ASSUME IInv, Told(sync, store), NEW e \in sync.effects, e.op # "recovery",
         NEW next, Receive(e, next),
         LET t == Without(sync, e) IN
         InStep(t, store) /\ Sound(t) => Answers(t, next, store)
  PROVE  Tells(sync, sync', store)
<1> DEFINE t == Without(sync, e)
<1>1. sync \in States /\ e \in Effects
  BY DEF IInv, Nearly, Calm, Sound, States
<1>2. e \notin Pending(sync)
  BY <1>1, EffectKinds DEF Pending
<1>3. t.lifecycle = sync.lifecycle /\ Sound(t)
  <2>1. Sound(t)
    BY WithoutKeeps DEF IInv, Nearly, Calm
  <2>2. t.lifecycle = sync.lifecycle
    BY <1>1 DEF Without, States
  <2> QED BY <2>1, <2>2
<1>4. \/ sync' = t
      \/ t.lifecycle # "closed" /\ sync' = next
  BY ReceiveLeaves
<1>5. InStep(sync, store) =>
        InStep(t, store) /\ (Waits(sync, store) => Waits(t, store))
  BY <1>2, WithoutInStep
<1>6. InStep(t, store) /\ Sound(t) => Answers(t, next, store)
  OBVIOUS
<1> HIDE DEF t
<1>7. CASE sync' = t
  BY <1>3, <1>5, <1>7 DEF Told, Attended, Tells
<1>8. CASE t.lifecycle # "closed" /\ sync' = next
  BY <1>3, <1>5, <1>6, <1>8 DEF Told, Attended, Tells, Answers
<1> QED BY <1>4, <1>7, <1>8

\* The user's and the host's steps.
LEMMA RequestTells ==
  ASSUME IInv, Told(sync, store),
         \/ Edit \/ RequestSave \/ UserRetries \/ UserRestores
         \/ UserDiscardsRaw \/ UserCloses \/ HostCloses \/ HostCancels
         \/ MonitorFails
  PROVE  Tells(sync, sync', store)
<1>1. sync \in States
  BY DEF IInv, Nearly, Calm, Sound
<1>2. InStep(sync, store) => Formal(sync)
  BY DEF InStep
<1>3. CASE Edit
  <2>1. \E text : sync' = SourceChanged(sync, text)
    BY <1>3 DEF Edit
  <2>2. sync.lifecycle # "closed"
    BY <1>3 DEF Edit, CanAcceptSourceChanges
  <2> QED BY <2>1, <2>2, SourceChangedAnswers, AnswersTells
<1>4. CASE RequestSave
  <2>1. sync' = SaveRequested(sync)
    BY <1>4 DEF RequestSave
  <2>2. CASE sync.lifecycle = "closed"
    <3>1. SaveRequested(sync) = sync
      BY <2>2 DEF SaveRequested, CanCoordinate, CanAcceptSourceChanges
    <3> QED BY <2>1, <3>1, TellsSame
  <2>3. CASE sync.lifecycle # "closed"
    BY <1>2, <2>1, <2>3, SaveRequestedSpares, SparesAnswers, AnswersTells
  <2> QED BY <2>2, <2>3
<1>5. CASE UserRetries
  BY <1>5, RetryAnswers, AnswersTells DEF UserRetries
<1>6. CASE UserRestores
  BY <1>6, RestoreLocalRecoveryAnswers, AnswersTells
     DEF UserRestores, CanRestore
<1>7. CASE UserDiscardsRaw
  BY <1>7, DiscardRawRecoveryAnswers, AnswersTells
     DEF UserDiscardsRaw, CanDiscardRaw
<1>8. CASE UserCloses
  BY <1>8, RequestCloseAnswers, AnswersTells DEF UserCloses
<1>9. CASE HostCloses
  <2>1. sync'.lifecycle = "closed"
    BY <1>1, <1>9 DEF HostCloses, CloseCommitted, States
  <2> QED BY <2>1 DEF Tells, Told, Attended
<1>10. CASE HostCancels
  BY <1>2, <1>10, CloseCancelledSpares, SparesAnswers, AnswersTells
     DEF HostCancels
<1>11. CASE MonitorFails
  <2>1. sync' = MonitorFailed(sync)
    BY <1>11 DEF MonitorFails
  <2>2. CASE sync.lifecycle = "closed"
    <3>1. MonitorFailed(sync).lifecycle = sync.lifecycle
      BY <1>1 DEF MonitorFailed, Deactivate, States
    <3> QED BY <2>1, <2>2, <3>1 DEF Tells, Told, Attended
  <2>3. CASE sync.lifecycle # "closed"
    BY <1>2, <2>1, <2>3, MonitorFailedSpares, SparesAnswers, AnswersTells
  <2> QED BY <2>2, <2>3
<1> QED BY <1>3, <1>4, <1>5, <1>6, <1>7, <1>8, <1>9, <1>10, <1>11

\* Deadlines, notices and the preparation of a save.
LEMMA DeadlineTells ==
  ASSUME IInv, Told(sync, store), NEW e \in sync.effects,
         \/ LocalSaveDeadline(e) \/ ExternalReadDeadline(e)
         \/ CloseDeadline(e) \/ MonitorSignal(e) \/ PrepareSave(e)
  PROVE  Tells(sync, sync', store)
<1> DEFINE t == Without(sync, e)
<1>1. e \in Effects
  BY DEF IInv, Nearly, Calm, Sound, States
<1>2. e.op # "recovery"
  <2>1. e.kind \notin {"load", "mutate", "reconcile"}
    BY DEF LocalSaveDeadline, ExternalReadDeadline, CloseDeadline,
       MonitorSignal, PrepareSave
  <2> QED BY <1>1, <2>1, EffectKinds
<1>3. ASSUME NEW s, InStep(s, store), NEW r, Spares(s, r)
      PROVE  Answers(s, r, store)
  BY <1>3, SparesAnswers
<1>4. ASSUME NEW s, InStep(s, store)
      PROVE  Answers(s, s, store) /\ Formal(s)
  BY <1>4, AnswersSame DEF InStep
<1>5. CASE LocalSaveDeadline(e)
  <2> DEFINE n == IF t.local = Dirty(e.token) THEN LocalSaveDeadlineFired(t)
                  ELSE t
  <2>1. Receive(e, n)
    BY <1>5 DEF LocalSaveDeadline
  <2>2. InStep(t, store) => Answers(t, n, store)
    <3> HIDE DEF t
    <3> QED BY <1>3, <1>4, LocalSaveDeadlineSpares
  <2> HIDE DEF n
  <2> QED BY <1>2, <2>1, <2>2, ReceiveTells
<1>6. CASE ExternalReadDeadline(e)
  <2> DEFINE n == IF t.external.kind = "debouncing"
                  THEN ExternalReadDeadlineFired(t) ELSE t
  <2>1. Receive(e, n)
    BY <1>6 DEF ExternalReadDeadline
  <2>2. InStep(t, store) => Answers(t, n, store)
    <3> HIDE DEF t
    <3> QED BY <1>3, <1>4, ExternalReadDeadlineSpares
  <2> HIDE DEF n
  <2> QED BY <1>2, <2>1, <2>2, ReceiveTells
<1>7. CASE CloseDeadline(e)
  <2> DEFINE n == IF t.lifecycle = "closing" THEN CloseDeadlineFired(t)
                  ELSE t
  <2>1. Receive(e, n)
    BY <1>7 DEF CloseDeadline
  <2>2. InStep(t, store) => Answers(t, n, store)
    <3> HIDE DEF t
    <3> QED BY <1>4, CloseDeadlineFiredAnswers
  <2> HIDE DEF n
  <2> QED BY <1>2, <2>1, <2>2, ReceiveTells
<1>8. CASE MonitorSignal(e)
  <2>1. Receive(e, MonitorSignaled(t))
    BY <1>8 DEF MonitorSignal
  <2>2. InStep(t, store) => Answers(t, MonitorSignaled(t), store)
    <3> HIDE DEF t
    <3> QED BY <1>3, <1>4, MonitorSignaledSpares
  <2> QED BY <1>2, <2>1, <2>2, ReceiveTells
<1>9. CASE PrepareSave(e)
  <2>1. \/ Receive(e, SavePrepared(t))
        \/ Receive(e, SavePreparationFailed(t))
    BY <1>9 DEF PrepareSave
  <2>2. InStep(t, store) => /\ Answers(t, SavePrepared(t), store)
                            /\ Answers(t, SavePreparationFailed(t), store)
    <3> HIDE DEF t
    <3> QED BY <1>3, <1>4, SavePreparedSpares, SavePreparationFailedSpares
  <2> QED BY <1>2, <2>1, <2>2, ReceiveTells
<1> QED BY <1>5, <1>6, <1>7, <1>8, <1>9

\* A commit has answered.
LEMMA FinishCommitTells ==
  ASSUME IInv, Told(sync, store), NEW e \in sync.effects, FinishCommit(e)
  PROVE  Tells(sync, sync', store)
<1> DEFINE t == Without(sync, e)
           writing == t.local.kind = "writing"
           r == CommitProvenNotStarted(t, "localSave")
           v == CommitProvenNotStarted(t, "destinationRequiresSaveAs")
           n == CASE e.answer.outcome = "committed" /\ writing
                       /\ t.local.token = e.token ->
                       SaveFinished(t, e.answer)
                  [] e.answer.outcome = "unknown" /\ writing
                       /\ t.local.token = e.token ->
                       EnterUncertainCommitOutcome(t)
                  [] e.answer.outcome = "notStarted" /\ writing -> r
                  [] e.answer.outcome = "requiresSaveAs" /\ writing -> v
                  [] e.answer.outcome = "targetChanged" /\ writing ->
                       IF r.active["monitor"] = 0 THEN r
                       ELSE MonitorSignaled(r)
                  [] OTHER -> t
<1>1. e.kind = "commit" /\ e.answer # None /\ Receive(e, n)
  BY DEF FinishCommit
<1>2. e \in Effects
  BY DEF IInv, Nearly, Calm, Sound, States
<1>3. e.answer.outcome \in CommitOutcomes /\ e.op # "recovery"
  <2>1. e \in Commits /\ e.op = "saveCommit"
    BY <1>1, <1>2, EffectParts
  <2> QED BY <1>1, <2>1, EffectParts DEF Commits, EffectsOf
<1>4. InStep(t, store) => Answers(t, n, store)
  <2> HIDE DEF t
  <2> SUFFICES ASSUME InStep(t, store) PROVE Answers(t, n, store)
    OBVIOUS
  <2>1. Formal(t)
    BY DEF InStep
  <2>2. /\ Spares(t, r) /\ Spares(t, v)
        /\ Spares(t, EnterUncertainCommitOutcome(t))
        /\ Answers(t, SaveFinished(t, e.answer), store)
    BY <2>1, CommitProvenNotStartedSpares, EnterUncertainSpares,
       SaveFinishedAnswers
  <2> HIDE DEF r, v
  <2>3. Spares(t, MonitorSignaled(r))
    BY <2>2, MonitorSignaledSpares, SparesOn DEF Spares
  <2>4. n \in {SaveFinished(t, e.answer), EnterUncertainCommitOutcome(t),
               r, v, MonitorSignaled(r), t}
    BY <1>3 DEF CommitOutcomes
  <2>5. Answers(t, t, store)
    BY AnswersSame
  <2> HIDE DEF n
  <2> QED BY <2>2, <2>3, <2>4, <2>5, SparesAnswers
<1> HIDE DEF n
<1> QED BY <1>1, <1>3, <1>4, ReceiveTells

\* The journal has answered what became of a commit.
LEMMA FinishReconciliationTells ==
  ASSUME IInv, Told(sync, store), NEW e \in sync.effects,
         FinishReconciliation(e)
  PROVE  Tells(sync, sync', store)
<1> DEFINE t == Without(sync, e)
           f == CommitReconciliationFinished(t, e.answer)
           n == IF t.uncertain # None /\ t.uncertain.reconciliation = e.token
                THEN f ELSE t
<1>1. e.kind = "reconcileCommit" /\ e.answer # None /\ Receive(e, n)
  BY DEF FinishReconciliation
<1>2. e \in Effects
  BY DEF IInv, Nearly, Calm, Sound, States
<1>3. /\ e.answer.outcome \in {"committed", "notCommitted", "unresolved"}
      /\ e.op # "recovery"
  <2>1. e \in Reconciliations
    BY <1>1, <1>2, EffectParts
  <2> QED BY <1>1, <2>1 DEF Reconciliations, EffectsOf
<1>4. InStep(t, store) => Answers(t, n, store)
  <2> HIDE DEF t
  <2> SUFFICES ASSUME InStep(t, store) PROVE Answers(t, n, store)
    OBVIOUS
  <2>1. Answers(t, f, store) /\ Answers(t, t, store)
    BY <1>3, CommitReconciliationFinishedAnswers, AnswersSame
  <2> HIDE DEF f
  <2> QED BY <2>1
<1> HIDE DEF n
<1> QED BY <1>1, <1>3, <1>4, ReceiveTells

\* The file has been read.
LEMMA FinishReadTells ==
  ASSUME IInv, Told(sync, store), NEW e \in sync.effects, FinishRead(e)
  PROVE  Tells(sync, sync', store)
<1> DEFINE t == Without(sync, e)
           f == ExternalReadFinished(t, e.answer)
           n == IF t.external.kind = "reading" THEN f ELSE t
<1>1. e.kind = "read" /\ e.answer # None /\ Receive(e, n)
  BY DEF FinishRead
<1>2. e \in Effects
  BY DEF IInv, Nearly, Calm, Sound, States
<1>3. /\ e.answer.outcome \in {"failed", "unchanged", "missing", "changed"}
      /\ e.op # "recovery"
  <2>1. e \in Reads
    BY <1>1, <1>2, EffectParts
  <2> QED BY <1>1, <2>1 DEF Reads, EffectsOf, ReadAnswers
<1>4. InStep(t, store) /\ Sound(t) => Answers(t, n, store)
  <2> HIDE DEF t
  <2> SUFFICES ASSUME InStep(t, store), Sound(t) PROVE Answers(t, n, store)
    OBVIOUS
  <2>1. t.local.kind \in {"clean", "dirty", "preparing", "writing"}
    BY DEF Sound, States, LocalStates, Clean
  <2>2. Answers(t, f, store) /\ Answers(t, t, store)
    BY <1>3, <2>1, ExternalReadFinishedAnswers, AnswersSame
  <2> HIDE DEF f
  <2> QED BY <2>2
<1> HIDE DEF n
<1> QED BY <1>1, <1>3, <1>4, ReceiveTells

\* A merge is done.
LEMMA FinishMergeTells ==
  ASSUME IInv, Told(sync, store), NEW e \in sync.effects, FinishMerge(e)
  PROVE  Tells(sync, sync', store)
<1> DEFINE t == Without(sync, e)
           m == t.merge
           n(outcome) == IF m # None /\ m.token = e.token
                         THEN MergeFinished(t, outcome) ELSE t
<1>1. PICK outcome \in {Merged(m.base, m.local.text, m.external.text), None} :
        Receive(e, n(outcome))
  BY DEF FinishMerge
<1>2. e.op # "recovery"
  <2>1. e.kind = "merge"
    BY DEF FinishMerge
  <2>2. e \in Effects
    BY DEF IInv, Nearly, Calm, Sound, States
  <2> QED BY <2>1, <2>2, EffectKinds
<1>3. InStep(t, store) => Answers(t, n(outcome), store)
  <2> HIDE DEF t
  <2> QED BY MergeFinishedAnswers, AnswersSame
<1> HIDE DEF n
<1> QED BY <1>1, <1>2, <1>3, ReceiveTells

\* The recovery store has answered; all it was asked before, it has answered,
\* and the reducer is in the state in which it takes the answer.
LEMMA FinishRecoveryTells ==
  ASSUME IInv, Told(sync, store), NEW e \in sync.effects, FinishRecovery(e)
  PROVE  /\ Told(sync', store)
         /\ Roomy(store) /\ Attended(sync, store) => Attended(sync', store)
<1> DEFINE t == Without(sync, e)
           records == e.answer.records
           expects == CASE e.kind = "load" ->
                             t.access = "loading" /\ ~t.barrier
                        [] e.kind = "mutate" ->
                             t.recovery = Persisting(e.request)
                        [] e.kind = "reconcile" ->
                             /\ t.access = "loading" /\ t.barrier
                             /\ t.recovery = Persisting(e.request)
           n(decodes) ==
             CASE ~e.answer.ok -> FailRecovery(t)
               [] e.answer.ok /\ ~expects -> t
               [] e.answer.ok /\ expects /\ e.kind = "load" ->
                    RecoveryLoaded(t, records)
               [] e.answer.ok /\ expects /\ e.kind = "mutate" ->
                    MutationFinished(t, records, decodes)
               [] e.answer.ok /\ expects /\ e.kind = "reconcile" ->
                    Reconciled(t, records)
<1>1. /\ e.op = "recovery" /\ e.answer # None
      /\ \E decodes \in BOOLEAN : Receive(e, n(decodes))
  BY DEF FinishRecovery
<1>2. PICK decodes \in BOOLEAN : Receive(e, n(decodes))
  BY <1>1
<1>3. e \in Effects /\ sync \in States
  BY DEF IInv, Nearly, Calm, Sound, States
<1>4. /\ e.kind \in {"load", "mutate", "reconcile"}
      /\ e.answer.ok \in BOOLEAN
      /\ e.kind # "load" => e.request \in AnyAttempt
  <2>1. e \in RecoveryCalls
    BY <1>1, <1>3, EffectParts
  <2> QED BY <1>1, <2>1 DEF RecoveryCalls, EffectsOf, StoreAnswers
<1>5. e \notin Pending(sync) /\ e \in CallsOf(sync)
  BY <1>1 DEF Pending, CallsOf
<1>6. t.lifecycle = sync.lifecycle /\ t.active = sync.active
  BY <1>3 DEF Without, States
<1>7. \/ /\ sync' = t
         /\ t.lifecycle = "closed" \/ t.active["recovery"] # e.token
      \/ /\ sync' = n(decodes) /\ t.lifecycle # "closed"
         /\ t.active["recovery"] = e.token
  BY <1>1, <1>2 DEF Receive, Deliver, Accepts
<1>8. InStep(sync, store) =>
        /\ InStep(t, store) /\ Pending(t) = Pending(sync)
        /\ t.active = sync.active /\ t.recovery = sync.recovery
        /\ t.access = sync.access /\ t.barrier = sync.barrier
        /\ e.token # sync.active["recovery"] => (Waits(sync, store) => Waits(t, store))
  BY <1>5, WithoutInStep
<1>9. ASSUME InStep(sync, store), sync.active["recovery"] = e.token
      PROVE  /\ Pending(t) = {} /\ records = store /\ Awaits(t, e)
             /\ InStep(t, store) /\ t.barrier \in BOOLEAN
             /\ e.kind = "mutate" => t.recovery.kind = "persisting"
                                     /\ t.recovery = Persisting(e.request)
                                     /\ t.recovery.attempt \in AnyAttempt
             /\ e.kind = "reconcile" => t.recovery.kind = "persisting"
                                        /\ t.recovery = Persisting(e.request)
                                        /\ t.recovery.attempt \in AnyAttempt
  <2> HIDE DEF t
  <2>1. records = store /\ \A f \in CallsOf(sync) : f.answer # None
    BY <1>1, <1>5, <1>9 DEF IInv, Nearly, Current
  <2>2. Pending(sync) = {}
    BY <1>9, <2>1, PendingCalls DEF InStep
  <2>3. Awaits(sync, e)
    <3>1. e.token # 0
      BY <1>3, EffectKinds
    <3> QED BY <1>5, <1>9, <3>1 DEF InStep, ActiveIsAwaited
  <2>4. Awaits(t, e)
    BY <1>8, <1>9, <2>3 DEF Awaits
  <2>5. t.barrier \in BOOLEAN /\ InStep(t, store)
    BY <1>8, <1>9 DEF InStep, Formal
  <2>6. e.kind \in {"mutate", "reconcile"} => t.recovery = Persisting(e.request)
    BY <2>4 DEF Awaits
  <2>7. e.kind \in {"mutate", "reconcile"} =>
          t.recovery.kind = "persisting" /\ t.recovery.attempt \in AnyAttempt
    BY <1>4, <2>6 DEF Persisting
  <2> QED BY <1>8, <1>9, <2>1, <2>2, <2>4, <2>5, <2>6, <2>7
<1>10. ASSUME InStep(sync, store), sync.active["recovery"] = e.token
       PROVE  /\ InStep(n(decodes), store)
              /\ Roomy(store) => Waits(n(decodes), store)
  <2> DEFINE z == n(decodes)
  <2>1. \/ z = FailRecovery(t)
        \/ /\ e.kind = "load" /\ z = RecoveryLoaded(t, store)
           /\ t.barrier = FALSE /\ t.access = "loading"
        \/ e.kind = "mutate" /\ z = MutationFinished(t, store, decodes)
        \/ e.kind = "reconcile" /\ z = Reconciled(t, store)
    <3>1. records = store /\ Awaits(t, e) /\ t.barrier \in BOOLEAN
      BY <1>9, <1>10
    <3> HIDE DEF t, records
    <3>2. expects
      BY <1>4, <3>1 DEF Awaits
    <3>3. e.kind = "load" => t.barrier = FALSE /\ t.access = "loading"
      BY <3>1 DEF Awaits
    <3> HIDE DEF expects
    <3> QED BY <1>4, <3>1, <3>2, <3>3
  <2>2. /\ Pending(t) = {} /\ InStep(t, store)
        /\ e.kind = "mutate" => t.recovery.kind = "persisting"
                                /\ t.recovery.attempt \in AnyAttempt
        /\ e.kind = "reconcile" => t.recovery.kind = "persisting"
                                   /\ t.recovery.attempt \in AnyAttempt
    BY <1>9, <1>10
  <2> HIDE DEF z, t
  <2>3. ASSUME t.recovery.kind = "persisting",
               t.recovery.attempt \in AnyAttempt, Roomy(store),
               t.recovery.attempt.discard = None
        PROVE  \/ /\ RecordsPreserve(t.recovery.attempt.expected, store)
                  /\ \/ store = t.recovery.attempt.expected
                     \/ Holds(store, t.recovery.attempt)
               \/ BroughtIn(t.recovery.attempt, store)
    <3>1. \/ store = t.recovery.attempt.expected
          \/ store = After(t.recovery.attempt)
          \/ BroughtIn(t.recovery.attempt, store)
      BY <2>2, <2>3, ChangeIsKnown
    <3> QED BY <2>3, <3>1, RoomPreserves
  <2>4. CASE z = FailRecovery(t)
    BY <2>2, <2>4, FailRecoveryAnswers DEF z
  <2>5. CASE z = RecoveryLoaded(t, store)
             /\ t.barrier = FALSE /\ t.access = "loading"
    BY <2>2, <2>5, RecoveryLoadedSteps DEF z
  <2>6. CASE e.kind = "mutate" /\ z = MutationFinished(t, store, decodes)
    BY <2>2, <2>3, <2>6, MutationFinishedSteps DEF z
  <2>7. CASE e.kind = "reconcile" /\ z = Reconciled(t, store)
    BY <2>2, <2>3, <2>7, ReconciledSteps DEF z
  <2> QED BY <2>1, <2>4, <2>5, <2>6, <2>7
<1> HIDE DEF t, n
<1>11. CASE sync.lifecycle = "closed"
  <2>1. sync'.lifecycle = "closed"
    BY <1>6, <1>7, <1>11
  <2> QED BY <2>1 DEF Told, Attended
<1>12. CASE sync.lifecycle # "closed"
  <2>1. InStep(sync, store)
    BY <1>12 DEF Told
  <2>2. CASE sync' = t /\ t.active["recovery"] # e.token
    BY <1>6, <1>8, <1>12, <2>1, <2>2 DEF Told, Attended
  <2>3. CASE sync' = n(decodes) /\ t.active["recovery"] = e.token
    BY <1>6, <1>10, <2>1, <2>3 DEF Told, Attended
  <2> QED BY <1>6, <1>7, <1>12, <2>2, <2>3
<1> QED BY <1>11, <1>12

-----------------------------------------------------------------------------
(* The steps of the world, and the store.                                  *)

\* An effect that advances or is answered, and what the store may hold by then.
LEMMA AdvanceInStep ==
  ASSUME NEW s, NEW st, InStep(s, st), NEW e \in s.effects, e.answer = None,
         NEW u, u.kind = e.kind, u.op = e.op, u.token = e.token,
         u.kind \in {"load", "mutate", "reconcile"} => u.request = e.request,
         u.kind \in {"mutate", "reconcile"} => u.answer # None,
         NEW r, r = [s EXCEPT !.effects = (s.effects \ {e}) \cup {u}]
  PROVE  /\ InStep(r, st) /\ (Waits(s, st) => Waits(r, st))
         /\ r.recovery = s.recovery
         /\ \A after :
              View(s, after)
              /\ (\A f \in Pending(s) : f.kind = "mutate" => f = e)
              => Echoes(r, after)
<1>1. /\ DOMAIN r = Fields /\ r.active = s.active
      /\ r.access = s.access /\ r.recovery = s.recovery
      /\ r.barrier = s.barrier /\ r.effects = (s.effects \ {e}) \cup {u}
  BY DEF InStep, Formal, Fields
<1>2. IsFiniteSet(r.effects)
  <2>1. IsFiniteSet(s.effects \ {e})
    BY FS_Subset DEF InStep, Formal
  <2> QED BY <1>1, <2>1, FS_AddElement
<1>3. u.op = "recovery" <=> u.kind \in {"load", "mutate", "reconcile"}
  BY DEF InStep, Formal
<1>4. Formal(r)
  BY <1>1, <1>2, <1>3 DEF InStep, Formal
<1>5. Pending(r) \subseteq Pending(s) \ {e}
  BY <1>1 DEF Pending
<1>6. CallsOf(r) \subseteq (CallsOf(s) \ {e}) \cup {u}
  BY <1>1 DEF CallsOf
<1>7. ActiveIsAwaited(r)
  <2>1. ASSUME NEW f \in CallsOf(r), r.active["recovery"] # 0,
               f.token = r.active["recovery"]
        PROVE  Awaits(r, f)
    <3>1. CASE f \in CallsOf(s)
      BY <1>1, <2>1, <3>1 DEF InStep, ActiveIsAwaited, Awaits
    <3>2. CASE f = u
      <4>1. u.op = "recovery" /\ e \in CallsOf(s)
        BY <2>1, <3>2 DEF CallsOf
      <4>2. Awaits(s, e)
        BY <1>1, <2>1, <3>2, <4>1 DEF InStep, ActiveIsAwaited
      <4>3. u.request = e.request
        BY <1>3, <4>1
      <4> QED BY <1>1, <3>2, <4>2, <4>3 DEF Awaits
    <3> QED BY <1>6, <2>1, <3>1, <3>2
  <2> QED BY <2>1 DEF ActiveIsAwaited
<1>8. View(r, st) /\ OutOfStore(r, st) /\ ChangeIsHeld(r)
  BY <1>1 DEF InStep, View, OutOfStore, ChangeIsHeld
<1>9. Requested(r, st)
  BY <1>1, <1>5 DEF InStep, Requested
<1>10. InStep(r, st)
  BY <1>4, <1>7, <1>8, <1>9 DEF InStep
<1>11. ASSUME Waits(s, st) PROVE Waits(r, st)
  <2>1. CASE /\ s.recovery.kind = "persisting" /\ s.access # "failed"
             /\ ~BroughtIn(s.recovery.attempt, st)
    <3>1. PICK f \in CallsOf(s) : f.token = s.active["recovery"]
      BY <1>11, <2>1 DEF Waits
    <3>2. s.active["recovery"] # 0
      BY <1>11, <2>1 DEF Waits
    <3>3. f # e => f \in CallsOf(r)
      BY <1>1 DEF CallsOf
    <3>4. f = e => u \in CallsOf(r)
      BY <1>1 DEF CallsOf
    <3> QED BY <1>1, <3>1, <3>2, <3>3, <3>4 DEF Waits
  <2>2. CASE \/ s.recovery.kind # "persisting" \/ s.access = "failed"
             \/ BroughtIn(s.recovery.attempt, st)
    BY <1>1, <2>2 DEF Waits
  <2> QED BY <2>1, <2>2
<1>12. ASSUME NEW after, View(s, after),
              \A f \in Pending(s) : f.kind = "mutate" => f = e
       PROVE  Echoes(r, after)
  <2>1. View(r, after)
    BY <1>1, <1>12 DEF View
  <2>2. \A f \in Pending(r) : f.kind # "mutate"
    BY <1>5, <1>12
  <2>3. Requested(r, after)
    BY <1>9, <2>2 DEF Requested
  <2> QED BY <1>4, <1>7, <1>8, <2>1, <2>3 DEF Echoes
<1> QED BY <1>1, <1>10, <1>11, <1>12

\* So does one that answers with this.
LEMMA AnsweredInStep ==
  ASSUME NEW s, NEW st, InStep(s, st), NEW e \in s.effects, e \in Effects,
         e.answer = None, NEW answer,
         e.kind \in {"mutate", "reconcile"} => answer # None
  PROVE  LET r == Answered(s, e, answer) IN
         /\ InStep(r, st) /\ (Waits(s, st) => Waits(r, st))
         /\ r.recovery = s.recovery
         /\ \A after :
              View(s, after)
              /\ (\A f \in Pending(s) : f.kind = "mutate" => f = e)
              => Echoes(r, after)
<1> DEFINE u == [e EXCEPT !.answer = answer]
<1>1. /\ u.kind = e.kind /\ u.op = e.op /\ u.token = e.token
      /\ u.request = e.request /\ u.answer = answer
  BY DEF Effects, EffectsOf, Signals, Commits, Reconciliations, Reads,
     RecoveryCalls
<1>2. Answered(s, e, answer) =
        [s EXCEPT !.effects = (s.effects \ {e}) \cup {u}]
  BY DEF Answered
<1> HIDE DEF u
<1> QED BY <1>1, <1>2, AdvanceInStep

\* The monitor notices.
LEMMA NoticeSpares ==
  ASSUME NEW s, Formal(s)
  PROVE  Spares(s, Notice(s))
<1> DEFINE e == Effect("signal", "monitor", s.active["monitor"], None)
<1>1. Notice(s) \in {s, Emit(s, e)}
  BY DEF Notice
<1>2. e.kind = "signal" /\ e.op = "monitor"
  BY DEF Effect
<1> HIDE DEF e
<1> QED BY <1>1, <1>2, EmitSpares, SparesSame

\* What the world does to the effects leaves the lifecycle and the recovery
\* state alone.
LEMMA AnsweredKeepsLifecycle ==
  ASSUME NEW s \in States, NEW e, NEW answer
  PROVE  LET r == Answered(s, e, answer) IN
         r.lifecycle = s.lifecycle /\ r.recovery = s.recovery
BY DEF Answered, States

LEMMA NoticedKeepsLifecycle ==
  ASSUME NEW s \in States, NEW e, NEW answer
  PROVE  LET r == Notice(Answered(s, e, answer)) IN
         r.lifecycle = s.lifecycle /\ r.recovery = s.recovery
BY DEF Answered, Notice, Emit, States

\* The steps of the world change neither the recovery store nor what the
\* document knows of it.
LEMMA WorldKeeps ==
  ASSUME IInv, NEW e \in sync.effects,
         \/ CommitValidates(e) \/ CommitExecutes(e)
         \/ ReconcileCommitExecutes(e) \/ ReadExecutes(e)
  PROVE  /\ store' = store
         /\ sync'.lifecycle = sync.lifecycle
         /\ sync'.recovery = sync.recovery
<1> DEFINE v == [sync EXCEPT !.effects = (sync.effects \ {e})
                   \cup {[e EXCEPT !.request.validated = TRUE]}]
<1>1. sync \in States
  BY DEF IInv, Nearly, Calm, Sound
<1>2. /\ store' = store
      /\ \/ \E answer : \/ sync' = Answered(sync, e, answer)
                        \/ sync' = Notice(Answered(sync, e, answer))
         \/ sync' = v
  <2>1. CASE CommitValidates(e)
    BY <2>1 DEF CommitValidates
  <2>2. CASE CommitExecutes(e)
    BY <2>2 DEF CommitExecutes, CommitReports, UnknownOutcome
  <2>3. CASE ReconcileCommitExecutes(e)
    BY <2>3 DEF ReconcileCommitExecutes
  <2>4. CASE ReadExecutes(e)
    BY <2>4 DEF ReadExecutes
  <2> QED BY <2>1, <2>2, <2>3, <2>4
<1>3. v.lifecycle = sync.lifecycle /\ v.recovery = sync.recovery
  BY <1>1 DEF States
<1> HIDE DEF v
<1> QED BY <1>1, <1>2, <1>3, AnsweredKeepsLifecycle, NoticedKeepsLifecycle

\* The steps of the effects in the world but for the recovery store's.
LEMMA WorldTells ==
  ASSUME IInv, Told(sync, store), NEW e \in sync.effects,
         \/ CommitValidates(e) \/ CommitExecutes(e)
         \/ ReconcileCommitExecutes(e) \/ ReadExecutes(e)
  PROVE  Tells(sync, sync', store)
<1>1. e \in Effects /\ sync \in States
  BY DEF IInv, Nearly, Calm, Sound, States
<1>2. e.answer = None /\ e.kind \in {"commit", "reconcileCommit", "read"}
  BY DEF CommitValidates, CommitExecutes, ReconcileCommitExecutes,
     ReadExecutes
<1> DEFINE u == [e EXCEPT !.request.validated = TRUE]
           v == [sync EXCEPT !.effects = (sync.effects \ {e}) \cup {u}]
<1>3. \/ \E answer : \/ sync' = Answered(sync, e, answer)
                     \/ sync' = Notice(Answered(sync, e, answer))
      \/ sync' = v
  <2>1. CASE CommitValidates(e)
    BY <2>1 DEF CommitValidates
  <2>2. CASE CommitExecutes(e)
    BY <2>2 DEF CommitExecutes, CommitReports, UnknownOutcome
  <2>3. CASE ReconcileCommitExecutes(e)
    BY <2>3 DEF ReconcileCommitExecutes
  <2>4. CASE ReadExecutes(e)
    BY <2>4 DEF ReadExecutes
  <2> QED BY <2>1, <2>2, <2>3, <2>4
<1>4. CASE sync.lifecycle = "closed"
  <2>1. v.lifecycle = sync.lifecycle
    BY <1>1 DEF States
  <2> HIDE DEF v
  <2>2. sync'.lifecycle = "closed"
    BY <1>1, <1>3, <1>4, <2>1, AnsweredKeepsLifecycle, NoticedKeepsLifecycle
  <2> QED BY <2>2 DEF Tells, Told, Attended
<1>5. CASE sync.lifecycle # "closed"
  <2>1. InStep(sync, store)
    BY <1>5 DEF Told
  <2>2. \A answer : Answers(sync, Answered(sync, e, answer), store)
    BY <1>1, <1>2, <2>1, AnsweredInStep DEF Answers
  <2>3. \A answer : Answers(sync, Notice(Answered(sync, e, answer)), store)
    <3>1. TAKE answer
    <3> DEFINE r == Answered(sync, e, answer)
    <3>2. Answers(sync, r, store)
      BY <2>2
    <3> HIDE DEF r
    <3>3. InStep(r, store) /\ Formal(r)
      BY <3>2 DEF Answers, InStep
    <3>4. Answers(r, Notice(r), store)
      BY <3>3, NoticeSpares, SparesAnswers
    <3>5. Answers(sync, Notice(r), store)
      BY <3>2, <3>4, AnswersOn
    <3> QED BY <3>5 DEF r
  <2>4. Answers(sync, v, store)
    <3>1. u.kind = e.kind /\ u.op = e.op /\ u.token = e.token
      BY <1>1 DEF Effects, EffectsOf, Signals, Commits, Reconciliations,
         Reads, RecoveryCalls
    <3> HIDE DEF u
    <3>2. u.kind \notin {"load", "mutate", "reconcile"}
      BY <1>2, <3>1
    <3> QED BY <1>2, <2>1, <3>1, <3>2, AdvanceInStep DEF Answers
  <2>5. Answers(sync, sync', store)
    BY <1>3, <2>2, <2>3, <2>4
  <2> QED BY <1>5, <2>5, AnswersTells
<1> QED BY <1>4, <1>5

\* Displaced bytes are new: they are neither in the store nor in what a change
\* of it expects.
LEMMA WorldBeside ==
  ASSUME IInv, OutOfStore(sync, store), NEW e \in sync.effects,
         \/ CommitValidates(e) \/ CommitExecutes(e)
         \/ ReconcileCommitExecutes(e) \/ ReadExecutes(e)
  PROVE  /\ store' = store
         /\ OutOfStore(sync, store)'
<1>1. sync \in States /\ IsFiniteSet(sync.effects) /\ Stored
  BY DEF IInv, World, Nearly, Calm, Sound
<1>2. store' = store /\ sync'.recovery = sync.recovery
  BY WorldKeeps
<1>3. \/ artifacts' = artifacts
      \/ artifacts' = artifacts \cup
                        {[id |-> FreshEntryID(sync), text |-> file.text]}
  BY DEF CommitValidates, CommitExecutes, CommitReports, NoSwap, Swap,
     DisplacedEntry, ReconcileCommitExecutes, ReadExecutes
<1>4. /\ \A r \in store.raw : r.id # FreshEntryID(sync)
      /\ sync.recovery.kind = "persisting" =>
           \A r \in sync.recovery.attempt.expected.raw :
             r.id # FreshEntryID(sync)
  <2>1. /\ \A r \in RecordSet(store) : r.id # FreshEntryID(sync)
        /\ \A a \in Attempts(sync) :
             \A r \in RecordSet(a.expected) : r.id # FreshEntryID(sync)
    BY <1>1, FreshEntryIsNew
  <2>2. sync.recovery.kind = "persisting" =>
          sync.recovery.attempt \in Attempts(sync)
    BY DEF Attempts
  <2>3. \A records : records.raw \subseteq RecordSet(records)
    BY DEF RecordSet
  <2> HIDE DEF FreshEntryID
  <2> QED BY <2>1, <2>2, <2>3
<1> HIDE DEF FreshEntryID
<1> QED BY <1>2, <1>3, <1>4 DEF OutOfStore, Unfiled

\* An import keeps what became of a change, or hides it.
LEMMA ImportIsKnown ==
  ASSUME Stored, NEW a \in AnyAttempt, Unfiled(a.expected),
         \/ store = a.expected \/ store = After(a) \/ BroughtIn(a, store)
  PROVE  /\ \/ Imported = a.expected \/ Imported = After(a)
            \/ BroughtIn(a, Imported)
         /\ BroughtIn(a, store) => BroughtIn(a, Imported)
<1> DEFINE own == IF a.purpose = "persistDisplacedPreimage"
                  THEN {a.entry} ELSE {}
<1>1. store \in RecordLists /\ a.expected \in RecordLists
  BY AttemptsAreTyped DEF Stored
<1>2. /\ Imported = [decoded |-> store.decoded,
                     raw |-> store.raw \cup artifacts]
      /\ store = [decoded |-> store.decoded, raw |-> store.raw]
      /\ a.expected = [decoded |-> a.expected.decoded,
                       raw |-> a.expected.raw]
  <2>1. \A r \in RecordLists : r = [decoded |-> r.decoded, raw |-> r.raw]
    BY DEF RecordLists
  <2>2. ASSUME NEW r, r = [decoded |-> r.decoded, raw |-> r.raw], NEW S
        PROVE  [r EXCEPT !.raw = S] = [decoded |-> r.decoded, raw |-> S]
    BY <2>2
  <2>3. Imported = [decoded |-> store.decoded,
                    raw |-> store.raw \cup artifacts]
    BY <1>1, <2>1, <2>2 DEF Imported
  <2> QED BY <1>1, <2>1, <2>3
<1>3. BroughtIn(a, store) => BroughtIn(a, Imported)
  BY <1>2 DEF BroughtIn
<1>4. CASE artifacts \subseteq own /\ ~BroughtIn(a, store)
  <2>1. CASE artifacts \subseteq store.raw
    <3>1. Imported = store
      BY <1>2, <2>1
    <3> QED BY <1>4, <3>1
  <2>2. CASE ~(artifacts \subseteq store.raw)
    <3>1. a.purpose = "persistDisplacedPreimage" /\ artifacts = {a.entry}
      BY <1>4, <2>2
    <3>2. After(a) = [a.expected EXCEPT !.raw = @ \cup {a.entry}]
      BY <3>1, AfterIsOne
    <3>3. /\ After(a) = [decoded |-> a.expected.decoded,
                         raw |-> a.expected.raw \cup {a.entry}]
      BY <1>1, <3>2 DEF RecordLists
    <3>4. store # After(a)
      BY <2>2, <3>1, <3>3
    <3> QED BY <1>2, <1>4, <3>1, <3>3, <3>4
  <2> QED BY <2>1, <2>2
<1>5. CASE ~(artifacts \subseteq own)
  <2>1. PICK x \in artifacts : x \notin own
    BY <1>5
  <2>2. x \notin a.expected.raw /\ x \in Imported.raw
    BY <1>2, <2>1 DEF Unfiled
  <2> QED BY <1>3, <2>1, <2>2 DEF BroughtIn
<1> QED BY <1>3, <1>4, <1>5

\* The recovery store carries out a command, or fails to.
LEMMA RecoveryExecutesTells ==
  ASSUME IInv, Told(sync, store), NEW e \in sync.effects, RecoveryExecutes(e)
  PROVE  /\ Told(sync, store)'
         /\ Attended(sync, store) => Attended(sync, store)'
<1> DEFINE records == CASE e.kind = "load" -> store
                        [] e.kind = "mutate" -> Mutated(e.request)
                        [] e.kind = "reconcile" -> Imported
           gone == sync.displaced \ {r.text : r \in
                     ToSet(store.decoded) \ ToSet(records.decoded)}
           known == [sync EXCEPT !.displaced = gone]
           answer == [ok |-> TRUE, records |-> records]
           failure == [ok |-> FALSE, records |-> store]
<1>1. e \in Effects /\ sync \in States /\ Stored
  BY DEF IInv, World, Nearly, Calm, Sound, States
<1>2. e.op = "recovery" /\ e.answer = None /\ IsNext(e)
  BY DEF RecoveryExecutes
<1>3. \/ /\ store' = records /\ artifacts' = artifacts \ records.raw
         /\ sync' = Answered(known, e, answer)
      \/ /\ store' = store /\ artifacts' = artifacts
         /\ sync' = Answered(sync, e, failure)
  BY DEF RecoveryExecutes
<1>4. /\ e.kind \in {"load", "mutate", "reconcile"}
      /\ e.kind # "load" => e.request \in AnyAttempt
  BY <1>1, <1>2, EffectKinds
<1>5. records \in RecordLists /\ store \in RecordLists
  <2>1. e.kind = "mutate" => Mutated(e.request) \in RecordLists
    BY <1>1, <1>4, MutatedIsTyped
  <2> QED BY <1>1, <1>4, <2>1, ImportedIsTyped DEF Stored
<1>6. /\ e.kind = "load" => records = store
      /\ e.kind = "mutate" => records = Mutated(e.request)
      /\ e.kind = "reconcile" => records = Imported
  OBVIOUS
<1> HIDE DEF records
<1>7. answer # None /\ failure # None
  <2>1. answer \in [ok : BOOLEAN, records : RecordLists]
        /\ failure \in [ok : BOOLEAN, records : RecordLists]
    BY <1>5
  <2>2. None \notin [ok : BOOLEAN, records : RecordLists]
    BY AnswerAssumption DEF RecordLists, RawRecords
  <2> QED BY <2>1, <2>2
<1> HIDE DEF answer, failure
<1>8. CASE sync.lifecycle = "closed"
  <2>1. known \in States /\ known.lifecycle = sync.lifecycle
    BY <1>1 DEF States
  <2> HIDE DEF known
  <2>2. sync'.lifecycle = "closed"
    BY <1>1, <1>3, <1>8, <2>1, AnsweredKeepsLifecycle
  <2> QED BY <2>2 DEF Told, Attended
<1>9. CASE sync.lifecycle # "closed"
  <2>1. InStep(sync, store)
    BY <1>9 DEF Told
  <2>2. Spares(sync, known) /\ known.effects = sync.effects
    <3>1. /\ DOMAIN known = Fields /\ known.active = sync.active
          /\ known.effects = sync.effects /\ known.access = sync.access
          /\ known.recovery = sync.recovery
          /\ known.barrier = sync.barrier
      BY <2>1 DEF InStep, Formal, Fields
    <3> HIDE DEF known
    <3>2. Spares(sync, known)
      BY <2>1, <3>1, SparesSet DEF InStep
    <3> QED BY <3>1, <3>2
  <2> HIDE DEF known
  <2>3. /\ InStep(known, store)
        /\ Waits(sync, store) => Waits(known, store)
        /\ known.recovery = sync.recovery
    BY <2>1, <2>2, SparesAnswers DEF Answers, Spares
  <2>4. CASE /\ store' = store /\ artifacts' = artifacts
             /\ sync' = Answered(sync, e, failure)
    <3>1. /\ InStep(sync', store)
          /\ Waits(sync, store) => Waits(sync', store)
      BY <1>1, <1>2, <1>7, <2>1, <2>4, AnsweredInStep
    <3>2. OutOfStore(sync, store)' /\ Echoes(sync, store)'
      BY <2>4, <3>1 DEF InStep, OutOfStore, Unfiled, Echoes
    <3> QED BY <1>9, <2>4, <3>1, <3>2 DEF Told, Attended, InStep, Echoes
  <2>5. CASE /\ store' = records /\ artifacts' = artifacts \ records.raw
             /\ sync' = Answered(known, e, answer)
    <3>1. /\ InStep(sync', store)
          /\ Waits(sync, store) => Waits(sync', store)
          /\ sync'.recovery = sync.recovery
          /\ \A after :
               View(known, after)
               /\ (\A f \in Pending(known) : f.kind = "mutate" => f = e)
               => Echoes(sync', after)
      BY <1>1, <1>2, <1>7, <2>2, <2>3, <2>5, AnsweredInStep
    <3>2. OutOfStore(sync, store)'
      BY <2>1, <2>5, <3>1 DEF InStep, OutOfStore, Unfiled
    <3>3. Echoes(sync', records)
          /\ (Waits(sync', store) => Waits(sync', records))
      <4>1. CASE e.kind = "load"
        BY <1>6, <3>1, <4>1 DEF InStep, Echoes
      <4>2. CASE e.kind = "mutate"
        <5>1. e \in Pending(known)
          BY <1>2, <2>2, <4>2 DEF Pending
        <5>2. /\ sync.recovery = Persisting(e.request)
              /\ e.request.expected = store
              /\ \A f \in Pending(known) : f.kind = "mutate" => f = e
          BY <2>3, <4>2, <5>1 DEF InStep, Requested
        <5>3. /\ sync.recovery.kind = "persisting"
              /\ sync.recovery.attempt = e.request
          BY <5>2 DEF Persisting
        <5>4. records = After(e.request)
          BY <1>4, <1>6, <4>2, <5>2, MutatedIsAfter
        <5>5. View(known, records)
          BY <2>3, <5>3, <5>4 DEF View
        <5>6. ~BroughtIn(e.request, store)
          BY <5>2 DEF BroughtIn
        <5>7. Waits(sync', store) => Waits(sync', records)
          BY <3>1, <5>3, <5>6 DEF Waits
        <5> QED BY <3>1, <5>2, <5>5, <5>7
      <4>3. CASE e.kind = "reconcile"
        <5>1. e \in Pending(known)
          BY <1>2, <2>2, <4>3 DEF Pending
        <5>2. sync.recovery = Persisting(e.request)
          BY <2>3, <5>1 DEF InStep, Requested
        <5>3. /\ sync.recovery.kind = "persisting"
              /\ sync.recovery.attempt = e.request
          BY <5>2 DEF Persisting
        <5>4. \A f \in Pending(known) : f.kind # "mutate"
          <6>1. \A f \in sync.effects : f.kind = "mutate" => f.op = "recovery"
            BY <2>1 DEF InStep, Formal
          <6> QED BY <1>2, <2>2, <4>3, <6>1 DEF Pending, IsNext
        <5>5. /\ Unfiled(e.request.expected)
              /\ \/ store = e.request.expected
                 \/ store = After(e.request)
                 \/ BroughtIn(e.request, store)
          BY <2>1, <5>3 DEF InStep, OutOfStore, View
        <5>6. /\ \/ records = e.request.expected
                 \/ records = After(e.request)
                 \/ BroughtIn(e.request, records)
              /\ BroughtIn(e.request, store) => BroughtIn(e.request, records)
          BY <1>1, <1>4, <1>6, <4>3, <5>5, ImportIsKnown
        <5>7. View(known, records)
          BY <2>3, <5>3, <5>6 DEF View
        <5>8. Waits(sync', store) => Waits(sync', records)
          BY <3>1, <5>3, <5>6 DEF Waits
        <5> QED BY <3>1, <5>4, <5>7, <5>8
      <4> QED BY <1>4, <4>1, <4>2, <4>3
    <3>4. Echoes(sync, store)'
      BY <2>5, <3>3
    <3> QED BY <1>9, <2>5, <3>1, <3>2, <3>3, <3>4
            DEF Told, Attended, InStep, Echoes
  <2> QED BY <1>3, <2>4, <2>5
<1> QED BY <1>8, <1>9

-----------------------------------------------------------------------------
(* The specification, and the store.                                       *)

LEMMA InitTold ==
  ASSUME Init
  PROVE  Told(sync, store) /\ Attended(sync, store)
<1> DEFINE e == Effect("load", "recovery", 1, None)
<1>1. /\ DOMAIN sync = Fields /\ DOMAIN sync.active = Operations
      /\ sync.active["recovery"] = 1 /\ sync.access = "loading"
      /\ sync.recovery = Clear /\ sync.barrier = FALSE
      /\ sync.effects = {e}
  BY DEF Init, Emit, Fields, Operations
<1>2. e.kind = "load" /\ e.op = "recovery"
  BY DEF Effect
<1> HIDE DEF e
<1>3. sync.recovery.kind = "clear"
  BY <1>1 DEF Clear
<1>4. IsFiniteSet(sync.effects)
  BY <1>1, FS_Singleton
<1>5. Formal(sync)
  BY <1>1, <1>2, <1>3, <1>4 DEF Formal
<1>6. Pending(sync) = {}
  BY <1>1, <1>2 DEF Pending
<1>7. ActiveIsAwaited(sync)
  BY <1>1, <1>2 DEF ActiveIsAwaited, Awaits, CallsOf
<1>8. View(sync, store) /\ Requested(sync, store) /\ ChangeIsHeld(sync)
  BY <1>1, <1>3, <1>6 DEF View, Requested, ChangeIsHeld
<1>9. Waits(sync, store)
  BY <1>3 DEF Waits
<1>10. OutOfStore(sync, store)
  BY <1>3 DEF OutOfStore, Unfiled, Init
<1> QED BY <1>5, <1>7, <1>8, <1>9, <1>10 DEF InStep, Told, Attended

\* What has been told of one store is told of the same store.
LEMMA ToldOn ==
  ASSUME Told(sync', store), store' = store,
         sync'.lifecycle = "closed" \/ OutOfStore(sync, store)'
  PROVE  Told(sync, store)'
BY DEF Told, InStep

LEMMA NextTold ==
  ASSUME IInv, Told(sync, store), [Next]_vars
  PROVE  /\ Told(sync, store)'
         /\ Roomy(store) /\ Attended(sync, store) => Attended(sync, store)'
<1>1. ASSUME Tells(sync, sync', store), UNCHANGED <<store, artifacts>>
      PROVE  /\ Told(sync, store)'
             /\ Roomy(store) /\ Attended(sync, store) =>
                  Attended(sync, store)'
  <2>1. Told(sync', store) /\ (Attended(sync, store) => Attended(sync', store))
    BY <1>1 DEF Tells
  <2>2. sync'.lifecycle = "closed" \/ OutOfStore(sync, store)'
    BY <1>1, <2>1 DEF Told, InStep, OutOfStore, Unfiled
  <2>3. Told(sync, store)'
    BY <1>1, <2>1, <2>2, ToldOn
  <2> QED BY <1>1, <2>1, <2>3
<1>2. CASE UserStep \/ HostCloses \/ HostCancels \/ MonitorFails
  <2>1. Tells(sync, sync', store)
    BY <1>2, RequestTells DEF UserStep
  <2>2. UNCHANGED <<store, artifacts>>
    BY <1>2 DEF UserStep, Edit, RequestSave, UserRetries, UserRestores,
       UserDiscardsRaw, UserCloses, HostCloses, HostCancels, MonitorFails,
       WorldUnchanged
  <2> QED BY <1>1, <2>1, <2>2
<1>3. CASE OtherProgram
  <2>1. sync' = Notice(sync) /\ UNCHANGED <<store, artifacts>>
    BY <1>3 DEF OtherProgram, ExternalWrite
  <2>2. sync \in States
    BY DEF IInv, Nearly, Calm, Sound
  <2>3. CASE sync.lifecycle = "closed"
    <3>1. Notice(sync).lifecycle = sync.lifecycle
      BY <2>2 DEF Notice, Emit, States
    <3> QED BY <2>1, <2>3, <3>1 DEF Told, Attended
  <2>4. CASE sync.lifecycle # "closed"
    <3>1. InStep(sync, store) => Formal(sync)
      BY DEF InStep
    <3>2. Tells(sync, sync', store)
      BY <2>1, <2>4, <3>1, NoticeSpares, SparesAnswers, AnswersTells
    <3> QED BY <1>1, <2>1, <3>2
  <2> QED BY <2>3, <2>4
<1>4. CASE ProgramStep
  <2>1. PICK e \in sync.effects :
          \/ Completions(e) \/ CloseDeadline(e)
          \/ CommitValidates(e) \/ CommitExecutes(e)
          \/ ReconcileCommitExecutes(e)
          \/ ReadExecutes(e) \/ RecoveryExecutes(e)
    BY <1>4 DEF ProgramStep
  <2>2. CASE \/ LocalSaveDeadline(e) \/ ExternalReadDeadline(e)
             \/ CloseDeadline(e) \/ MonitorSignal(e) \/ PrepareSave(e)
    <3>1. UNCHANGED <<store, artifacts>>
      BY <2>2 DEF LocalSaveDeadline, ExternalReadDeadline, CloseDeadline,
         MonitorSignal, PrepareSave, Receive, Deliver, WorldUnchanged
    <3> QED BY <1>1, <2>2, <3>1, DeadlineTells
  <2>3. CASE \/ FinishCommit(e) \/ FinishReconciliation(e)
             \/ FinishRead(e) \/ FinishMerge(e)
    <3>1. UNCHANGED <<store, artifacts>>
      BY <2>3 DEF FinishCommit, FinishReconciliation, FinishRead,
         FinishMerge, Receive, Deliver, WorldUnchanged
    <3>2. Tells(sync, sync', store)
      BY <2>3, FinishCommitTells, FinishReconciliationTells, FinishReadTells,
         FinishMergeTells
    <3> QED BY <1>1, <3>1, <3>2
  <2>4. CASE FinishRecovery(e)
    <3>1. UNCHANGED <<store, artifacts>>
      BY <2>4 DEF FinishRecovery, Receive, Deliver, WorldUnchanged
    <3>2. /\ Told(sync', store)
          /\ Roomy(store) /\ Attended(sync, store) => Attended(sync', store)
      BY <2>4, FinishRecoveryTells
    <3>3. sync'.lifecycle = "closed" \/ OutOfStore(sync, store)'
      BY <3>1, <3>2 DEF Told, InStep, OutOfStore, Unfiled
    <3>4. Told(sync, store)'
      BY <3>1, <3>2, <3>3, ToldOn
    <3> QED BY <3>1, <3>2, <3>4
  <2>5. CASE \/ CommitValidates(e) \/ CommitExecutes(e)
             \/ ReconcileCommitExecutes(e) \/ ReadExecutes(e)
    <3>1. Tells(sync, sync', store)
      BY <2>5, WorldTells
    <3>2. sync.lifecycle # "closed" => store' = store /\ OutOfStore(sync, store)'
      BY <2>5, WorldBeside DEF Told, InStep
    <3>3. store' = store
      BY <2>5, WorldKeeps
    <3>4. sync.lifecycle = "closed" => sync'.lifecycle = "closed"
      BY <2>5, WorldKeeps
    <3>5. Told(sync, store)'
      BY <3>1, <3>2, <3>3, <3>4, ToldOn DEF Tells
    <3> QED BY <3>1, <3>3, <3>5 DEF Tells
  <2>6. CASE RecoveryExecutes(e)
    BY <2>6, RecoveryExecutesTells
  <2> QED BY <2>1, <2>2, <2>3, <2>4, <2>5, <2>6 DEF Completions
<1>5. CASE UNCHANGED vars
  <2>1. Tells(sync, sync', store) /\ UNCHANGED <<store, artifacts>>
    BY <1>5, TellsSame DEF vars
  <2> QED BY <1>1, <2>1
<1> QED BY <1>2, <1>3, <1>4, <1>5 DEF Next

LEMMA ToldHolds == Spec => []Told(sync, store)
<1>1. IInv /\ Told(sync, store) /\ [Next]_vars => Told(sync, store)'
  BY NextTold
<1>2. Init => Told(sync, store)
  BY InitTold
<1> QED BY <1>1, <1>2, InvariantHolds, PTL DEF Spec

\* Until a document is closed, the reducer is in step with the recovery store:
\* it knows the records that are stored, and what it asks for is asked of
\* them.
THEOREM StoreIsKnown == Spec => []RecordsAreKnown
<1>1. Told(sync, store) => RecordsAreKnown
  <2> SUFFICES ASSUME Told(sync, store), sync.lifecycle # "closed"
               PROVE  RecordsAreKnown
    BY DEF RecordsAreKnown
  <2>1. InStep(sync, store)
    BY DEF Told
  <2>2. \A e \in Outstanding("mutate") : e.answer = None =>
          e.request.expected = store /\ sync.recovery = Persisting(e.request)
    BY <2>1 DEF Outstanding, Pending, InStep, Requested
  <2> QED BY <2>1, <2>2 DEF InStep, View, RecordsAreKnown
<1> QED BY <1>1, ToldHolds, PTL

\* While the list of snapshots has room, the operation that a recovery waits
\* for has a command in the store, or the store has failed, or an import has
\* brought in what the operation does not expect.
THEOREM ChangesAreAttended ==
  Spec /\ [](Len(store.decoded) < EntryLimit) => []PersistingIsUnderWay
<1>1. /\ IInv /\ Told(sync, store) /\ Attended(sync, store)
      /\ Len(store.decoded) < EntryLimit /\ [Next]_vars
      => Attended(sync, store)'
  BY NextTold DEF Roomy
<1>2. Init => Attended(sync, store)
  BY InitTold
<1>3. Told(sync, store) /\ Attended(sync, store) => PersistingIsUnderWay
  <2> SUFFICES ASSUME Told(sync, store), Attended(sync, store),
                      sync.lifecycle # "closed", sync.access # "failed",
                      sync.recovery.kind = "persisting",
                      ~BroughtIn(sync.recovery.attempt, store)
               PROVE  Outstanding("mutate") \cup Outstanding("reconcile") # {}
    BY DEF PersistingIsUnderWay
  <2>1. InStep(sync, store) /\ Waits(sync, store)
    BY DEF Told, Attended
  <2>2. PICK e \in CallsOf(sync) : e.token = sync.active["recovery"]
    BY <2>1 DEF Waits
  <2>3. Awaits(sync, e)
    BY <2>1, <2>2 DEF Waits, InStep, ActiveIsAwaited
  <2>4. e.kind # "load"
    BY <2>1, <2>3 DEF InStep, ChangeIsHeld, Awaits
  <2>5. e \in sync.effects /\ e.kind \in {"mutate", "reconcile"}
    BY <2>3, <2>4 DEF CallsOf, Awaits
  <2> QED BY <2>5 DEF Outstanding
<1> QED BY <1>1, <1>2, <1>3, ToldHolds, InvariantHolds, PTL DEF Spec
=============================================================================
