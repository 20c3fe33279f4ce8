-------------------------- MODULE DocumentSyncProofs --------------------------
(***************************************************************************)
(* What DocumentSync keeps for every text, bound, failure and order of     *)
(* answers.  The handlers are operators from states to states, so there is *)
(* one lemma per operator, which says how the state it returns is related  *)
(* to the one it is given; the relation is transitive, and the lemmas of   *)
(* the handlers follow from those of the operators they call.              *)
(***************************************************************************)
EXTENDS DocumentSync, FiniteSetTheorems, WellFoundedInduction, TLAPS

-----------------------------------------------------------------------------
(* The types of the state and of what an effect asks and answers.          *)

Durables == [number : Nat, text : Texts, inode : Nat]
Files == [text : Texts, inode : Nat]
RawRecords == {raw \in SUBSET Entries : IsFiniteSet(raw)}
RecordLists == [decoded : Seq(Entries), raw : RawRecords]

DiscardPurposes == {"discardRaw", "discardRestoredRecords",
                    "discardResolvedDisplacedPreimage"}

Plans == [target : DiscardTargets, purpose : DiscardPurposes, min : Nat]
Cleanups == [records : RecordLists, target : DiscardTargets,
             purpose : DiscardPurposes, min : Nat]

Continuations ==
  [id : Nat, text : Texts, mergeBase : Texts, localRev : Revisions,
   pre : Durables, committed : Durables]

ConflictAttempts ==
  [token : Nat, purpose : {"persistConflict"}, expected : RecordLists,
   entry : Entries, discard : {None}, cleanup : Plans \cup {None},
   continuation : {None}]

DisplacedAttempts ==
  [token : Nat, purpose : {"persistDisplacedPreimage"},
   expected : RecordLists, entry : Entries, discard : {None},
   cleanup : {None}, continuation : Continuations]

DiscardAttempts ==
  [token : Nat, purpose : DiscardPurposes, expected : RecordLists,
   entry : {None}, discard : DiscardTargets, cleanup : {None},
   continuation : {None}]

AnyAttempt == ConflictAttempts \cup DisplacedAttempts \cup DiscardAttempts

LocalStates ==
  {Clean} \cup [kind : {"dirty"}, token : Nat]
    \cup [kind : {"preparing", "writing"}, token : Nat \ {0},
          rev : Revisions, expected : Durables]

ExternalStates ==
  {Idle} \cup [kind : {"debouncing", "reading"}, token : Nat,
               expected : Durables]

RecoveryStates ==
  {Clear} \cup [kind : {"available"}, records : RecordLists]
    \cup [kind : {"persisting"}, attempt : AnyAttempt]

Origins ==
  [records : RecordLists, target : DiscardTargets,
   continuation : Continuations]

Merges ==
  [token : Nat, baseline : Durables, base : Texts, local : Revisions,
   external : Files, origin : Origins \cup {None}]

Uncertains ==
  [token : Nat \ {0}, reconciliation : Nat, rev : Revisions,
   expected : Durables]

EffectsOf(kinds, op, requests, answers) ==
  [kind : kinds, op : {op}, token : Nat \ {0}, request : requests,
   answer : answers \cup {None}]

\* Effects that ask and answer nothing but that they are done.
Signals ==
  EffectsOf({"localSaveDeadline", "prepareSave"}, "savePreparation",
            {None}, {None})
  \cup EffectsOf({"externalReadDeadline"}, "externalRead", {None}, {None})
  \cup EffectsOf({"closeDeadline"}, "close", {None}, {None})
  \cup EffectsOf({"merge"}, "merge", {None}, {None})
  \cup EffectsOf({"signal"}, "monitor", {None}, {None})

CommitOutcomes == {"committed", "unknown", "notStarted", "requiresSaveAs",
                   "targetChanged"}

Commits ==
  EffectsOf({"commit"}, "saveCommit",
            [rev : Revisions, validated : BOOLEAN, expected : Durables],
            [outcome : CommitOutcomes, displaced : Entries \cup {None},
             inode : Nat])

Reconciliations ==
  EffectsOf({"reconcileCommit"}, "commitReconciliation",
            [original : Nat, rev : Revisions, expected : Durables],
            [outcome : {"committed", "notCommitted", "unresolved"},
             displaced : Entries \cup {None}, inode : Nat])

ReadAnswers ==
  [outcome : {"failed", "missing", "unchanged"}, file : Files \cup {None}]
    \cup [outcome : {"changed"}, file : Files]

Reads ==
  EffectsOf({"read"}, "externalRead", [expected : Durables], ReadAnswers)

StoreAnswers == [ok : BOOLEAN, records : RecordLists]

RecoveryCalls ==
  EffectsOf({"load"}, "recovery", {None}, StoreAnswers)
    \cup EffectsOf({"mutate", "reconcile"}, "recovery", AnyAttempt,
                   StoreAnswers)

Effects == Signals \cup Commits \cup Reconciliations \cup Reads
             \cup RecoveryCalls

States ==
  [lifecycle : {"active", "closing", "allowed", "closed"},
   source : Revisions, baseline : Durables,
   local : LocalStates, external : ExternalStates,
   merge : Merges \cup {None}, signalPending : BOOLEAN,
   access : {"loading", "ready", "failed"}, recovery : RecoveryStates,
   barrier : BOOLEAN, cleanup : Cleanups \cup {None},
   uncertain : Uncertains \cup {None},
   pendingConflict : Texts \cup {None},
   pendingDisplaced : Continuations \cup {None},
   unresolvedDisplaced : Continuations \cup {None},
   issue : Failures \cup {None}, active : [Operations -> Nat],
   effects : SUBSET Effects, displaced : SUBSET Texts]

-----------------------------------------------------------------------------
(* Fresh numbers.                                                          *)

\* A set of naturals that is not empty has a least element.
LEMMA LeastNumber ==
  ASSUME NEW T, T \subseteq Nat, T # {}
  PROVE  Min(T) \in T
<1> DEFINE less == {ss \in Nat \X Nat : ss[1] < ss[2]}
<1>1. IsWellFoundedOn(less, Nat)
  BY NatLessThanWellFounded DEF OpToRel
<1>2. PICK x \in T : \A y \in T : <<y, x>> \notin less
  BY <1>1, WFMin
<1>3. ASSUME NEW y \in T
      PROVE  x =< y
  <2>1. <<y, x>> \in Nat \X Nat /\ ~(y < x)
    BY <1>2
  <2> QED BY <2>1
<1> QED BY <1>3 DEF Min

\* The image of the tokens of finitely many effects is finite; among the first
\* n + 1 numbers one is not among n.
LEMMA FreshNumber ==
  ASSUME NEW used, IsFiniteSet(used)
  PROVE  LET n == Min((1 .. Cardinality(used) + 1) \ used) IN
         n \in Nat \ {0} /\ n \notin used
<1> DEFINE first == 1 .. Cardinality(used) + 1
<1>1. Cardinality(used) \in Nat
  BY FS_CardinalityType
<1>2. IsFiniteSet(first) /\ Cardinality(first) = Cardinality(used) + 1
  BY <1>1, FS_Interval
<1>3. ~(first \subseteq used)
  BY <1>1, <1>2, FS_Subset
<1>4. first \ used # {} /\ first \ used \subseteq Nat
  BY <1>3
<1>5. Min(first \ used) \in first \ used
  BY <1>4, LeastNumber
<1> QED BY <1>1, <1>5

\* The image of a finite set under a function is finite.
LEMMA FiniteImage ==
  ASSUME NEW S, NEW f, IsFiniteSet(S)
  PROVE  IsFiniteSet({f[x] : x \in S})
<1> DEFINE g == [x \in S |-> f[x]]
           T == {f[x] : x \in S}
<1>1. g \in Surjection(S, T)
  BY DEF Surjection
<1> QED BY <1>1, FS_Surjection

\* A fresh token is no number that means no token, and no effect of the
\* operation carries it.
LEMMA FreshTokenIsNew ==
  ASSUME NEW s, IsFiniteSet(s.effects), NEW op
  PROVE  /\ FreshToken(s, op) \in Nat \ {0}
         /\ \A e \in s.effects : e.op = op => e.token # FreshToken(s, op)
<1> DEFINE own == {f \in s.effects : f.op = op}
           token == [e \in own |-> e.token]
           tokens == {e.token : e \in own}
<1>1. IsFiniteSet(own)
  BY FS_Subset
<1>2. tokens = {token[e] : e \in own}
  OBVIOUS
<1>3. IsFiniteSet(tokens)
  <2> HIDE DEF own, token
  <2>1. IsFiniteSet({token[e] : e \in own})
    BY <1>1, FiniteImage
  <2> HIDE DEF tokens
  <2> QED BY <1>2, <2>1
<1>4. \A x : IsFiniteSet({x}) /\ IsFiniteSet({})
  BY FS_Singleton, FS_EmptySet
<1>5. IsFiniteSet(UsedTokens(s, op)) /\ tokens \subseteq UsedTokens(s, op)
  <2>1. IsFiniteSet({s.active[op]} \cup tokens)
    BY <1>3, <1>4, FS_Union
  <2>2. IsFiniteSet({s.active[op]} \cup tokens
          \cup (IF op = "saveCommit" /\ s.uncertain # None
                THEN {s.uncertain.token} ELSE {}))
    BY <2>1, <1>4, FS_Union
  <2> QED BY <2>2, <1>4, FS_Union DEF UsedTokens
<1> QED BY <1>5, FreshNumber DEF FreshToken

-----------------------------------------------------------------------------
(* What holds of every state, and how a handler changes it.                *)

\* A local state that is writing owns the commit; one that has a token is
\* that of a document that is not about to close; an active merge is there.
Sound(s) ==
  /\ s \in States
  /\ IsFiniteSet(s.effects)
  /\ s.local.kind = "writing" => s.active["saveCommit"] = s.local.token
  /\ s.local # Clean /\ s.local.token # 0 =>
       s.lifecycle \in {"active", "closing"}
  /\ s.active["merge"] # 0 => s.merge \in Merges

Conflicting(s) ==
  /\ s.recovery.kind = "persisting"
  /\ s.recovery.attempt.purpose = "persistConflict"

\* A conflict waits for the operation that stores its text.
Owned(s) ==
  s.pendingConflict # None =>
    /\ Conflicting(s) /\ s.active["recovery"] # 0
    /\ s.access = "ready" /\ ~s.barrier

\* The operation that stores a conflict stores the text that is held, and
\* while it does, or while none is held, a read or a merge may be under way.
ConflictIsOwned(s) ==
  /\ Conflicting(s) => s.pendingConflict = s.recovery.attempt.entry.text
  /\ s.merge # None \/ s.external # Idle => Owned(s)

Calm(s) == Sound(s) /\ ConflictIsOwned(s)

CommitsOf(s) == {e \in s.effects : e.kind = "commit"}
CallsOf(s) == {e \in s.effects : e.op = "recovery"}

\* Calls of the recovery store are not taken back, the new ones have tokens of
\* their own, and the active one is new if there are any.
CallsGrow(s, r) ==
  /\ CallsOf(s) \subseteq CallsOf(r)
  /\ \A e \in CallsOf(r) \ CallsOf(s) :
       /\ e.answer = None
       /\ \A f \in CallsOf(r) : f.token = e.token => f = e
  /\ \/ r.active["recovery"] = 0
     \/ /\ CallsOf(r) = CallsOf(s)
        /\ r.active["recovery"] = s.active["recovery"]
     \/ \E e \in CallsOf(r) \ CallsOf(s) : e.token = r.active["recovery"]

\* No handler but the one that starts a commit makes the local state writing
\* or touches a commit, and a text that is held stays held.
Leads(s, r) ==
  /\ CommitsOf(r) = CommitsOf(s)
  /\ r.local.kind = "writing" => r.local = s.local
  /\ s.pendingConflict # None => r.pendingConflict = s.pendingConflict
  /\ CallsGrow(s, r)

Reacts(s, r) == Calm(r) /\ Leads(s, r)

\* Reactions compose.
LEMMA LeadsOn ==
  ASSUME NEW s, NEW t, NEW r, Leads(s, t), Leads(t, r)
  PROVE  Leads(s, r)
<1>1. /\ CommitsOf(r) = CommitsOf(s)
      /\ r.local.kind = "writing" => r.local = s.local
      /\ s.pendingConflict # None => r.pendingConflict = s.pendingConflict
  BY DEF Leads
<1>2. CallsGrow(s, t) /\ CallsGrow(t, r)
  BY DEF Leads
<1>3. CallsGrow(s, r)
  BY <1>2 DEF CallsGrow
<1> QED BY <1>1, <1>3 DEF Leads

\* A calm state that leads on from a reaction is a reaction.
LEMMA ReactsOn ==
  ASSUME NEW s, NEW t, NEW r, Reacts(s, t), Reacts(t, r)
  PROVE  Reacts(s, r)
BY LeadsOn DEF Reacts

\* Changes that concern neither commits, merges nor recovery.
LEMMA Aside ==
  ASSUME NEW s, NEW r, Calm(s), r \in States,
         r.lifecycle = s.lifecycle, r.local = s.local,
         r.external = s.external, r.merge = s.merge, r.access = s.access,
         r.recovery = s.recovery, r.barrier = s.barrier,
         r.pendingConflict = s.pendingConflict, r.active = s.active,
         r.effects = s.effects
  PROVE  Reacts(s, r)
BY DEF Calm, Sound, ConflictIsOwned, Owned, Conflicting, Reacts, Leads,
       CallsGrow, CallsOf, CommitsOf

\* The handlers that ignore an event.
LEMMA Nothing ==
  ASSUME NEW s, Calm(s)
  PROVE  Reacts(s, s)
BY Aside DEF Calm, Sound

-----------------------------------------------------------------------------
(* Tokens, effects and deadlines.                                          *)

\* The kind of an effect tells its operation.
LEMMA EffectKinds ==
  ASSUME NEW e \in Effects
  PROVE  /\ e.op = "recovery" <=> e.kind \in {"load", "mutate", "reconcile"}
         /\ e.kind = "commit" <=> e.op = "saveCommit"
         /\ e.op \in Operations /\ e.token \in Nat \ {0}
         /\ e.kind \in {"mutate", "reconcile"} => e.request \in AnyAttempt
BY DEF Effects, EffectsOf, Signals, Commits, Reconciliations, Reads,
       RecoveryCalls, Operations

\* An operation that is no longer active.
LEMMA DeactivateReacts ==
  ASSUME NEW s, Calm(s), NEW op \in Operations \ {"recovery", "saveCommit"}
  PROVE  Reacts(s, Deactivate(s, op))
<1> DEFINE r == Deactivate(s, op)
<1>1. r \in States
  BY DEF Calm, Sound, States, Deactivate
<1> QED
  BY <1>1 DEF Calm, Sound, ConflictIsOwned, Owned, Conflicting, Reacts, Leads,
       CallsGrow, CallsOf, CommitsOf, Deactivate, States, Operations

\* Deadlines and computations are cancelled, commits and calls of the
\* recovery store are not.
LEMMA CancelReacts ==
  ASSUME NEW s, Calm(s), NEW op, NEW token
  PROVE  Reacts(s, Cancel(s, op, token))
<1> DEFINE r == Cancel(s, op, token)
<1>1. r \in States
  BY DEF Calm, Sound, States, Cancel
<1>2. r.effects \subseteq s.effects /\ IsFiniteSet(r.effects)
  <2>1. r.effects \subseteq s.effects
    BY DEF Calm, Sound, States, Cancel
  <2> QED BY <2>1, FS_Subset DEF Calm, Sound
<1>3. CommitsOf(r) = CommitsOf(s) /\ CallsOf(r) = CallsOf(s)
  BY EffectKinds DEF Calm, Sound, States, Cancel, CommitsOf, CallsOf, Deadlines
<1>4. /\ r.lifecycle = s.lifecycle /\ r.local = s.local
      /\ r.external = s.external /\ r.merge = s.merge
      /\ r.access = s.access /\ r.recovery = s.recovery
      /\ r.barrier = s.barrier /\ r.active = s.active
      /\ r.pendingConflict = s.pendingConflict
  BY DEF Calm, Sound, States, Cancel
<1> HIDE DEF r
<1>5. Calm(r)
  BY <1>1, <1>2, <1>4 DEF Calm, Sound, ConflictIsOwned, Owned, Conflicting
<1>6. Leads(s, r)
  BY <1>3, <1>4 DEF Leads, CallsGrow
<1> QED BY <1>5, <1>6 DEF Reacts, r

\* A cancelled deadline is a deadline: no commit and no call of the store.
LEMMA CancelAllDeadlinesReacts ==
  ASSUME NEW s, Calm(s)
  PROVE  Reacts(s, CancelAllDeadlines(s))
<1> DEFINE r == CancelAllDeadlines(s)
<1>1. r \in States
  BY DEF Calm, Sound, States, CancelAllDeadlines
<1>2. r.effects \subseteq s.effects /\ IsFiniteSet(r.effects)
  <2>1. r.effects \subseteq s.effects
    BY DEF Calm, Sound, States, CancelAllDeadlines
  <2> QED BY <2>1, FS_Subset DEF Calm, Sound
<1>3. CommitsOf(r) = CommitsOf(s) /\ CallsOf(r) = CallsOf(s)
  BY EffectKinds DEF Calm, Sound, States, CancelAllDeadlines, CommitsOf,
     CallsOf, Deadlines
<1>4. /\ r.lifecycle = s.lifecycle /\ r.local = s.local
      /\ r.external = s.external /\ r.merge = s.merge
      /\ r.access = s.access /\ r.recovery = s.recovery
      /\ r.barrier = s.barrier /\ r.active = s.active
      /\ r.pendingConflict = s.pendingConflict
  BY DEF Calm, Sound, States, CancelAllDeadlines
<1> HIDE DEF r
<1>5. Calm(r)
  BY <1>1, <1>2, <1>4 DEF Calm, Sound, ConflictIsOwned, Owned, Conflicting
<1>6. Leads(s, r)
  BY <1>3, <1>4 DEF Leads, CallsGrow
<1> QED BY <1>5, <1>6 DEF Reacts, r

\* A new effect that is neither a commit nor a call of the recovery store.
LEMMA EmitReacts ==
  ASSUME NEW s, Calm(s), NEW e \in Effects,
         e.kind # "commit", e.op # "recovery"
  PROVE  Reacts(s, Emit(s, e))
<1> DEFINE r == Emit(s, e)
<1>1. r \in States
  BY DEF Calm, Sound, States, Emit
<1>2. IsFiniteSet(r.effects)
  BY FS_AddElement DEF Calm, Sound, States, Emit
<1>3. CommitsOf(r) = CommitsOf(s) /\ CallsOf(r) = CallsOf(s)
  BY DEF Calm, Sound, States, Emit, CommitsOf, CallsOf
<1>4. /\ r.lifecycle = s.lifecycle /\ r.local = s.local
      /\ r.external = s.external /\ r.merge = s.merge
      /\ r.access = s.access /\ r.recovery = s.recovery
      /\ r.barrier = s.barrier /\ r.active = s.active
      /\ r.pendingConflict = s.pendingConflict
  BY DEF Calm, Sound, States, Emit
<1> HIDE DEF r
<1>5. Calm(r)
  BY <1>1, <1>2, <1>4 DEF Calm, Sound, ConflictIsOwned, Owned, Conflicting
<1>6. Leads(s, r)
  BY <1>3, <1>4 DEF Leads, CallsGrow
<1> QED BY <1>5, <1>6 DEF Reacts, r

\* An operation that takes a new token; a merge, a commit and a call of the
\* recovery store need more.
LEMMA StartReacts ==
  ASSUME NEW s, Calm(s), NEW kind, NEW request,
         NEW op \in Operations \ {"recovery", "saveCommit", "merge"},
         \A t \in Nat \ {0} : Effect(kind, op, t, request) \in Effects
  PROVE  /\ Reacts(s, Start(s, kind, op, request))
         /\ Start(s, kind, op, request).active[op] \in Nat \ {0}
<1> DEFINE t == FreshToken(s, op)
           r == [s EXCEPT !.active[op] = t]
           e == Effect(kind, op, t, request)
<1>1. t \in Nat \ {0}
  BY FreshTokenIsNew DEF Calm, Sound
<1> HIDE DEF t
<1>2. r \in States
  BY <1>1 DEF Calm, Sound, States
<1>3. Reacts(s, r)
  BY <1>2 DEF Calm, Sound, ConflictIsOwned, Owned, Conflicting, Reacts, Leads,
     CallsGrow, CallsOf, CommitsOf, States, Operations
<1>4. e \in Effects /\ e.op = op
  BY <1>1 DEF Effect
<1>5. e.kind # "commit" /\ e.op # "recovery"
  BY <1>4, EffectKinds
<1>6. r.active[op] = t /\ Start(s, kind, op, request) = Emit(r, e)
  BY DEF Start, t, Calm, Sound, States
<1> HIDE DEF r, e
<1>7. Reacts(r, Emit(r, e))
  BY <1>3, <1>4, <1>5, EmitReacts DEF Reacts
<1>8. Emit(r, e).active = r.active
  BY <1>2 DEF Emit, States
<1> QED BY <1>1, <1>3, <1>6, <1>7, <1>8, ReactsOn

\* The delay before a save: only a document that is being edited gets one.
LEMMA ScheduleLocalSaveReacts ==
  ASSUME NEW s, Calm(s)
  PROVE  Reacts(s, ScheduleLocalSave(s))
<1> DEFINE r == Start(s, "localSaveDeadline", "savePreparation", None)
           t == r.active["savePreparation"]
           q == [r EXCEPT !.local = Dirty(t)]
<1>1. /\ "savePreparation" \in Operations \ {"recovery", "saveCommit", "merge"}
      /\ \A n \in Nat \ {0} :
           Effect("localSaveDeadline", "savePreparation", n, None) \in Effects
  BY DEF Operations, Effect, Effects, Signals, EffectsOf
<1>2. Reacts(s, r) /\ t \in Nat \ {0}
  BY <1>1, StartReacts
<1>3. r.lifecycle = s.lifecycle
  BY DEF Start, Emit, Calm, Sound, States
<1> HIDE DEF r
<1>4. CASE CanScheduleLocalSave(s) /\ s.local = Dirty(0)
  <2>1. r.lifecycle \in {"active", "closing"}
    BY <1>3, <1>4 DEF CanScheduleLocalSave, CanCoordinate,
       CanAcceptSourceChanges
  <2>2. q \in States
    BY <1>2 DEF Reacts, Calm, Sound, States, LocalStates, Dirty
  <2>3. Reacts(r, q)
    BY <1>2, <2>1, <2>2 DEF Calm, Sound, ConflictIsOwned, Owned, Conflicting,
       Reacts, Leads, CallsGrow, CallsOf, CommitsOf, States, Dirty
  <2> HIDE DEF q
  <2>4. Reacts(s, q)
    BY <1>2, <2>3, ReactsOn
  <2> QED BY <1>4, <2>4 DEF ScheduleLocalSave, r, q
<1>5. CASE ~(CanScheduleLocalSave(s) /\ s.local = Dirty(0))
  BY <1>5, Nothing DEF ScheduleLocalSave
<1> QED BY <1>4, <1>5

\* The delay before a read: none while a conflict is held.
LEMMA ScheduleExternalReadReacts ==
  ASSUME NEW s, Calm(s)
  PROVE  Reacts(s, ScheduleExternalRead(s))
<1> DEFINE r == Start(s, "externalReadDeadline", "externalRead", None)
           t == r.active["externalRead"]
           q == [r EXCEPT !.external = [kind |-> "debouncing", token |-> t,
                                        expected |-> s.baseline],
                          !.signalPending = FALSE]
<1>1. /\ "externalRead" \in Operations \ {"recovery", "saveCommit", "merge"}
      /\ \A n \in Nat \ {0} :
           Effect("externalReadDeadline", "externalRead", n, None) \in Effects
  BY DEF Operations, Effect, Effects, Signals, EffectsOf
<1>2. Reacts(s, r) /\ t \in Nat \ {0}
  BY <1>1, StartReacts
<1>3. r.pendingConflict = s.pendingConflict /\ s.baseline \in Durables
  BY DEF Start, Emit, Calm, Sound, States
<1> HIDE DEF r
<1>4. CASE CanScheduleExternalRead(s) /\ s.external = Idle /\ s.merge = None
  <2>1. r.pendingConflict = None
    BY <1>3, <1>4 DEF CanScheduleExternalRead, NothingUndecided
  <2>2. q \in States
    <3>1. [kind |-> "debouncing", token |-> t, expected |-> s.baseline]
            \in ExternalStates
      BY <1>2, <1>3 DEF ExternalStates
    <3>2. ASSUME NEW x \in ExternalStates
          PROVE  [r EXCEPT !.external = x, !.signalPending = FALSE] \in States
      <4>1. r \in States
        BY <1>2 DEF Reacts, Calm, Sound
      <4> QED BY <4>1 DEF States
    <3> QED BY <3>1, <3>2
  <2>3. Reacts(r, q)
    BY <1>2, <2>1, <2>2 DEF Calm, Sound, ConflictIsOwned, Owned, Conflicting,
       Reacts, Leads, CallsGrow, CallsOf, CommitsOf, States
  <2> HIDE DEF q
  <2>4. Reacts(s, q)
    BY <1>2, <2>3, ReactsOn
  <2> QED BY <1>4, <2>4 DEF ScheduleExternalRead, r, q
<1>5. CASE ~(CanScheduleExternalRead(s) /\ s.external = Idle
             /\ s.merge = None)
  <2> DEFINE p == [s EXCEPT !.signalPending = TRUE]
  <2>1. Reacts(s, p)
    <3>1. p \in States
      BY DEF Calm, Sound, States
    <3> QED BY <3>1, Aside DEF Calm, Sound, States
  <2> QED BY <1>5, <2>1 DEF ScheduleExternalRead
<1> QED BY <1>4, <1>5

\* A local state that needs no commit.
LEMMA DirtyReacts ==
  ASSUME NEW s, Calm(s)
  PROVE  Reacts(s, [s EXCEPT !.local = Dirty(0)])
<1> DEFINE r == [s EXCEPT !.local = Dirty(0)]
<1>1. r \in States
  BY DEF Calm, Sound, States, LocalStates, Dirty
<1> QED
  BY <1>1 DEF Calm, Sound, ConflictIsOwned, Owned, Conflicting, Reacts, Leads,
     CallsGrow, CallsOf, CommitsOf, States, Dirty

\* A save whose snapshot is not taken yet is given up: no commit runs.
LEMMA InvalidatePreparationReacts ==
  ASSUME NEW s, Calm(s)
  PROVE  Reacts(s, InvalidatePreparation(s))
<1> DEFINE r == Deactivate(s, "savePreparation")
           q == Cancel(r, "savePreparation", s.local.token)
<1>1. Reacts(s, r)
  BY DeactivateReacts DEF Operations
<1> HIDE DEF r
<1>2. Reacts(r, q)
  BY <1>1, CancelReacts DEF Reacts
<1> HIDE DEF q
<1>3. Reacts(q, [q EXCEPT !.local = Dirty(0)])
  BY <1>2, DirtyReacts DEF Reacts
<1>4. Reacts(s, [q EXCEPT !.local = Dirty(0)])
  BY <1>1, <1>2, <1>3, ReactsOn
<1> QED BY <1>4, Nothing DEF InvalidatePreparation, r, q

\* A signal that is kept for later.
LEMMA SignalIsKept ==
  ASSUME NEW s \in States
  PROVE  [s EXCEPT !.signalPending = TRUE] \in States
BY DEF States

\* A merge that is given up puts its displaced bytes back as unresolved.
LEMMA InvalidateMergeReacts ==
  ASSUME NEW s, Calm(s)
  PROVE  Reacts(s, InvalidateMerge(s))
<1>1. CASE s.merge = None
  BY <1>1, Nothing DEF InvalidateMerge
<1>2. CASE s.merge # None
  <2> DEFINE c == s.merge.origin.continuation
             r == IF s.merge.origin = None THEN s
                  ELSE [s EXCEPT !.unresolvedDisplaced = c,
                                 !.issue = "recovery"]
             q == Deactivate(r, "merge")
             p == Cancel(q, "merge", s.merge.token)
             o == [p EXCEPT !.merge = None, !.signalPending = TRUE]
  <2>1. s.merge.origin # None => c \in Continuations
    BY <1>2 DEF Calm, Sound, States, Merges, Origins
  <2>2. r \in States
    <3>1. "recovery" \in Failures
      BY DEF Failures
    <3>2. ASSUME NEW d \in Continuations
          PROVE  [s EXCEPT !.unresolvedDisplaced = d,
                           !.issue = "recovery"] \in States
      BY <3>1 DEF Calm, Sound, States
    <3> QED BY <2>1, <3>2 DEF Calm, Sound
  <2>3. Reacts(s, r)
    <3>1. /\ r.lifecycle = s.lifecycle /\ r.local = s.local
          /\ r.external = s.external /\ r.merge = s.merge
          /\ r.access = s.access /\ r.recovery = s.recovery
          /\ r.barrier = s.barrier /\ r.active = s.active
          /\ r.pendingConflict = s.pendingConflict
          /\ r.effects = s.effects
      BY DEF Calm, Sound, States
    <3> HIDE DEF r
    <3> QED BY <2>2, <3>1, Aside
  <2> HIDE DEF r
  <2>4. Reacts(r, q)
    BY <2>3, DeactivateReacts DEF Reacts, Operations
  <2>5. q.active["merge"] = 0
    BY <2>2 DEF Deactivate, States, Operations
  <2> HIDE DEF q
  <2>6. Reacts(q, p)
    BY <2>4, CancelReacts DEF Reacts
  <2>7. p.active["merge"] = 0
    BY <2>4, <2>5 DEF Cancel, States, Reacts, Calm, Sound
  <2> HIDE DEF p
  <2>8. o \in States
    <3>1. [p EXCEPT !.merge = None] \in States
            => [[p EXCEPT !.merge = None] EXCEPT !.signalPending = TRUE]
                 \in States
      BY SignalIsKept
    <3>2. p \in States
      BY <2>6 DEF Reacts, Calm, Sound
    <3>3. [p EXCEPT !.merge = None] \in States
      BY <3>2 DEF States
    <3>4. o = [[p EXCEPT !.merge = None] EXCEPT !.signalPending = TRUE]
      BY <3>2 DEF States
    <3> QED BY <3>1, <3>3, <3>4
  <2>9. Reacts(p, o)
    BY <2>6, <2>7, <2>8 DEF Calm, Sound, ConflictIsOwned, Owned, Conflicting,
       Reacts, Leads, CallsGrow, CallsOf, CommitsOf, States
  <2> HIDE DEF o
  <2>10. Reacts(s, o)
    BY <2>3, <2>4, <2>6, <2>9, ReactsOn
  <2> QED BY <1>2, <2>10 DEF InvalidateMerge, r, q, p, o
<1> QED BY <1>1, <1>2

\* A close that is refused, and the reason that the user is shown.
LEMMA RefuseCloseReacts ==
  ASSUME NEW s, Calm(s)
  PROVE  Reacts(s, RefuseCloseIfNeeded(s))
<1> DEFINE r == Deactivate(s, "close")
           q == Cancel(r, "close", s.active["close"])
           p == [q EXCEPT !.lifecycle = "active"]
<1>1. Reacts(s, r)
  BY DeactivateReacts DEF Operations
<1> HIDE DEF r
<1>2. Reacts(r, q)
  BY <1>1, CancelReacts DEF Reacts
<1> HIDE DEF q
<1>3. p \in States
  BY <1>2 DEF Reacts, Calm, Sound, States
<1>4. Reacts(q, p)
  BY <1>2, <1>3 DEF Calm, Sound, ConflictIsOwned, Owned, Conflicting, Reacts,
     Leads, CallsGrow, CallsOf, CommitsOf, States
<1> HIDE DEF p
<1>5. Reacts(s, p)
  BY <1>1, <1>2, <1>4, ReactsOn
<1> QED BY <1>5, Nothing DEF RefuseCloseIfNeeded, r, q, p

\* What the user is shown decides nothing.
LEMMA IssueReacts ==
  ASSUME NEW s, Calm(s), NEW failure \in Failures \cup {None}
  PROVE  Reacts(s, [s EXCEPT !.issue = failure])
BY Aside DEF Calm, Sound, States

LEMMA RefuseReacts ==
  ASSUME NEW s, Calm(s), NEW failure \in Failures
  PROVE  Reacts(s, Refuse(s, failure))
<1> DEFINE r == [s EXCEPT !.issue = failure]
<1>1. Reacts(s, r)
  BY IssueReacts
<1> HIDE DEF r
<1>2. Reacts(r, RefuseCloseIfNeeded(r))
  BY <1>1, RefuseCloseReacts DEF Reacts
<1>3. Reacts(s, RefuseCloseIfNeeded(r))
  BY <1>1, <1>2, ReactsOn
<1> QED BY <1>3 DEF Refuse, r

\* What a failure of recovery asks of the state it is applied to: less than
\* calm, since some handlers fail before they have put all in order.
Disturbed(s) ==
  /\ s \in States
  /\ IsFiniteSet(s.effects)
  /\ s.local.kind = "writing" /\ s.active["saveCommit"] = s.local.token =>
       s.lifecycle \in {"active", "closing"}
  /\ Conflicting(s) => s.pendingConflict = s.recovery.attempt.entry.text

\* A calm state may fail.
LEMMA CalmIsEnough ==
  ASSUME NEW s, Calm(s)
  PROVE  Disturbed(s)
<1>1. s.local \in LocalStates
  BY DEF Calm, Sound, States
<1>2. s.local.kind = "writing" => s.local # Clean /\ s.local.token # 0
  BY <1>1 DEF LocalStates, Clean
<1> QED BY <1>2 DEF Calm, Sound, ConflictIsOwned, Disturbed

\* All automated work is dropped; a commit goes on if the local state owns it.
LEMMA InvalidateAutomatedWorkReacts ==
  ASSUME NEW s, Disturbed(s)
  PROVE  LET r == InvalidateAutomatedWork(s) IN
         /\ Reacts(s, r)
         /\ r.merge = None /\ r.external = Idle /\ r.active["recovery"] = 0
         /\ r.local.kind = "writing" =>
              s.active["saveCommit"] = s.local.token
<1> DEFINE r == InvalidateAutomatedWork(s)
           keepsCommit == /\ s.local.kind = "writing"
                          /\ s.active["saveCommit"] = s.local.token
<1>1. s \in States
  BY DEF Disturbed
<1>2. r.effects \subseteq s.effects
  BY <1>1 DEF InvalidateAutomatedWork, States
<1>3. /\ r.active \in [Operations -> Nat]
      /\ r.active["recovery"] = 0 /\ r.active["merge"] = 0
      /\ keepsCommit => r.active["saveCommit"] = s.active["saveCommit"]
  BY <1>1 DEF InvalidateAutomatedWork, States, Operations
<1>4. /\ r.local \in LocalStates
      /\ \/ r.local \in {Clean, Dirty(0)}
         \/ r.local = s.local /\ keepsCommit
  <2>1. r.local = LocalAfterInvalidation(s, keepsCommit)
    BY <1>1 DEF InvalidateAutomatedWork, States
  <2> HIDE DEF r
  <2> QED BY <1>1, <2>1 DEF LocalAfterInvalidation, States, LocalStates,
       Dirty, Clean
<1>5. /\ r.barrier \in BOOLEAN /\ r.external = Idle /\ r.merge = None
      /\ r.signalPending = TRUE
      /\ r.lifecycle = s.lifecycle /\ r.source = s.source
      /\ r.baseline = s.baseline /\ r.access = s.access
      /\ r.recovery = s.recovery /\ r.cleanup = s.cleanup
      /\ r.uncertain = s.uncertain /\ r.issue = s.issue
      /\ r.pendingConflict = s.pendingConflict
      /\ r.pendingDisplaced = s.pendingDisplaced
      /\ r.unresolvedDisplaced = s.unresolvedDisplaced
      /\ r.displaced = s.displaced
  BY <1>1 DEF InvalidateAutomatedWork, States, RecoveryMutationIsActive
<1>6. CommitsOf(r) = CommitsOf(s) /\ CallsOf(r) = CallsOf(s)
  <2>1. \A e \in s.effects \ r.effects : e.kind \in {"prepareSave", "merge"}
    BY <1>1 DEF InvalidateAutomatedWork, States
  <2>2. \A e \in s.effects : e \in Effects
    BY <1>1 DEF States
  <2> HIDE DEF r
  <2> QED BY <1>2, <2>1, <2>2, EffectKinds DEF CommitsOf, CallsOf
<1>7. r \in States
  <2>1. r = [s EXCEPT !.effects = r.effects, !.active = r.active,
                      !.barrier = r.barrier, !.external = Idle,
                      !.merge = None, !.signalPending = TRUE,
                      !.local = r.local]
    BY <1>1 DEF InvalidateAutomatedWork, States
  <2>2. Idle \in ExternalStates /\ r.effects \subseteq Effects
    BY <1>1, <1>2 DEF ExternalStates, States
  <2> HIDE DEF r
  <2> QED BY <1>1, <1>3, <1>4, <1>5, <2>1, <2>2 DEF States
<1>8. IsFiniteSet(r.effects)
  BY <1>2, FS_Subset DEF Disturbed
<1> HIDE DEF r
<1>9. Calm(r)
  BY <1>3, <1>4, <1>5, <1>7, <1>8 DEF Calm, Sound, ConflictIsOwned,
     Conflicting, Disturbed, Dirty, Clean
<1>10. Leads(s, r)
  BY <1>3, <1>4, <1>5, <1>6 DEF Leads, CallsGrow, Dirty, Clean
<1>11. r.local.kind = "writing" => keepsCommit
  BY <1>4 DEF Dirty, Clean
<1> QED BY <1>3, <1>5, <1>9, <1>10, <1>11 DEF Reacts, r

LEMMA FailRecoveryReacts ==
  ASSUME NEW s, Disturbed(s)
  PROVE  /\ Reacts(s, FailRecovery(s))
         /\ FailRecovery(s).local.kind = "writing" =>
              s.active["saveCommit"] = s.local.token
<1> DEFINE q == InvalidateAutomatedWork(s)
           r == CancelAllDeadlines(q)
           f == [r EXCEPT !.access = "failed", !.issue = "recovery",
                          !.lifecycle = IF @ = "closing" THEN "active" ELSE @]
<1>1. /\ Reacts(s, q) /\ q.merge = None /\ q.external = Idle
      /\ q.active["recovery"] = 0
      /\ q.local.kind = "writing" => s.active["saveCommit"] = s.local.token
  BY InvalidateAutomatedWorkReacts
<1> HIDE DEF q
<1>2. Reacts(q, r)
  BY <1>1, CancelAllDeadlinesReacts DEF Reacts
<1>3. r.merge = None /\ r.external = Idle /\ r.active["recovery"] = 0
  BY <1>1 DEF CancelAllDeadlines, Reacts, Calm, Sound, States
<1> HIDE DEF r
<1>4. r \in States
  BY <1>2 DEF Reacts, Calm, Sound
<1>5. f \in States
  <2> DEFINE l == IF r.lifecycle = "closing" THEN "active" ELSE r.lifecycle
  <2>1. "recovery" \in Failures /\ l \in {"active", "closing", "allowed",
                                          "closed"}
    BY <1>4 DEF States, Failures
  <2>2. f = [r EXCEPT !.access = "failed", !.issue = "recovery",
                      !.lifecycle = l]
    BY <1>4 DEF States
  <2> HIDE DEF l, f
  <2> QED BY <1>4, <2>1, <2>2 DEF States
<1>6. Reacts(r, f)
  BY <1>2, <1>3, <1>4, <1>5 DEF Calm, Sound, ConflictIsOwned, Owned,
     Conflicting, Reacts, Leads, CallsGrow, CallsOf, CommitsOf, States
<1> HIDE DEF f
<1>7. Reacts(s, f)
  BY <1>1, <1>2, <1>6, ReactsOn
<1>8. f.local.kind = "writing" => s.active["saveCommit"] = s.local.token
  BY <1>1, <1>2, <1>6 DEF Reacts, Leads
<1> QED BY <1>7, <1>8 DEF FailRecovery, q, r, f

-----------------------------------------------------------------------------
(* Calls of the recovery store.                                            *)

\* Only the active tokens and the effects differ.
SameBesidesCalls(s, r) ==
  /\ r.lifecycle = s.lifecycle /\ r.source = s.source
  /\ r.baseline = s.baseline /\ r.local = s.local
  /\ r.external = s.external /\ r.merge = s.merge
  /\ r.signalPending = s.signalPending /\ r.access = s.access
  /\ r.recovery = s.recovery /\ r.barrier = s.barrier
  /\ r.cleanup = s.cleanup /\ r.uncertain = s.uncertain
  /\ r.pendingConflict = s.pendingConflict
  /\ r.pendingDisplaced = s.pendingDisplaced
  /\ r.unresolvedDisplaced = s.unresolvedDisplaced
  /\ r.issue = s.issue /\ r.displaced = s.displaced

\* New tokens and new effects leave every other field alone.
LEMMA WithCalls ==
  ASSUME NEW s \in States, NEW x \in [Operations -> Nat],
         NEW y \in SUBSET Effects
  PROVE  LET r == [s EXCEPT !.active = x, !.effects = y] IN
         /\ r \in States /\ SameBesidesCalls(s, r)
         /\ r.active = x /\ r.effects = y
<1> DEFINE q == [s EXCEPT !.active = x]
           r == [q EXCEPT !.effects = y]
<1>1. q \in States /\ SameBesidesCalls(s, q) /\ q.active = x
  BY DEF States, SameBesidesCalls
<1>2. [s EXCEPT !.active = x, !.effects = y] = r
  BY DEF States
<1> HIDE DEF q
<1>3. /\ r \in States /\ SameBesidesCalls(q, r)
      /\ r.active = q.active /\ r.effects = y
  BY <1>1 DEF States, SameBesidesCalls
<1>4. SameBesidesCalls(s, r)
  BY <1>1, <1>3 DEF SameBesidesCalls
<1> HIDE DEF r
<1> QED BY <1>1, <1>2, <1>3, <1>4

\* A call takes a token that no other call has, and becomes the active one.
LEMMA StartCall ==
  ASSUME NEW s, Sound(s), NEW kind, NEW request,
         \/ kind = "load" /\ request = None
         \/ kind \in {"mutate", "reconcile"} /\ request \in AnyAttempt
  PROVE  LET t == FreshToken(s, "recovery")
             r == Start(s, kind, "recovery", request)
         IN  /\ t \in Nat \ {0}
             /\ Sound(r)
             /\ CommitsOf(r) = CommitsOf(s)
             /\ CallsGrow(s, r)
             /\ r.active["recovery"] = t
             /\ SameBesidesCalls(s, r)
<1> DEFINE t == FreshToken(s, "recovery")
           e == Effect(kind, "recovery", t, request)
           r == Start(s, kind, "recovery", request)
<1>1. t \in Nat \ {0} /\ \A f \in CallsOf(s) : f.token # t
  BY FreshTokenIsNew DEF Sound, CallsOf
<1> HIDE DEF t
<1>2. /\ e \in Effects /\ e.op = "recovery" /\ e.kind # "commit"
      /\ e.token = t /\ e.answer = None
  BY <1>1 DEF Effect, Effects, RecoveryCalls, EffectsOf
<1>3. s \in States /\ IsFiniteSet(s.effects)
  BY DEF Sound
<1> HIDE DEF e
<1>4. /\ r.effects = s.effects \cup {e}
      /\ r.active = [s.active EXCEPT !["recovery"] = t]
      /\ r = [s EXCEPT !.active = r.active, !.effects = r.effects]
  BY <1>3 DEF Start, Emit, States, e, t
<1> HIDE DEF r
<1>5. /\ r.active \in [Operations -> Nat] /\ r.active["recovery"] = t
      /\ r.active["merge"] = s.active["merge"]
      /\ r.active["saveCommit"] = s.active["saveCommit"]
  BY <1>1, <1>3, <1>4 DEF States, Operations
<1>6. IsFiniteSet(r.effects)
  BY <1>3, <1>4, FS_AddElement
<1>7. r \in States /\ SameBesidesCalls(s, r)
  <2> DEFINE x == r.active
             y == r.effects
  <2>1. s.effects \in SUBSET Effects
    BY <1>3 DEF States
  <2>2. y \in SUBSET Effects
    BY <1>2, <1>4, <2>1
  <2>3. x \in [Operations -> Nat] /\ r = [s EXCEPT !.active = x, !.effects = y]
    BY <1>4, <1>5
  <2> HIDE DEF x, y
  <2> QED BY <1>3, <2>2, <2>3, WithCalls
<1>8. Sound(r)
  BY <1>5, <1>6, <1>7 DEF Sound, SameBesidesCalls
<1>9. CommitsOf(r) = CommitsOf(s)
  BY <1>2, <1>4 DEF CommitsOf
<1>10. CallsOf(r) = CallsOf(s) \cup {e} /\ e \notin CallsOf(s)
  BY <1>1, <1>2, <1>4 DEF CallsOf
<1>11. CallsGrow(s, r)
  BY <1>1, <1>2, <1>5, <1>10 DEF CallsGrow
<1> QED BY <1>1, <1>5, <1>7, <1>8, <1>9, <1>11 DEF t, r

\* An attempt keeps its form under a new token.
LEMMA AttemptToken ==
  ASSUME NEW a \in AnyAttempt, NEW t \in Nat
  PROVE  LET b == [a EXCEPT !.token = t] IN
         /\ b \in AnyAttempt /\ b.token = t
         /\ b.purpose = a.purpose /\ b.entry = a.entry
<1>1. CASE a \in ConflictAttempts
  BY <1>1 DEF AnyAttempt, ConflictAttempts
<1>2. CASE a \in DisplacedAttempts
  BY <1>2 DEF AnyAttempt, DisplacedAttempts
<1>3. CASE a \in DiscardAttempts
  BY <1>3 DEF AnyAttempt, DiscardAttempts
<1> QED BY <1>1, <1>2, <1>3 DEF AnyAttempt

\* A mutation of the recovery store may begin whenever it stores the conflict
\* that is held, or there is none.
LEMMA StartMutationReacts ==
  ASSUME NEW s, Sound(s), NEW a \in AnyAttempt,
         a.purpose = "persistConflict" => s.pendingConflict = a.entry.text,
         s.merge # None \/ s.external # Idle =>
           \/ s.pendingConflict = None
           \/ /\ a.purpose = "persistConflict"
              /\ s.access = "ready" /\ ~s.barrier
  PROVE  Reacts(s, StartMutation(s, a))
<1> DEFINE t == FreshToken(s, "recovery")
           b == [a EXCEPT !.token = t]
           r == Start(s, "mutate", "recovery", b)
           q == [r EXCEPT !.recovery = Persisting(b)]
<1>1. t \in Nat
  BY FreshTokenIsNew DEF Sound
<1> HIDE DEF t
<1>2. b \in AnyAttempt /\ b.purpose = a.purpose /\ b.entry = a.entry
  BY <1>1, AttemptToken
<1> HIDE DEF b
<1>3. /\ Sound(r)
      /\ CommitsOf(r) = CommitsOf(s)
      /\ CallsGrow(s, r)
      /\ r.active["recovery"] \in Nat \ {0}
      /\ SameBesidesCalls(s, r)
  BY <1>2, StartCall
<1> HIDE DEF r
<1>4. s \in States /\ r \in States
  BY <1>3 DEF Sound
<1>5. /\ r.merge = s.merge /\ r.external = s.external /\ r.local = s.local
      /\ r.pendingConflict = s.pendingConflict
      /\ r.access = s.access /\ r.barrier = s.barrier
      /\ r.lifecycle = s.lifecycle
  BY <1>3, <1>4 DEF SameBesidesCalls
<1>6. q \in States
  <2>1. Persisting(b) \in RecoveryStates
    BY <1>2 DEF Persisting, RecoveryStates
  <2> HIDE DEF Persisting
  <2> QED BY <1>4, <2>1 DEF States
<1>7. /\ q.recovery.kind = "persisting" /\ q.recovery.attempt = b
      /\ q.merge = r.merge /\ q.external = r.external /\ q.local = r.local
      /\ q.pendingConflict = r.pendingConflict /\ q.access = r.access
      /\ q.barrier = r.barrier /\ q.lifecycle = r.lifecycle
      /\ q.active = r.active /\ q.effects = r.effects
  BY <1>4 DEF States, Persisting
<1> HIDE DEF q
<1>8. Sound(q)
  BY <1>3, <1>6, <1>7 DEF Sound
<1>9. ConflictIsOwned(q)
  BY <1>2, <1>3, <1>5, <1>7 DEF ConflictIsOwned, Owned, Conflicting
<1>10. Leads(s, q)
  BY <1>3, <1>5, <1>7 DEF Leads, CallsGrow, CallsOf, CommitsOf
<1> QED BY <1>8, <1>9, <1>10 DEF Reacts, Calm, StartMutation, q, r, b, t

\* The load of the records: not while a conflict waits for its own operation.
LEMMA StartRecoveryLoadReacts ==
  ASSUME NEW s, Calm(s), s.active["recovery"] = 0 \/ s.access # "ready"
  PROVE  Reacts(s, StartRecoveryLoad(s))
<1> DEFINE r == Start(s, "load", "recovery", None)
           q == [r EXCEPT !.access = "loading"]
<1>1. /\ Sound(r)
      /\ CommitsOf(r) = CommitsOf(s)
      /\ CallsGrow(s, r)
      /\ SameBesidesCalls(s, r)
  BY StartCall DEF Calm
<1> HIDE DEF r
<1>2. s \in States /\ r \in States
  BY <1>1 DEF Calm, Sound
<1>3. /\ r.merge = s.merge /\ r.external = s.external /\ r.local = s.local
      /\ r.pendingConflict = s.pendingConflict /\ r.recovery = s.recovery
      /\ r.lifecycle = s.lifecycle
  BY <1>1, <1>2 DEF SameBesidesCalls
<1>4. q \in States
  BY <1>2 DEF States
<1>5. /\ q.merge = r.merge /\ q.external = r.external /\ q.local = r.local
      /\ q.pendingConflict = r.pendingConflict /\ q.recovery = r.recovery
      /\ q.lifecycle = r.lifecycle
      /\ q.active = r.active /\ q.effects = r.effects
  BY <1>2 DEF States
<1> HIDE DEF q
<1>6. Sound(q)
  BY <1>1, <1>4, <1>5 DEF Sound
<1>7. ConflictIsOwned(q)
  BY <1>3, <1>5 DEF ConflictIsOwned, Owned, Conflicting, Calm
<1>8. Leads(s, q)
  BY <1>1, <1>3, <1>5 DEF Leads, CallsGrow, CallsOf, CommitsOf
<1> QED BY <1>6, <1>7, <1>8 DEF Reacts, Calm, StartRecoveryLoad, q, r

\* The question whether an interrupted mutation took place.
LEMMA StartRecoveryReconciliationReacts ==
  ASSUME NEW s, Calm(s), s.barrier, s.recovery.kind = "persisting"
  PROVE  Reacts(s, StartRecoveryReconciliation(s))
<1> DEFINE r == Start(s, "reconcile", "recovery", s.recovery.attempt)
           q == [r EXCEPT !.access = "loading"]
<1>1. s.recovery.attempt \in AnyAttempt
  <2>1. s.recovery \in RecoveryStates
    BY DEF Calm, Sound, States
  <2> QED BY <2>1 DEF RecoveryStates, Clear
<1>2. /\ Sound(r)
      /\ CommitsOf(r) = CommitsOf(s)
      /\ CallsGrow(s, r)
      /\ SameBesidesCalls(s, r)
  BY <1>1, StartCall DEF Calm
<1> HIDE DEF r
<1>3. s \in States /\ r \in States
  BY <1>2 DEF Calm, Sound
<1>4. /\ r.merge = s.merge /\ r.external = s.external /\ r.local = s.local
      /\ r.pendingConflict = s.pendingConflict /\ r.recovery = s.recovery
      /\ r.lifecycle = s.lifecycle
  BY <1>2, <1>3 DEF SameBesidesCalls
<1>5. q \in States
  BY <1>3 DEF States
<1>6. /\ q.merge = r.merge /\ q.external = r.external /\ q.local = r.local
      /\ q.pendingConflict = r.pendingConflict /\ q.recovery = r.recovery
      /\ q.lifecycle = r.lifecycle
      /\ q.active = r.active /\ q.effects = r.effects
  BY <1>3 DEF States
<1> HIDE DEF q
<1>7. Sound(q)
  BY <1>2, <1>5, <1>6 DEF Sound
<1>8. ConflictIsOwned(q)
  BY <1>4, <1>6 DEF ConflictIsOwned, Owned, Conflicting, Calm
<1>9. Leads(s, q)
  BY <1>2, <1>4, <1>6 DEF Leads, CallsGrow, CallsOf, CommitsOf
<1> QED BY <1>7, <1>8, <1>9 DEF Reacts, Calm, StartRecoveryReconciliation, q, r

\* What the store and the journal hold.
Stored ==
  /\ store \in RecordLists /\ IsFiniteSet(store.raw)
  /\ artifacts \subseteq Entries /\ IsFiniteSet(artifacts)

\* The elements of a finite sequence.
LEMMA FiniteToSet ==
  ASSUME NEW S, NEW q \in Seq(S)
  PROVE  IsFiniteSet(ToSet(q)) /\ ToSet(q) \subseteq S
<1>1. DOMAIN q = 1 .. Len(q) /\ Len(q) \in Nat
  OBVIOUS
<1>2. IsFiniteSet(DOMAIN q)
  BY <1>1, FS_Interval
<1>3. IsFiniteSet({q[i] : i \in DOMAIN q})
  BY <1>2, FiniteImage
<1> QED BY <1>1, <1>3 DEF ToSet

\* Every attempt expects a list of records.
LEMMA AttemptsAreTyped ==
  ASSUME NEW a \in AnyAttempt
  PROVE  a.expected \in RecordLists
BY DEF AnyAttempt, ConflictAttempts, DisplacedAttempts, DiscardAttempts

\* The parts of the recovery state and of the cleanup.
LEMMA RecoveryParts ==
  ASSUME NEW s \in States
  PROVE  /\ NoRecords \in RecordLists
         /\ s.recovery.kind = "available" => s.recovery.records \in RecordLists
         /\ s.recovery.kind = "persisting" =>
              /\ s.recovery.attempt \in AnyAttempt
              /\ s.recovery.attempt.expected \in RecordLists
         /\ s.recovery.kind \in {"clear", "available", "persisting"}
         /\ s.cleanup # None => s.cleanup \in Cleanups
<1>1. s.recovery \in RecoveryStates /\ s.cleanup \in Cleanups \cup {None}
  BY DEF States
<1>2. NoRecords \in RecordLists
  BY FS_EmptySet DEF NoRecords, RecordLists, RawRecords
<1> QED BY <1>1, <1>2, AttemptsAreTyped DEF RecoveryStates, Clear

\* A list of records is finite.
LEMMA RecordsAreFinite ==
  ASSUME NEW records \in RecordLists
  PROVE  IsFiniteSet(RecordSet(records))
<1>1. records.decoded \in Seq(Entries) /\ IsFiniteSet(records.raw)
  BY DEF RecordLists, RawRecords
<1>2. IsFiniteSet(ToSet(records.decoded))
  BY <1>1, FiniteToSet
<1> QED BY <1>1, <1>2, FS_Union DEF RecordSet

\* The identifiers of finitely many entries are finitely many, and so are the
\* requests of finitely many effects: there is always a new identifier, and no
\* record of the store or of what a change expects has it.
LEMMA FreshEntryIsNew ==
  ASSUME Stored, NEW s \in States, IsFiniteSet(s.effects)
  PROVE  /\ FreshEntryID(s) \in Nat
         /\ \A r \in RecordSet(store) : r.id # FreshEntryID(s)
         /\ \A a \in Attempts(s) :
              \A r \in RecordSet(a.expected) : r.id # FreshEntryID(s)
<1> DEFINE attempts == Attempts(s)
           expectedOf == [a \in attempts |-> RecordSet(a.expected)]
           expected == {RecordSet(a.expected) : a \in attempts}
           held == RecordSet(store) \cup artifacts \cup UNION expected
           calls == {f \in s.effects : f.kind \in {"mutate", "reconcile"}}
           adding == {b \in attempts : b.entry # None}
           idOf == [r \in held |-> r.id]
           requestOf == [e \in calls |-> e.request]
           entryOf == [a \in adding |-> a.entry.id]
           ids == {r.id : r \in held}
           entries == {a.entry.id : a \in adding}
           requests == {e.request : e \in calls}
<1>1. IsFiniteSet(requests)
  <2>1. requests = {requestOf[e] : e \in calls}
    OBVIOUS
  <2>2. IsFiniteSet(calls)
    BY FS_Subset
  <2> HIDE DEF calls, requests, requestOf
  <2>3. IsFiniteSet({requestOf[e] : e \in calls})
    BY <2>2, FiniteImage
  <2> QED BY <2>1, <2>3
<1>2. IsFiniteSet(attempts)
  <2>1. IsFiniteSet({s.recovery.attempt}) /\ IsFiniteSet({})
    BY FS_Singleton, FS_EmptySet
  <2> QED BY <1>1, <2>1, FS_Union DEF Attempts
<1>3. \A a \in attempts : a.expected \in RecordLists
  <2>1. requests \subseteq AnyAttempt
    BY EffectKinds DEF States
  <2> QED BY <2>1, RecoveryParts, AttemptsAreTyped DEF Attempts
<1>4. IsFiniteSet(UNION expected)
  <2>1. expected = {expectedOf[a] : a \in attempts}
    OBVIOUS
  <2>2. \A T \in expected : IsFiniteSet(T)
    BY <1>3, RecordsAreFinite
  <2> HIDE DEF attempts, expected, expectedOf
  <2>3. IsFiniteSet(expected)
    BY <1>2, <2>1, FiniteImage
  <2> QED BY <2>2, <2>3, FS_UNION
<1>5. IsFiniteSet(held)
  <2>1. IsFiniteSet(RecordSet(store))
    BY RecordsAreFinite DEF Stored
  <2> QED BY <1>4, <2>1, FS_Union DEF Stored
<1>6. IsFiniteSet(ids)
  <2>1. ids = {idOf[r] : r \in held}
    OBVIOUS
  <2> HIDE DEF held, ids, idOf
  <2>2. IsFiniteSet({idOf[r] : r \in held})
    BY <1>5, FiniteImage
  <2> QED BY <2>1, <2>2
<1>7. IsFiniteSet(entries)
  <2>1. entries = {entryOf[a] : a \in adding}
    OBVIOUS
  <2>2. IsFiniteSet(adding)
    BY <1>2, FS_Subset
  <2> HIDE DEF adding, entries, entryOf
  <2>3. IsFiniteSet({entryOf[a] : a \in adding})
    BY <2>2, FiniteImage
  <2> QED BY <2>1, <2>3
<1>8. IsFiniteSet(ids \cup entries)
  BY <1>6, <1>7, FS_Union
<1>9. FreshEntryID(s) = Min((1 .. Cardinality(ids \cup entries) + 1)
                              \ (ids \cup entries))
  BY DEF FreshEntryID
<1>10. FreshEntryID(s) \in Nat /\ FreshEntryID(s) \notin ids
  <2> HIDE DEF ids, entries
  <2> QED BY <1>8, <1>9, FreshNumber
<1>11. /\ \A r \in RecordSet(store) : r.id \in ids
       /\ \A a \in attempts : \A r \in RecordSet(a.expected) : r.id \in ids
  OBVIOUS
<1> HIDE DEF ids
<1> QED BY <1>10, <1>11

\* A text is handed to the recovery store.
LEMMA StartRecoveryPersistenceReacts ==
  ASSUME Stored, NEW s, Calm(s), NEW text \in Texts,
         NEW cleanup \in Plans \cup {None},
         Owned(s) \/ s.pendingConflict = text
  PROVE  Reacts(s, StartRecoveryPersistence(s, text, cleanup))
<1>1. CASE ~(s.access = "ready" /\ ~s.barrier /\ s.active["recovery"] = 0)
  BY <1>1, Nothing DEF StartRecoveryPersistence
<1>2. CASE s.access = "ready" /\ ~s.barrier /\ s.active["recovery"] = 0
  <2> DEFINE expected == IF s.recovery.kind = "available"
                         THEN s.recovery.records ELSE NoRecords
             entry == [id |-> FreshEntryID(s), text |-> text]
             a == [Attempt(0, "persistConflict", expected) EXCEPT
                     !.entry = entry, !.cleanup = cleanup]
             p == [s EXCEPT !.pendingConflict = text]
  <2>1. s \in States /\ s.pendingConflict \in {None, text}
    BY <1>2 DEF Calm, Sound, Owned
  <2>2. entry \in Entries /\ entry.text = text
    BY FreshEntryIsNew DEF Calm, Sound, Entries, Texts
  <2>3. expected \in RecordLists
    BY <2>1, RecoveryParts
  <2> HIDE DEF entry, expected
  <2>4. a = [token |-> 0, purpose |-> "persistConflict",
             expected |-> expected, entry |-> entry, discard |-> None,
             cleanup |-> cleanup, continuation |-> None]
    <3> DEFINE b == [Attempt(0, "persistConflict", expected) EXCEPT
                       !.entry = entry]
    <3>1. b = [token |-> 0, purpose |-> "persistConflict",
               expected |-> expected, entry |-> entry, discard |-> None,
               cleanup |-> None, continuation |-> None]
      BY DEF Attempt
    <3>2. a = [b EXCEPT !.cleanup = cleanup]
      OBVIOUS
    <3> HIDE DEF a, b
    <3> QED BY <3>1, <3>2
  <2>5. StartRecoveryPersistence(s, text, cleanup) = StartMutation(p, a)
    BY <1>2 DEF StartRecoveryPersistence, p, a, entry, expected
  <2> HIDE DEF a
  <2>6. a \in AnyAttempt /\ a.purpose = "persistConflict" /\ a.entry = entry
    BY <2>2, <2>3, <2>4 DEF AnyAttempt, ConflictAttempts
  <2>7. p \in States /\ p.pendingConflict = text
    BY <2>1 DEF States
  <2>8. /\ p.lifecycle = s.lifecycle /\ p.local = s.local
        /\ p.external = s.external /\ p.merge = s.merge
        /\ p.access = s.access /\ p.recovery = s.recovery
        /\ p.barrier = s.barrier /\ p.active = s.active
        /\ p.effects = s.effects
    BY <2>1 DEF States
  <2> HIDE DEF p
  <2>9. Sound(p) /\ Leads(s, p)
    BY <2>1, <2>7, <2>8 DEF Calm, Sound, Leads, CommitsOf, CallsOf, CallsGrow
  <2>10. Reacts(p, StartMutation(p, a))
    BY <1>2, <2>2, <2>6, <2>7, <2>8, <2>9, StartMutationReacts
  <2> QED BY <2>5, <2>9, <2>10, LeadsOn DEF Reacts
<1> QED BY <1>1, <1>2

\* A displaced file is handed to the recovery store; not in the way of a
\* conflict that is waiting for its turn.
LEMMA StartDisplacedPersistenceReacts ==
  ASSUME NEW s, Calm(s), NEW c \in Continuations
  PROVE  Reacts(s, StartDisplacedPersistence(s, c))
<1>1. CASE ~(s.access = "ready" /\ s.active["recovery"] = 0)
  BY <1>1, Nothing DEF StartDisplacedPersistence
<1>2. CASE s.access = "ready" /\ s.active["recovery"] = 0
  <2> DEFINE expected == CASE s.recovery.kind = "available" ->
                                s.recovery.records
                           [] s.recovery.kind = "persisting" ->
                                s.recovery.attempt.expected
                           [] OTHER -> NoRecords
             entry == [id |-> c.id, text |-> c.text]
             a == [Attempt(0, "persistDisplacedPreimage", expected) EXCEPT
                     !.entry = entry, !.continuation = c]
  <2>1. s \in States
    BY DEF Calm, Sound
  <2>2. entry \in Entries
    BY DEF Continuations, Entries, Texts
  <2>3. expected \in RecordLists
    BY <2>1, RecoveryParts
  <2> HIDE DEF entry, expected
  <2>4. a = [token |-> 0, purpose |-> "persistDisplacedPreimage",
             expected |-> expected, entry |-> entry, discard |-> None,
             cleanup |-> None, continuation |-> c]
    <3> DEFINE b == [Attempt(0, "persistDisplacedPreimage", expected) EXCEPT
                       !.entry = entry]
    <3>1. b = [token |-> 0, purpose |-> "persistDisplacedPreimage",
               expected |-> expected, entry |-> entry, discard |-> None,
               cleanup |-> None, continuation |-> None]
      BY DEF Attempt
    <3>2. a = [b EXCEPT !.continuation = c]
      OBVIOUS
    <3> HIDE DEF a, b
    <3> QED BY <3>1, <3>2
  <2>5. StartDisplacedPersistence(s, c) = StartMutation(s, a)
    BY <1>2 DEF StartDisplacedPersistence, a, entry, expected
  <2> HIDE DEF a
  <2>6. a \in AnyAttempt /\ a.purpose = "persistDisplacedPreimage"
    BY <2>2, <2>3, <2>4 DEF AnyAttempt, DisplacedAttempts
  <2>7. Reacts(s, StartMutation(s, a))
    BY <1>2, <2>6, StartMutationReacts DEF Calm, ConflictIsOwned, Owned
  <2> QED BY <2>5, <2>7
<1> QED BY <1>1, <1>2

\* Records are discarded, on the user's request or because they have been
\* superseded.
LEMMA StartRecoveryDiscardReacts ==
  ASSUME NEW s, Calm(s), NEW target \in DiscardTargets,
         NEW purpose \in DiscardPurposes
  PROVE  Reacts(s, StartRecoveryDiscard(s, target, purpose))
<1>1. CASE ~CanStartDiscard(s, target)
  BY <1>1, Nothing DEF StartRecoveryDiscard
<1>2. CASE CanStartDiscard(s, target)
  <2> DEFINE a == [Attempt(0, purpose, s.recovery.records) EXCEPT
                     !.discard = target]
  <2>1. s.recovery.kind = "available" /\ s \in States
    BY <1>2 DEF CanStartDiscard, Calm, Sound
  <2>2. a = [token |-> 0, purpose |-> purpose,
             expected |-> s.recovery.records, entry |-> None,
             discard |-> target, cleanup |-> None, continuation |-> None]
    BY DEF Attempt
  <2>3. a \in AnyAttempt /\ a.purpose # "persistConflict"
    BY <2>1, <2>2, RecoveryParts DEF AnyAttempt, DiscardAttempts,
       DiscardPurposes
  <2>4. StartRecoveryDiscard(s, target, purpose) = StartMutation(s, a)
    BY <1>2 DEF StartRecoveryDiscard
  <2> HIDE DEF a
  <2>5. Reacts(s, StartMutation(s, a))
    BY <2>1, <2>3, StartMutationReacts DEF Calm, ConflictIsOwned, Owned,
       Conflicting
  <2> QED BY <2>4, <2>5
<1> QED BY <1>1, <1>2

\* A cleanup that had to wait is the next discard.
LEMMA ResumeRecoveryCleanupReacts ==
  ASSUME NEW s, Calm(s), s.cleanup # None
  PROVE  Reacts(s, ResumeRecoveryCleanup(s))
<1>1. s.cleanup \in Cleanups
  BY RecoveryParts DEF Calm, Sound
<1>2. s.cleanup.target \in DiscardTargets
      /\ s.cleanup.purpose \in DiscardPurposes
  BY <1>1 DEF Cleanups
<1> QED BY <1>2, StartRecoveryDiscardReacts DEF ResumeRecoveryCleanup

-----------------------------------------------------------------------------
(* Progress.                                                               *)

\* A close is allowed only when nothing is left to save.
LEMMA AllowManagedCloseReacts ==
  ASSUME NEW s, Calm(s), s.local = Clean
  PROVE  Reacts(s, AllowManagedClose(s))
<1> DEFINE r == Cancel(s, "close", s.active["close"])
           q == [r EXCEPT !.lifecycle = "allowed"]
<1>1. Reacts(s, r)
  BY CancelReacts
<1>2. r.local = Clean
  BY DEF Cancel, Calm, Sound, States
<1> HIDE DEF r
<1>3. q \in States
  <2>1. r \in States
    BY <1>1 DEF Reacts, Calm, Sound
  <2> QED BY <2>1 DEF States
<1>4. Reacts(r, q)
  BY <1>1, <1>2, <1>3 DEF Calm, Sound, ConflictIsOwned, Owned, Conflicting,
     Reacts, Leads, CallsGrow, CallsOf, CommitsOf, States
<1> HIDE DEF q
<1>5. Reacts(s, q)
  BY <1>1, <1>4, ReactsOn
<1> QED BY <1>5 DEF AllowManagedClose, r, q

\* A close goes on when nothing is owed, and else waits.
LEMMA ProgressManagedCloseReacts ==
  ASSUME NEW s, Calm(s)
  PROVE  Reacts(s, ProgressManagedClose(s))
<1> DEFINE r == ProgressManagedClose(s)
<1>1. \/ r = RefuseCloseIfNeeded(s)
      \/ r = s
      \/ /\ s.pendingDisplaced # None
         /\ r = StartDisplacedPersistence(s, s.pendingDisplaced)
      \/ CanResumeCleanup(s) /\ r = ResumeRecoveryCleanup(s)
      \/ r = ScheduleLocalSave(s)
      \/ r = ScheduleExternalRead(s)
      \/ s.local = Clean /\ r = AllowManagedClose(s)
  BY DEF ProgressManagedClose
<1> HIDE DEF r
<1>2. s.pendingDisplaced # None => s.pendingDisplaced \in Continuations
  BY DEF Calm, Sound, States
<1>3. CanResumeCleanup(s) => s.cleanup # None
  BY DEF CanResumeCleanup
<1>4. Reacts(s, r)
  BY <1>1, <1>2, <1>3, RefuseCloseReacts, Nothing, ResumeRecoveryCleanupReacts,
     StartDisplacedPersistenceReacts, ScheduleLocalSaveReacts,
     ScheduleExternalReadReacts, AllowManagedCloseReacts
<1> QED BY <1>4 DEF r

\* The next thing to do, in the order in which the program looks for it.
LEMMA ContinueSynchronizationReacts ==
  ASSUME Stored, NEW s, Calm(s)
  PROVE  Reacts(s, ContinueSynchronization(s))
<1> DEFINE r == ContinueSynchronization(s)
           p == ScheduleExternalRead(s)
<1>1. \/ r = ProgressManagedClose(s)
      \/ r = s
      \/ /\ s.pendingConflict # None
         /\ r = StartRecoveryPersistence(s, s.pendingConflict, None)
      \/ /\ s.pendingDisplaced # None
         /\ r = StartDisplacedPersistence(s, s.pendingDisplaced)
      \/ CanResumeCleanup(s) /\ r = ResumeRecoveryCleanup(s)
      \/ r = p \/ r = ScheduleLocalSave(p)
      \/ r = ScheduleLocalSave(s)
  BY DEF ContinueSynchronization
<1>2. Reacts(s, p) /\ Reacts(s, ScheduleLocalSave(p))
  <2>1. Reacts(s, p)
    BY ScheduleExternalReadReacts
  <2> HIDE DEF p
  <2>2. Reacts(p, ScheduleLocalSave(p))
    BY <2>1, ScheduleLocalSaveReacts DEF Reacts
  <2> QED BY <2>1, <2>2, ReactsOn
<1> HIDE DEF r, p
<1>3. /\ s.pendingDisplaced # None => s.pendingDisplaced \in Continuations
      /\ s.pendingConflict # None => s.pendingConflict \in Texts
  BY DEF Calm, Sound, States
<1>4. CanResumeCleanup(s) => s.cleanup # None
  BY DEF CanResumeCleanup
<1>5. s.pendingConflict # None =>
        Reacts(s, StartRecoveryPersistence(s, s.pendingConflict, None))
  BY <1>3, StartRecoveryPersistenceReacts
<1>6. Reacts(s, r)
  BY <1>1, <1>2, <1>3, <1>4, <1>5, ProgressManagedCloseReacts, Nothing,
     ResumeRecoveryCleanupReacts, StartDisplacedPersistenceReacts,
     ScheduleLocalSaveReacts
<1> QED BY <1>6 DEF r

\* The texts, the baseline and what is left for later may change, and the
\* local state may be given up or be clean.
LEMMA Rewritten ==
  ASSUME NEW s, NEW r, Calm(s), r \in States,
         r.local \in {s.local, Clean, Dirty(0)},
         r.lifecycle = s.lifecycle,
         r.external = s.external, r.merge = s.merge, r.access = s.access,
         r.recovery = s.recovery, r.barrier = s.barrier,
         r.pendingConflict = s.pendingConflict, r.active = s.active,
         r.effects = s.effects
  PROVE  Reacts(s, r) /\ (Owned(s) => Owned(r))
BY DEF Calm, Sound, ConflictIsOwned, Owned, Conflicting, Reacts, Leads,
       CallsGrow, CallsOf, CommitsOf, Clean, Dirty

\* No conflict waits in the way of a read or a merge.
Free(s) ==
  \/ s.pendingConflict = None
  \/ s.merge = None /\ s.external = Idle

\* So it is whenever no operation is storing one.
LEMMA CalmIsFree ==
  ASSUME NEW s, Calm(s),
         \/ ~Conflicting(s) \/ s.active["recovery"] = 0
         \/ s.access # "ready" \/ s.barrier
  PROVE  Free(s)
BY DEF Calm, ConflictIsOwned, Owned, Free

\* A mutation has ended: the records are known again and the work goes on.
LEMMA FinishRecoveryMutationReacts ==
  ASSUME Stored, NEW s, Sound(s), NEW records \in RecordLists, Free(s)
  PROVE  Reacts(s, FinishRecoveryMutation(s, records))
<1> DEFINE d == Deactivate(s, "recovery")
           q == RecoveryOf(records)
           r == [d EXCEPT !.access = "ready", !.barrier = FALSE,
                          !.recovery = q]
           f == FinishRecoveryMutation(s, records)
           n == [r EXCEPT !.issue = None]
<1>1. s \in States
  BY DEF Sound
<1>2. q \in RecoveryStates /\ q.kind # "persisting"
  BY DEF RecoveryOf, RecoveryStates, Clear, Available
<1> HIDE DEF q
<1>3. /\ d \in States /\ d.active["recovery"] = 0
      /\ \A op \in Operations \ {"recovery"} : d.active[op] = s.active[op]
      /\ d = [s EXCEPT !.active = d.active]
  BY <1>1 DEF Deactivate, States, Operations
<1>4. /\ d.lifecycle = s.lifecycle /\ d.local = s.local /\ d.merge = s.merge
      /\ d.external = s.external /\ d.effects = s.effects
      /\ d.pendingConflict = s.pendingConflict
  BY <1>1 DEF Deactivate, States
<1> HIDE DEF d
<1>5. r \in States
  BY <1>2, <1>3 DEF States
<1>6. /\ r.lifecycle = d.lifecycle /\ r.local = d.local /\ r.merge = d.merge
      /\ r.external = d.external /\ r.effects = d.effects
      /\ r.pendingConflict = d.pendingConflict /\ r.recovery = q
      /\ r.active = d.active
  BY <1>3 DEF States
<1> HIDE DEF r
<1>7. Sound(r)
  BY <1>3, <1>4, <1>5, <1>6 DEF Sound, Operations
<1>8. Calm(r)
  BY <1>2, <1>4, <1>6, <1>7 DEF Calm, ConflictIsOwned, Owned, Conflicting, Free
<1>9. Leads(s, r)
  BY <1>3, <1>4, <1>6 DEF Leads, CommitsOf, CallsOf, CallsGrow
<1>10. Reacts(s, r)
  BY <1>8, <1>9 DEF Reacts
<1>11. Reacts(r, n)
  BY <1>8, IssueReacts
<1> HIDE DEF n
<1>12. Reacts(n, ContinueSynchronization(n))
  BY <1>11, ContinueSynchronizationReacts DEF Reacts
<1>13. Reacts(r, Refuse(r, "recovery"))
  BY <1>8, RefuseReacts DEF Failures
<1>14. CanResumeIndependentCleanup(r) => Reacts(r, ResumeRecoveryCleanup(r))
  BY <1>8, ResumeRecoveryCleanupReacts DEF CanResumeIndependentCleanup,
     CanResumeCleanup
<1>15. \/ f = ContinueSynchronization(n)
       \/ CanResumeIndependentCleanup(r) /\ f = ResumeRecoveryCleanup(r)
       \/ f = Refuse(r, "recovery")
  BY DEF FinishRecoveryMutation, n, r, q, d
<1> HIDE DEF f
<1>16. Reacts(s, f)
  BY <1>10, <1>11, <1>12, <1>13, <1>14, <1>15, ReactsOn
<1> QED BY <1>16 DEF f

\* The two conflicts: the text of the editor goes to the recovery store.
LEMMA PersistLocalConflictReacts ==
  ASSUME Stored, NEW s, Calm(s), Owned(s), NEW external \in Files,
         NEW local \in Texts
  PROVE  Reacts(s, PersistLocalConflict(s, external, local))
<1> DEFINE revision == [number |-> s.source.number + 1,
                        text |-> external.text]
           baseline == Durable(revision, external.inode)
           displaced == s.displaced \cup {local}
           r == [s EXCEPT !.source = revision, !.baseline = baseline,
                          !.local = Clean, !.issue = None,
                          !.displaced = displaced]
<1>1. s \in States
  BY DEF Calm, Sound
<1>2. revision \in Revisions /\ baseline \in Durables
      /\ displaced \in SUBSET Texts
  BY <1>1 DEF States, Revisions, Durables, Durable, Files
<1>3. PersistLocalConflict(s, external, local) =
        IF s.access # "ready" THEN FailRecovery(s)
        ELSE StartRecoveryPersistence(r, local, None)
  BY DEF PersistLocalConflict
<1> HIDE DEF revision, baseline, displaced
<1>4. r \in States
  BY <1>1, <1>2 DEF States, LocalStates
<1>5. Reacts(s, r) /\ Owned(r)
  <2>1. /\ r.local = Clean /\ r.lifecycle = s.lifecycle
        /\ r.external = s.external /\ r.merge = s.merge
        /\ r.access = s.access /\ r.recovery = s.recovery
        /\ r.barrier = s.barrier /\ r.active = s.active
        /\ r.pendingConflict = s.pendingConflict /\ r.effects = s.effects
    BY <1>1 DEF States
  <2> HIDE DEF r
  <2> QED BY <1>4, <2>1, Rewritten
<1> HIDE DEF r
<1>6. Reacts(r, StartRecoveryPersistence(r, local, None))
  BY <1>5, StartRecoveryPersistenceReacts DEF Reacts
<1>7. Reacts(s, FailRecovery(s))
  BY CalmIsEnough, FailRecoveryReacts
<1> QED BY <1>3, <1>5, <1>6, <1>7, ReactsOn

\* A displaced version that conflicts is held before it is stored.
LEMMA PersistDisplacedConflictReacts ==
  ASSUME Stored, NEW s, Calm(s), Owned(s), NEW merge \in Merges,
         merge.origin # None
  PROVE  Reacts(s, PersistDisplacedConflict(s, merge))
<1> DEFINE number == s.source.number + 1
           cleanup == [target |-> merge.origin.target, min |-> number,
                       purpose |-> "discardResolvedDisplacedPreimage"]
           revision == [number |-> number, text |-> merge.external.text]
           local == merge.local.text
           displaced == s.displaced \cup {local}
           r == [s EXCEPT !.source = revision, !.local = Dirty(0),
                          !.issue = None, !.displaced = displaced]
           p == StartRecoveryPersistence(r, local, cleanup)
           o == [p EXCEPT !.unresolvedDisplaced = None]
<1>1. s \in States
  BY DEF Calm, Sound
<1>2. merge.origin \in Origins /\ merge.local \in Revisions
      /\ merge.external \in Files
  BY DEF Merges
<1>3. /\ revision \in Revisions /\ local \in Texts
      /\ displaced \in SUBSET Texts /\ cleanup \in Plans
  BY <1>1, <1>2 DEF States, Revisions, Files, Plans, Origins, DiscardPurposes
<1>4. \/ PersistDisplacedConflict(s, merge) = FailRecovery(s)
      \/ PersistDisplacedConflict(s, merge) = o
  BY DEF PersistDisplacedConflict
<1> HIDE DEF revision, displaced, cleanup, local, number
<1>5. r \in States
  BY <1>1, <1>3 DEF States, LocalStates, Dirty
<1>6. Reacts(s, r) /\ Owned(r)
  <2>1. /\ r.local = Dirty(0) /\ r.lifecycle = s.lifecycle
        /\ r.external = s.external /\ r.merge = s.merge
        /\ r.access = s.access /\ r.recovery = s.recovery
        /\ r.barrier = s.barrier /\ r.active = s.active
        /\ r.pendingConflict = s.pendingConflict /\ r.effects = s.effects
    BY <1>1 DEF States
  <2> HIDE DEF r
  <2> QED BY <1>5, <2>1, Rewritten
<1> HIDE DEF r
<1>7. Reacts(r, p)
  BY <1>3, <1>6, StartRecoveryPersistenceReacts DEF Reacts
<1> HIDE DEF p
<1>8. Reacts(p, o)
  <2>1. p \in States
    BY <1>7 DEF Reacts, Calm, Sound
  <2>2. o \in States
    BY <2>1 DEF States
  <2>3. /\ o.lifecycle = p.lifecycle /\ o.local = p.local
        /\ o.external = p.external /\ o.merge = p.merge
        /\ o.access = p.access /\ o.recovery = p.recovery
        /\ o.barrier = p.barrier /\ o.active = p.active
        /\ o.pendingConflict = p.pendingConflict /\ o.effects = p.effects
    BY <2>1 DEF States
  <2> HIDE DEF o
  <2> QED BY <1>7, <2>2, <2>3, Aside DEF Reacts
<1>9. Reacts(s, FailRecovery(s))
  BY CalmIsEnough, FailRecoveryReacts
<1> HIDE DEF o
<1> QED BY <1>4, <1>6, <1>7, <1>8, <1>9, ReactsOn

-----------------------------------------------------------------------------
(* Handlers of local events.                                               *)

\* An edit: a merge is forgotten, a commit that runs is not.
LEMMA SourceChangedReacts ==
  ASSUME Stored, NEW s, Calm(s), NEW text \in Texts
  PROVE  Reacts(s, SourceChanged(s, text))
<1> DEFINE revision == [number |-> s.source.number + 1, text |-> text]
           edited == [s EXCEPT !.source = revision]
           s1 == IF \/ RecoveryBlocksAutomation(edited)
                    \/ s.issue = "destinationRequiresSaveAs"
                 THEN edited ELSE [edited EXCEPT !.issue = None]
           m == InvalidateMerge(s1)
           s2 == InvalidatePreparation(m)
           baseline == Rebased(s2.baseline, s2.source)
           issue == IF s2.issue = "destinationRequiresSaveAs"
                    THEN None ELSE s2.issue
           s3 == IF s2.baseline.text = text
                 THEN [s2 EXCEPT !.baseline = baseline, !.local = Clean,
                                 !.issue = issue]
                 ELSE [s2 EXCEPT !.local = Dirty(0)]
           f == SourceChanged(s, text)
<1>1. s \in States
  BY DEF Calm, Sound
<1>2. edited \in States /\ Reacts(s, edited)
  <2>1. revision \in Revisions
    BY <1>1 DEF States, Revisions
  <2> HIDE DEF revision
  <2>3. edited \in States
    BY <1>1, <2>1 DEF States
  <2>4. /\ edited.lifecycle = s.lifecycle /\ edited.local = s.local
        /\ edited.external = s.external /\ edited.merge = s.merge
        /\ edited.access = s.access /\ edited.recovery = s.recovery
        /\ edited.barrier = s.barrier /\ edited.active = s.active
        /\ edited.pendingConflict = s.pendingConflict
        /\ edited.effects = s.effects
    BY <1>1 DEF States
  <2> HIDE DEF edited
  <2> QED BY <2>3, <2>4, Aside
<1>3. \/ f = s2 \/ f = ScheduleExternalRead(s2)
      \/ f = s3 \/ f = ScheduleExternalRead(s3)
      \/ f = ContinueSynchronization(s3)
      \/ f = ContinueSynchronization(ScheduleExternalRead(s3))
  BY DEF SourceChanged, edited, s1, m, s2, s3, revision, baseline, issue
<1> HIDE DEF edited, f
<1>4. Reacts(s, s1)
  BY <1>2, IssueReacts, ReactsOn DEF Reacts
<1> HIDE DEF s1
<1>5. Reacts(s1, m)
  BY <1>4, InvalidateMergeReacts DEF Reacts
<1> HIDE DEF m
<1>6. Reacts(m, s2)
  BY <1>5, InvalidatePreparationReacts DEF Reacts
<1>7. Reacts(s, s2)
  BY <1>4, <1>5, <1>6, ReactsOn
<1> HIDE DEF s2
<1>8. Reacts(s2, s3)
  <2>1. s2 \in States
    BY <1>7 DEF Reacts, Calm, Sound
  <2>2. baseline \in Durables /\ issue \in Failures \cup {None}
    BY <2>1 DEF States, Revisions, Durables, Durable, Rebased
  <2> HIDE DEF baseline, issue
  <2>3. s3 \in States
    <3>1. Clean \in LocalStates /\ Dirty(0) \in LocalStates
      BY DEF LocalStates, Dirty
    <3>2. [s2 EXCEPT !.baseline = baseline, !.local = Clean, !.issue = issue]
            \in States
      BY <2>1, <2>2, <3>1 DEF States
    <3>3. [s2 EXCEPT !.local = Dirty(0)] \in States
      BY <2>1, <3>1 DEF States
    <3> QED BY <3>2, <3>3
  <2>4. /\ s3.lifecycle = s2.lifecycle /\ s3.local \in {Clean, Dirty(0)}
        /\ s3.external = s2.external /\ s3.merge = s2.merge
        /\ s3.access = s2.access /\ s3.recovery = s2.recovery
        /\ s3.barrier = s2.barrier /\ s3.active = s2.active
        /\ s3.pendingConflict = s2.pendingConflict
        /\ s3.effects = s2.effects
    BY <2>1 DEF States
  <2> HIDE DEF s3
  <2> QED BY <1>7, <2>3, <2>4, Rewritten DEF Reacts
<1> HIDE DEF s3
<1>9. Reacts(s, s3)
  BY <1>7, <1>8, ReactsOn
<1> DEFINE p == ScheduleExternalRead(s3)
<1>10. Reacts(s, p)
  BY <1>9, ScheduleExternalReadReacts, ReactsOn DEF Reacts
<1>11. Reacts(s, ScheduleExternalRead(s2))
  BY <1>7, ScheduleExternalReadReacts, ReactsOn DEF Reacts
<1>12. Reacts(s, ContinueSynchronization(s3))
  BY <1>9, ContinueSynchronizationReacts, ReactsOn DEF Reacts
<1>13. Reacts(s, ContinueSynchronization(p))
  <2> HIDE DEF p
  <2> QED BY <1>10, ContinueSynchronizationReacts, ReactsOn DEF Reacts
<1>14. Reacts(s, f)
  BY <1>3, <1>7, <1>9, <1>10, <1>11, <1>12, <1>13
<1> QED BY <1>14 DEF f

\* A save that the user asks for.
LEMMA SaveRequestedReacts ==
  ASSUME NEW s, Calm(s)
  PROVE  Reacts(s, SaveRequested(s))
<1> DEFINE r == InvalidatePreparation(s)
<1>1. Reacts(s, r)
  BY InvalidatePreparationReacts
<1>2. Reacts(s, ScheduleLocalSave(r))
  <2> HIDE DEF r
  <2> QED BY <1>1, ScheduleLocalSaveReacts, ReactsOn DEF Reacts
<1> QED BY <1>2, Nothing DEF SaveRequested

\* The delay has passed: the text is put together.
LEMMA LocalSaveDeadlineReacts ==
  ASSUME NEW s, Calm(s), NEW t \in Nat \ {0}, s.local = Dirty(t),
         s.active["savePreparation"] = t
  PROVE  Reacts(s, LocalSaveDeadlineFired(s))
<1> DEFINE local == [kind |-> "preparing", token |-> t, rev |-> s.source,
                     expected |-> s.baseline]
           r == [s EXCEPT !.local = local]
           e == Effect("prepareSave", "savePreparation", t, None)
<1>1. s \in States /\ s.lifecycle \in {"active", "closing"}
  BY DEF Calm, Sound, Dirty, Clean
<1>2. local \in LocalStates
  BY <1>1 DEF States, LocalStates
<1>3. LocalSaveDeadlineFired(s) = Emit(r, e)
  BY DEF LocalSaveDeadlineFired
<1>4. /\ local.kind = "preparing" /\ local.token = t
  OBVIOUS
<1> HIDE DEF local
<1>5. r \in States
  BY <1>1, <1>2 DEF States
<1>6. Reacts(s, r)
  BY <1>1, <1>4, <1>5 DEF Calm, Sound, ConflictIsOwned, Owned, Conflicting,
     Reacts, Leads, CallsGrow, CallsOf, CommitsOf, States
<1> HIDE DEF r
<1>7. e \in Effects /\ e.kind # "commit" /\ e.op # "recovery"
  BY DEF Effect, Effects, Signals, EffectsOf
<1> HIDE DEF e
<1>8. Reacts(r, Emit(r, e))
  BY <1>6, <1>7, EmitReacts DEF Reacts
<1> QED BY <1>3, <1>6, <1>8, ReactsOn

\* A commit whose outcome the journal alone knows is asked about.
LEMMA StartCommitReconciliationReacts ==
  ASSUME NEW s, Calm(s)
  PROVE  Reacts(s, StartCommitReconciliation(s))
<1>1. CASE s.uncertain = None \/ s.uncertain.reconciliation # 0
  BY <1>1, Nothing DEF StartCommitReconciliation
<1>2. CASE ~(s.uncertain = None \/ s.uncertain.reconciliation # 0)
  <2> DEFINE request == [original |-> s.uncertain.token,
                         rev |-> s.uncertain.rev,
                         expected |-> s.uncertain.expected]
             r == Start(s, "reconcileCommit", "commitReconciliation", request)
             n == r.active["commitReconciliation"]
             u == [r.uncertain EXCEPT !.reconciliation = n]
             q == [r EXCEPT !.uncertain = u]
  <2>1. s.uncertain \in Uncertains
    BY <1>2 DEF Calm, Sound, States
  <2>2. request \in [original : Nat, rev : Revisions, expected : Durables]
    BY <2>1 DEF Uncertains
  <2> HIDE DEF request
  <2>3. "commitReconciliation" \in
          Operations \ {"recovery", "saveCommit", "merge"}
    BY DEF Operations
  <2>4. \A t \in Nat \ {0} :
          Effect("reconcileCommit", "commitReconciliation", t, request)
            \in Effects
    BY <2>2 DEF Effect, Effects, Reconciliations, EffectsOf
  <2>5. Reacts(s, r) /\ n \in Nat
    BY <2>3, <2>4, StartReacts
  <2>6. r.uncertain = s.uncertain
    BY DEF Start, Emit, Calm, Sound, States
  <2>7. StartCommitReconciliation(s) = [r EXCEPT !.uncertain.reconciliation = n]
    BY <1>2 DEF StartCommitReconciliation, request
  <2> HIDE DEF r
  <2>8. u \in Uncertains
    BY <2>1, <2>5, <2>6 DEF Uncertains
  <2>9. r \in States
    BY <2>5 DEF Reacts, Calm, Sound
  <2>10. [r EXCEPT !.uncertain.reconciliation = n] = q
    BY <2>9 DEF States
  <2> HIDE DEF u
  <2>11. q \in States
    BY <2>8, <2>9 DEF States
  <2>12. /\ q.lifecycle = r.lifecycle /\ q.local = r.local
         /\ q.external = r.external /\ q.merge = r.merge
         /\ q.access = r.access /\ q.recovery = r.recovery
         /\ q.barrier = r.barrier /\ q.active = r.active
         /\ q.pendingConflict = r.pendingConflict
         /\ q.effects = r.effects
    BY <2>9 DEF States
  <2> HIDE DEF q
  <2>13. Reacts(r, q)
    BY <2>5, <2>11, <2>12, Aside DEF Reacts
  <2> QED BY <2>5, <2>7, <2>10, <2>13, ReactsOn
<1> QED BY <1>1, <1>2

-----------------------------------------------------------------------------
(* The end of a commit.                                                    *)

\* A calm state, but for the commit that the local state may own.
Apart(s) ==
  /\ s \in States
  /\ IsFiniteSet(s.effects)
  /\ s.active["merge"] # 0 => s.merge \in Merges
  /\ ConflictIsOwned(s)

\* Every calm state is sound apart from its commit.
LEMMA CalmIsApart ==
  ASSUME NEW s, Calm(s)
  PROVE  Apart(s)
BY DEF Calm, Sound, Apart

\* A local state that has given up its commit, or has it in the file.
LEMMA GivenUp ==
  ASSUME NEW s, NEW r, Apart(s), r \in States,
         r.local \in {Clean, Dirty(0)},
         r.active["recovery"] = s.active["recovery"],
         r.active["merge"] = s.active["merge"],
         r.external = s.external, r.merge = s.merge, r.access = s.access,
         r.recovery = s.recovery, r.barrier = s.barrier,
         r.pendingConflict = s.pendingConflict, r.effects = s.effects
  PROVE  Reacts(s, r)
BY DEF Apart, Calm, Sound, ConflictIsOwned, Owned, Conflicting, Reacts, Leads,
       CallsGrow, CallsOf, CommitsOf, Clean, Dirty

\* What follows upon a local state that does not write does not make it write.
LEMMA StaysUnwritten ==
  ASSUME NEW s, NEW r, Reacts(s, r), s.local \in {Clean, Dirty(0)}
  PROVE  r.local.kind # "writing"
BY DEF Reacts, Leads, Clean, Dirty

\* A commit that never began is given up.
LEMMA CommitProvenNotStartedReacts ==
  ASSUME NEW s, Apart(s), NEW failure \in Failures
  PROVE  Reacts(s, CommitProvenNotStarted(s, failure))
<1> DEFINE d == Deactivate(s, "saveCommit")
           r == [d EXCEPT !.local = Dirty(0)]
<1>1. s \in States
  BY DEF Apart
<1>2. /\ r \in States /\ r.local = Dirty(0)
      /\ r.active["recovery"] = s.active["recovery"]
      /\ r.active["merge"] = s.active["merge"]
      /\ r.external = s.external /\ r.merge = s.merge /\ r.access = s.access
      /\ r.recovery = s.recovery /\ r.barrier = s.barrier
      /\ r.pendingConflict = s.pendingConflict /\ r.effects = s.effects
  <2>1. /\ d \in States /\ d.active["recovery"] = s.active["recovery"]
        /\ d.active["merge"] = s.active["merge"]
        /\ d.external = s.external /\ d.merge = s.merge
        /\ d.access = s.access /\ d.recovery = s.recovery
        /\ d.barrier = s.barrier /\ d.effects = s.effects
        /\ d.pendingConflict = s.pendingConflict
    BY <1>1 DEF Deactivate, States, Operations
  <2>2. Dirty(0) \in LocalStates
    BY DEF LocalStates, Dirty
  <2> HIDE DEF d
  <2> QED BY <2>1, <2>2 DEF States
<1>3. CommitProvenNotStarted(s, failure) = Refuse(r, failure)
  BY DEF CommitProvenNotStarted
<1> HIDE DEF r
<1>4. Reacts(s, r)
  BY <1>2, GivenUp
<1>5. Reacts(r, Refuse(r, failure))
  BY <1>4, RefuseReacts DEF Reacts
<1> QED BY <1>3, <1>4, <1>5, ReactsOn

\* A snapshot that cannot be taken ends the preparation, not a commit.
LEMMA SavePreparationFailedReacts ==
  ASSUME NEW s, Calm(s)
  PROVE  Reacts(s, SavePreparationFailed(s))
<1> DEFINE p == Deactivate(s, "savePreparation")
           r == [p EXCEPT !.local = Dirty(0)]
<1>1. Reacts(s, p)
  BY DeactivateReacts DEF Operations
<1>2. SavePreparationFailed(s) = Refuse(r, "localSave")
  BY DEF SavePreparationFailed
<1> HIDE DEF p
<1>3. Reacts(p, r)
  BY <1>1, DirtyReacts DEF Reacts
<1> HIDE DEF r
<1>4. Reacts(r, Refuse(r, "localSave"))
  BY <1>3, RefuseReacts DEF Reacts, Failures
<1> QED BY <1>1, <1>2, <1>3, <1>4, ReactsOn

\* An unknown outcome keeps the commit until its journal is read.
LEMMA EnterUncertainReacts ==
  ASSUME NEW s, Apart(s), s.local.kind = "writing"
  PROVE  /\ Reacts(s, EnterUncertainCommitOutcome(s))
         /\ EnterUncertainCommitOutcome(s).local.kind # "writing"
<1> DEFINE u == [token |-> s.local.token, reconciliation |-> 0,
                 rev |-> s.local.rev, expected |-> s.local.expected]
           r == [Deactivate(s, "saveCommit") EXCEPT
                   !.local = Dirty(0), !.issue = "recovery", !.uncertain = u]
           q == StartCommitReconciliation(r)
           f == RefuseCloseIfNeeded(q)
<1>1. s \in States
  BY DEF Apart
<1>2. u \in Uncertains
  <2>1. s.local \in LocalStates
    BY <1>1 DEF States
  <2> QED BY <2>1 DEF LocalStates, Clean, Uncertains
<1>3. EnterUncertainCommitOutcome(s) = f
  BY DEF EnterUncertainCommitOutcome
<1> HIDE DEF u
<1>4. r \in States
  <2>1. Deactivate(s, "saveCommit") \in States
    BY <1>1 DEF Deactivate, States
  <2>2. Dirty(0) \in LocalStates /\ "recovery" \in Failures
    BY DEF LocalStates, Dirty, Failures
  <2> QED BY <1>2, <2>1, <2>2 DEF States
<1>5. /\ r.local = Dirty(0)
      /\ r.active["recovery"] = s.active["recovery"]
      /\ r.active["merge"] = s.active["merge"]
      /\ r.external = s.external /\ r.merge = s.merge /\ r.access = s.access
      /\ r.recovery = s.recovery /\ r.barrier = s.barrier
      /\ r.pendingConflict = s.pendingConflict /\ r.effects = s.effects
  BY <1>1 DEF Deactivate, States, Operations
<1> HIDE DEF r
<1>6. Reacts(s, r)
  BY <1>4, <1>5, GivenUp
<1>7. Reacts(r, q)
  BY <1>6, StartCommitReconciliationReacts DEF Reacts
<1> HIDE DEF q
<1>8. Reacts(q, f)
  BY <1>7, RefuseCloseReacts DEF Reacts
<1> HIDE DEF f
<1>9. Reacts(r, f) /\ Reacts(s, f)
  BY <1>6, <1>7, <1>8, ReactsOn
<1> QED BY <1>3, <1>5, <1>9, StaysUnwritten

\* The two ways in which the state of a commit does not count for a merge
\* that is forgotten.
LEMMA InvalidateMergeApart ==
  ASSUME NEW s \in States
  PROVE  LET x == InvalidateMerge(s)
             y == InvalidateMerge([s EXCEPT !.local = Dirty(0)])
         IN  /\ x \in States
             /\ x.active = y.active /\ x.external = y.external
             /\ x.merge = y.merge /\ x.access = y.access
             /\ x.recovery = y.recovery /\ x.barrier = y.barrier
             /\ x.pendingConflict = y.pendingConflict
             /\ x.effects = y.effects /\ x.lifecycle = y.lifecycle
<1> DEFINE z == [s EXCEPT !.local = Dirty(0)]
           c == s.merge.origin.continuation
           sx == IF s.merge.origin = None THEN s
                 ELSE [s EXCEPT !.unresolvedDisplaced = c,
                                !.issue = "recovery"]
           zx == IF z.merge.origin = None THEN z
                 ELSE [z EXCEPT !.unresolvedDisplaced = c,
                                !.issue = "recovery"]
           kept(w) == {e \in w.effects :
                         ~(/\ e.op = "merge" /\ e.token = s.merge.token
                           /\ e.kind \in Deadlines
                                \cup {"prepareSave", "merge"})}
<1>1. z.merge = s.merge /\ z \in States
  BY DEF States, LocalStates, Dirty
<1>2. CASE s.merge = None
  BY <1>1, <1>2 DEF InvalidateMerge, States
<1>3. CASE s.merge # None
  <2>1. s.merge.origin # None => c \in Continuations
    BY <1>3 DEF States, Merges, Origins
  <2>2. ASSUME NEW d \in Continuations, NEW w \in States
        PROVE  [w EXCEPT !.unresolvedDisplaced = d,
                         !.issue = "recovery"] \in States
    <3>1. "recovery" \in Failures
      BY DEF Failures
    <3> QED BY <3>1 DEF States
  <2>3. sx \in States /\ zx \in States
    BY <1>1, <2>1, <2>2
  <2>4. /\ sx.active = zx.active /\ sx.external = zx.external
        /\ sx.access = zx.access
        /\ sx.recovery = zx.recovery /\ sx.barrier = zx.barrier
        /\ sx.pendingConflict = zx.pendingConflict
        /\ sx.effects = zx.effects /\ sx.lifecycle = zx.lifecycle
    BY <1>1 DEF States
  <2>5. /\ InvalidateMerge(s) =
             [Cancel(Deactivate(sx, "merge"), "merge", s.merge.token)
                EXCEPT !.merge = None, !.signalPending = TRUE]
        /\ InvalidateMerge(z) =
             [Cancel(Deactivate(zx, "merge"), "merge", s.merge.token)
                EXCEPT !.merge = None, !.signalPending = TRUE]
    BY <1>1, <1>3 DEF InvalidateMerge
  <2> HIDE DEF sx, zx, z
  <2>6. ASSUME NEW w \in States, NEW v,
               v = [Cancel(Deactivate(w, "merge"), "merge", s.merge.token)
                      EXCEPT !.merge = None, !.signalPending = TRUE]
        PROVE  /\ v \in States
               /\ v.active = [w.active EXCEPT !["merge"] = 0]
               /\ v.external = w.external /\ v.merge = None
               /\ v.access = w.access /\ v.recovery = w.recovery
               /\ v.barrier = w.barrier
               /\ v.pendingConflict = w.pendingConflict
               /\ v.effects = kept(w) /\ v.lifecycle = w.lifecycle
    <3> DEFINE t == s.merge.token
               d == Deactivate(w, "merge")
               k == Cancel(d, "merge", t)
    <3>1. /\ d \in States /\ d.active = [w.active EXCEPT !["merge"] = 0]
          /\ d.external = w.external /\ d.access = w.access
          /\ d.recovery = w.recovery /\ d.barrier = w.barrier
          /\ d.pendingConflict = w.pendingConflict
          /\ d.effects = w.effects /\ d.lifecycle = w.lifecycle
      BY DEF Deactivate, States
    <3> HIDE DEF d, t
    <3>2. /\ k \in States /\ k.active = d.active
          /\ k.external = d.external /\ k.access = d.access
          /\ k.recovery = d.recovery /\ k.barrier = d.barrier
          /\ k.pendingConflict = d.pendingConflict
          /\ k.lifecycle = d.lifecycle
      BY <3>1 DEF Cancel, States
    <3>3. k.effects = {e \in d.effects :
                         ~(/\ e.op = "merge" /\ e.token = t
                           /\ e.kind \in Deadlines
                                \cup {"prepareSave", "merge"})}
      BY <3>1 DEF Cancel, States
    <3>4. k.effects = kept(w)
      BY <3>1, <3>3 DEF t
    <3>5. v = [k EXCEPT !.merge = None, !.signalPending = TRUE]
      BY <2>6 DEF k, d, t
    <3> HIDE DEF k, kept
    <3>6. v \in States
      <4>1. k \in States
        BY <3>2
      <4>2. [k EXCEPT !.merge = None] \in States
              => [[k EXCEPT !.merge = None] EXCEPT !.signalPending = TRUE]
                   \in States
        BY SignalIsKept
      <4>3. [k EXCEPT !.merge = None] \in States
        BY <4>1 DEF States
      <4>4. v = [[k EXCEPT !.merge = None] EXCEPT !.signalPending = TRUE]
        BY <3>5, <4>1 DEF States
      <4> QED BY <4>2, <4>3, <4>4
    <3>7. /\ v.active = k.active
          /\ v.external = k.external /\ v.access = k.access
          /\ v.recovery = k.recovery /\ v.barrier = k.barrier
          /\ v.pendingConflict = k.pendingConflict /\ v.merge = None
          /\ v.lifecycle = k.lifecycle /\ v.effects = k.effects
      BY <3>2, <3>5 DEF States
    <3> QED BY <3>1, <3>2, <3>4, <3>6, <3>7
  <2> DEFINE x == InvalidateMerge(s)
             y == InvalidateMerge(z)
  <2>7. /\ x \in States
        /\ x.active = [sx.active EXCEPT !["merge"] = 0]
        /\ x.external = sx.external /\ x.merge = None
        /\ x.access = sx.access /\ x.recovery = sx.recovery
        /\ x.barrier = sx.barrier
        /\ x.pendingConflict = sx.pendingConflict
        /\ x.effects = kept(sx) /\ x.lifecycle = sx.lifecycle
    BY <2>3, <2>5, <2>6
  <2>8. /\ y \in States
        /\ y.active = [zx.active EXCEPT !["merge"] = 0]
        /\ y.external = zx.external /\ y.merge = None
        /\ y.access = zx.access /\ y.recovery = zx.recovery
        /\ y.barrier = zx.barrier
        /\ y.pendingConflict = zx.pendingConflict
        /\ y.effects = kept(zx) /\ y.lifecycle = zx.lifecycle
    BY <2>3, <2>5, <2>6
  <2>9. kept(sx) = kept(zx)
    BY <2>4
  <2> HIDE DEF x, y, kept
  <2>10. /\ x \in States
         /\ x.active = y.active /\ x.external = y.external
         /\ x.merge = y.merge /\ x.access = y.access
         /\ x.recovery = y.recovery /\ x.barrier = y.barrier
         /\ x.pendingConflict = y.pendingConflict
         /\ x.effects = y.effects /\ x.lifecycle = y.lifecycle
    BY <2>4, <2>7, <2>8, <2>9
  <2> QED BY <2>10 DEF x, y, z
<1> QED BY <1>2, <1>3

\* A commit that is in the file: its text becomes the baseline, and the bytes
\* that it displaced, if any, are handed on.
LEMMA SaveFinishedReacts ==
  ASSUME Stored, NEW s, Apart(s), s.local.kind = "writing", NEW answer,
         answer.displaced \in Entries \cup {None}, answer.inode \in Nat
  PROVE  /\ Reacts(s, SaveFinished(s, answer))
         /\ SaveFinished(s, answer).local.kind # "writing"
<1> DEFINE rev == s.local.rev
           displaced == answer.displaced
           committed == Durable(rev, answer.inode)
           d == Deactivate(s, "saveCommit")
           i == IF d.issue \in {"localSave", "closeDeadline"}
                THEN None ELSE d.issue
           s1 == [d EXCEPT !.issue = i]
           continuation ==
             [id |-> displaced.id, text |-> displaced.text,
              mergeBase |-> s.local.expected.text, localRev |-> s.source,
              pre |-> s.local.expected, committed |-> committed]
           s2 == [s1 EXCEPT !.baseline = committed]
           s3 == IF s.merge # None /\ s.merge.baseline # committed
                 THEN InvalidateMerge(s2) ELSE s2
           rebased == Rebased(s3.baseline, s.source)
           s4 == IF s.source.text = rev.text
                 THEN [s3 EXCEPT !.baseline = rebased, !.local = Clean]
                 ELSE [s3 EXCEPT !.local = Dirty(0)]
           b == [s1 EXCEPT !.local = Dirty(0),
                           !.pendingDisplaced = continuation]
           f == SaveFinished(s, answer)
<1>1. s \in States
  BY DEF Apart
<1>2. /\ s.local.token \in Nat \ {0} /\ rev \in Revisions
      /\ s.local.expected \in Durables
  <2>1. s.local \in LocalStates
    BY <1>1 DEF States
  <2> QED BY <2>1 DEF LocalStates, Clean
<1>3. committed \in Durables
  BY <1>2 DEF Durable, Durables, Revisions
<1>4. displaced # None => continuation \in Continuations
  BY <1>1, <1>2, <1>3 DEF Continuations, States, Entries, Durables, Texts
<1>5. \/ f = FailRecovery(s1)
      \/ displaced # None /\ f = StartDisplacedPersistence(b, continuation)
      \/ s4.cleanup # None /\ f = ResumeRecoveryCleanup(s4)
      \/ f = ContinueSynchronization(s4)
  BY DEF SaveFinished, s4, s3, s2, s1, b, d, i, rev, committed, continuation,
     displaced, rebased
<1> HIDE DEF rev, displaced, committed, f, continuation
<1>6. /\ s1 \in States /\ s1.local = s.local /\ s1.active["saveCommit"] = 0
      /\ s1.active["recovery"] = s.active["recovery"]
      /\ s1.active["merge"] = s.active["merge"]
      /\ s1.lifecycle = s.lifecycle
      /\ s1.external = s.external /\ s1.merge = s.merge
      /\ s1.access = s.access /\ s1.recovery = s.recovery
      /\ s1.barrier = s.barrier /\ s1.effects = s.effects
      /\ s1.pendingConflict = s.pendingConflict
  <2>1. /\ d \in States /\ d.local = s.local /\ d.active["saveCommit"] = 0
        /\ d.active["recovery"] = s.active["recovery"]
        /\ d.active["merge"] = s.active["merge"]
        /\ d.lifecycle = s.lifecycle
        /\ d.external = s.external /\ d.merge = s.merge
        /\ d.access = s.access /\ d.recovery = s.recovery
        /\ d.barrier = s.barrier /\ d.effects = s.effects
        /\ d.pendingConflict = s.pendingConflict
    BY <1>1 DEF Deactivate, States, Operations
  <2>2. i \in Failures \cup {None}
    BY <2>1 DEF States
  <2> HIDE DEF d, i
  <2> QED BY <2>1, <2>2 DEF States
<1> HIDE DEF s1
<1>7. CASE f = FailRecovery(s1)
  <2>1. Disturbed(s1) /\ s1.active["saveCommit"] # s1.local.token
    BY <1>2, <1>6 DEF Disturbed, Apart, ConflictIsOwned, Conflicting
  <2>2. Reacts(s1, f) /\ f.local.kind # "writing"
    BY <1>7, <2>1, FailRecoveryReacts
  <2>3. Leads(s, s1)
    BY <1>6 DEF Leads, CommitsOf, CallsOf, CallsGrow
  <2> QED BY <2>2, <2>3, LeadsOn DEF Reacts, f
<1>8. CASE displaced # None /\ f = StartDisplacedPersistence(b, continuation)
  <2>1. b \in States
    <3>1. Dirty(0) \in LocalStates
      BY DEF LocalStates, Dirty
    <3>2. continuation \in Continuations
      BY <1>4, <1>8
    <3> HIDE DEF continuation
    <3>3. \A g \in States : [g EXCEPT !.pendingDisplaced = continuation]
                              \in States
      BY <3>2 DEF States
    <3>4. s1 \in States
      BY <1>6
    <3>5. [s1 EXCEPT !.local = Dirty(0)] \in States
      BY <3>1, <3>4 DEF States
    <3>6. b = [[s1 EXCEPT !.local = Dirty(0)]
                 EXCEPT !.pendingDisplaced = continuation]
      BY <3>4 DEF States
    <3> HIDE DEF b
    <3> QED BY <3>3, <3>5, <3>6
  <2>2. /\ b.local = Dirty(0) /\ b.active = s1.active
        /\ b.external = s1.external /\ b.merge = s1.merge
        /\ b.access = s1.access /\ b.recovery = s1.recovery
        /\ b.barrier = s1.barrier /\ b.effects = s1.effects
        /\ b.pendingConflict = s1.pendingConflict
    BY <1>6 DEF States
  <2> HIDE DEF b
  <2>3. Reacts(s, b)
    BY <1>6, <2>1, <2>2, GivenUp
  <2>4. Reacts(b, f)
    BY <1>4, <1>8, <2>3, StartDisplacedPersistenceReacts DEF Reacts
  <2>5. f.local.kind # "writing"
    BY <2>2, <2>4, StaysUnwritten
  <2> QED BY <2>3, <2>4, <2>5, ReactsOn DEF f
<1>9. Reacts(s, s4) /\ s4.local \in {Clean, Dirty(0)}
  <2> DEFINE z == [s2 EXCEPT !.local = Dirty(0)]
             y == InvalidateMerge(z)
  <2>1. s2 \in States
    BY <1>3, <1>6 DEF States
  <2>2. /\ s2.active = s1.active
        /\ s2.external = s1.external /\ s2.merge = s1.merge
        /\ s2.access = s1.access /\ s2.recovery = s1.recovery
        /\ s2.barrier = s1.barrier /\ s2.effects = s1.effects
        /\ s2.pendingConflict = s1.pendingConflict
    BY <1>6 DEF States
  <2> HIDE DEF s2
  <2>3. /\ z \in States /\ z.local = Dirty(0) /\ z.active = s2.active
        /\ z.external = s2.external /\ z.merge = s2.merge
        /\ z.access = s2.access /\ z.recovery = s2.recovery
        /\ z.barrier = s2.barrier /\ z.effects = s2.effects
        /\ z.pendingConflict = s2.pendingConflict
    BY <2>1 DEF States, LocalStates, Dirty
  <2>4. LET x == InvalidateMerge(s2) IN
        /\ x \in States
        /\ x.active = y.active /\ x.external = y.external
        /\ x.merge = y.merge /\ x.access = y.access
        /\ x.recovery = y.recovery /\ x.barrier = y.barrier
        /\ x.pendingConflict = y.pendingConflict
        /\ x.effects = y.effects
    BY <2>1, InvalidateMergeApart
  <2> HIDE DEF z
  <2>5. Reacts(s, z)
    BY <1>6, <2>2, <2>3, GivenUp
  <2>6. Reacts(z, y)
    BY <2>5, InvalidateMergeReacts DEF Reacts
  <2> HIDE DEF y
  <2>7. Reacts(s, y) /\ Apart(y) /\ Apart(z)
    BY <2>5, <2>6, ReactsOn, CalmIsApart DEF Reacts
  <2>8. PICK w \in {y, z} :
          /\ s3 \in States
          /\ s3.active = w.active /\ s3.external = w.external
          /\ s3.merge = w.merge /\ s3.access = w.access
          /\ s3.recovery = w.recovery /\ s3.barrier = w.barrier
          /\ s3.pendingConflict = w.pendingConflict
          /\ s3.effects = w.effects
    <3>1. CASE s.merge # None /\ s.merge.baseline # committed
      <4>1. s3 = InvalidateMerge(s2)
        BY <3>1
      <4> HIDE DEF s3
      <4> QED BY <2>4, <4>1
    <3>2. CASE ~(s.merge # None /\ s.merge.baseline # committed)
      <4>1. s3 = s2
        BY <3>2
      <4> HIDE DEF s3
      <4> QED BY <2>1, <2>3, <4>1
    <3> QED BY <3>1, <3>2
  <2> HIDE DEF s3
  <2>9. rebased \in Durables
    BY <1>1, <2>8 DEF States, Revisions, Durables, Durable, Rebased
  <2> HIDE DEF rebased
  <2>10. /\ s4 \in States /\ s4.local \in {Clean, Dirty(0)}
         /\ s4.active = s3.active /\ s4.external = s3.external
         /\ s4.merge = s3.merge /\ s4.access = s3.access
         /\ s4.recovery = s3.recovery /\ s4.barrier = s3.barrier
         /\ s4.pendingConflict = s3.pendingConflict
         /\ s4.effects = s3.effects
    <3>1. Clean \in LocalStates /\ Dirty(0) \in LocalStates
      BY DEF LocalStates, Dirty
    <3> DEFINE g == [s3 EXCEPT !.baseline = rebased]
    <3>2. s3 \in States
      BY <2>8
    <3>3. /\ g \in States
          /\ g.active = s3.active /\ g.external = s3.external
          /\ g.merge = s3.merge /\ g.access = s3.access
          /\ g.recovery = s3.recovery /\ g.barrier = s3.barrier
          /\ g.pendingConflict = s3.pendingConflict
          /\ g.effects = s3.effects
      BY <2>9, <3>2 DEF States
    <3>4. [s3 EXCEPT !.baseline = rebased, !.local = Clean]
            = [g EXCEPT !.local = Clean]
      BY <3>2 DEF States
    <3> HIDE DEF g
    <3>5. ASSUME NEW h \in States, NEW l \in {Clean, Dirty(0)}
          PROVE  LET o == [h EXCEPT !.local = l] IN
                 /\ o \in States /\ o.local = l
                 /\ o.active = h.active /\ o.external = h.external
                 /\ o.merge = h.merge /\ o.access = h.access
                 /\ o.recovery = h.recovery /\ o.barrier = h.barrier
                 /\ o.pendingConflict = h.pendingConflict
                 /\ o.effects = h.effects
      <4>1. l \in LocalStates
        BY <3>1
      <4> QED BY <4>1 DEF States
    <3>6. CASE s.source.text = rev.text
      <4>1. s4 = [g EXCEPT !.local = Clean]
        BY <3>4, <3>6
      <4> HIDE DEF s4, Clean, Dirty
      <4> QED BY <3>3, <3>5, <4>1
    <3>7. CASE s.source.text # rev.text
      <4>1. s4 = [s3 EXCEPT !.local = Dirty(0)]
        BY <3>7
      <4> HIDE DEF s4, Clean, Dirty
      <4> QED BY <3>2, <3>5, <4>1
    <3> QED BY <3>6, <3>7
  <2> HIDE DEF s4
  <2>11. Reacts(w, s4)
    BY <2>7, <2>8, <2>10, GivenUp
  <2> QED BY <2>5, <2>7, <2>10, <2>11, ReactsOn DEF s4, s3, s2, rebased
<1> HIDE DEF s4
<1>10. CASE s4.cleanup # None /\ f = ResumeRecoveryCleanup(s4)
  <2>1. Reacts(s4, f)
    BY <1>9, <1>10, ResumeRecoveryCleanupReacts DEF Reacts
  <2> QED BY <1>9, <2>1, StaysUnwritten, ReactsOn DEF f
<1>11. CASE f = ContinueSynchronization(s4)
  <2>1. Reacts(s4, f)
    BY <1>9, <1>11, ContinueSynchronizationReacts DEF Reacts
  <2> QED BY <1>9, <2>1, StaysUnwritten, ReactsOn DEF f
<1> QED BY <1>5, <1>7, <1>8, <1>10, <1>11

\* A state on the way that takes up a commit again, but not to keep it.
LEMMA LeadsPast ==
  ASSUME NEW s, NEW t, NEW r, Leads(t, r), r.local.kind # "writing",
         t.effects = s.effects, t.pendingConflict = s.pendingConflict,
         t.active["recovery"] = s.active["recovery"]
  PROVE  Leads(s, r)
BY DEF Leads, CallsGrow, CallsOf, CommitsOf

\* The journal's answer about a commit whose outcome was unknown.
LEMMA CommitReconciliationFinishedReacts ==
  ASSUME Stored, NEW s, Calm(s), s.uncertain # None, NEW answer,
         answer.outcome \in {"committed", "notCommitted", "unresolved"},
         answer.displaced \in Entries \cup {None}, answer.inode \in Nat
  PROVE  Reacts(s, CommitReconciliationFinished(s, answer))
<1> DEFINE r == Deactivate(s, "commitReconciliation")
           f == CommitReconciliationFinished(s, answer)
           u == [r.uncertain EXCEPT !.reconciliation = 0]
           p == [r EXCEPT !.uncertain = u]
           q == [r EXCEPT !.uncertain = None, !.local = Dirty(0),
                          !.issue = None]
           local == [kind |-> "writing", token |-> s.uncertain.token,
                     rev |-> s.uncertain.rev,
                     expected |-> s.uncertain.expected]
           w == [r EXCEPT !.uncertain = None, !.issue = None,
                          !.active["saveCommit"] = s.uncertain.token,
                          !.local = local]
<1>1. s \in States /\ s.uncertain \in Uncertains
  BY DEF Calm, Sound, States
<1>2. Reacts(s, r)
  BY DeactivateReacts DEF Operations
<1>3. r \in States /\ r.uncertain = s.uncertain
      /\ r.active["recovery"] = s.active["recovery"]
      /\ r.effects = s.effects /\ r.pendingConflict = s.pendingConflict
  BY <1>1 DEF Deactivate, States, Operations
<1>4. \/ /\ answer.outcome = "unresolved"
         /\ f = Refuse([r EXCEPT !.uncertain.reconciliation = 0], "recovery")
      \/ answer.outcome = "notCommitted" /\ f = ContinueSynchronization(q)
      \/ answer.outcome = "committed" /\ f = SaveFinished(w, answer)
  BY DEF CommitReconciliationFinished
<1> HIDE DEF r, f
<1>5. [r EXCEPT !.uncertain.reconciliation = 0] = p
  BY <1>3 DEF States
<1>6. Reacts(s, Refuse(p, "recovery"))
  <2>1. u \in Uncertains
    BY <1>1, <1>3 DEF Uncertains
  <2> HIDE DEF u
  <2>2. p \in States
    BY <1>3, <2>1 DEF States
  <2>3. /\ p.lifecycle = r.lifecycle /\ p.local = r.local
        /\ p.external = r.external /\ p.merge = r.merge
        /\ p.access = r.access /\ p.recovery = r.recovery
        /\ p.barrier = r.barrier /\ p.active = r.active
        /\ p.pendingConflict = r.pendingConflict
        /\ p.effects = r.effects
    BY <1>3 DEF States
  <2> HIDE DEF p
  <2>4. Reacts(r, p)
    BY <1>2, <2>2, <2>3, Aside DEF Reacts
  <2>5. Reacts(p, Refuse(p, "recovery"))
    BY <2>4, RefuseReacts DEF Reacts, Failures
  <2> QED BY <1>2, <2>4, <2>5, ReactsOn
<1>7. Reacts(s, ContinueSynchronization(q))
  <2>1. q \in States
    BY <1>3 DEF States, LocalStates, Dirty
  <2>2. /\ q.lifecycle = r.lifecycle /\ q.local = Dirty(0)
        /\ q.external = r.external /\ q.merge = r.merge
        /\ q.access = r.access /\ q.recovery = r.recovery
        /\ q.barrier = r.barrier /\ q.active = r.active
        /\ q.pendingConflict = r.pendingConflict
        /\ q.effects = r.effects
    BY <1>3 DEF States
  <2> HIDE DEF q
  <2>3. Reacts(r, q)
    BY <1>2, <2>1, <2>2, Rewritten DEF Reacts
  <2>4. Reacts(q, ContinueSynchronization(q))
    BY <2>3, ContinueSynchronizationReacts DEF Reacts
  <2> QED BY <1>2, <2>3, <2>4, ReactsOn
<1>8. Reacts(s, SaveFinished(w, answer))
  <2>1. local \in LocalStates /\ local.kind = "writing"
    BY <1>1 DEF LocalStates, Uncertains
  <2> HIDE DEF local
  <2>2. w \in States
    <3>1. s.uncertain.token \in Nat
      BY <1>1 DEF Uncertains
    <3> QED BY <1>3, <2>1, <3>1 DEF States
  <2>3. /\ w.local = local /\ w.external = r.external /\ w.merge = r.merge
        /\ w.access = r.access /\ w.recovery = r.recovery
        /\ w.barrier = r.barrier /\ w.effects = r.effects
        /\ w.active["recovery"] = r.active["recovery"]
        /\ w.active["merge"] = r.active["merge"]
        /\ w.pendingConflict = r.pendingConflict
    BY <1>3 DEF States, Operations
  <2> HIDE DEF w
  <2>4. Apart(w)
    BY <1>2, <2>2, <2>3 DEF Reacts, Calm, Sound, Apart, ConflictIsOwned,
       Owned, Conflicting
  <2> DEFINE g == SaveFinished(w, answer)
  <2>5. Reacts(w, g) /\ g.local.kind # "writing"
    BY <2>1, <2>3, <2>4, SaveFinishedReacts
  <2> HIDE DEF g
  <2>6. Leads(s, g)
    BY <1>3, <2>3, <2>5, LeadsPast DEF Reacts
  <2> QED BY <2>5, <2>6 DEF Reacts, g
<1> QED BY <1>4, <1>5, <1>6, <1>7, <1>8 DEF f

\* A commit has begun: no other runs, and the local state owns it.
Begins(s, r) ==
  /\ Calm(r)
  /\ CommitsOf(s) = {}
  /\ \E e \in CommitsOf(r) :
       /\ CommitsOf(r) = {e} /\ e.answer = None
       /\ r.local.kind = "writing" /\ r.local.token = e.token
  /\ r.pendingConflict = s.pendingConflict
  /\ CallsGrow(s, r)

\* A text that is ready is committed, unless a commit that has been given up
\* still runs.
LEMMA SavePreparedReacts ==
  ASSUME NEW s, Calm(s)
  PROVE  Reacts(s, SavePrepared(s)) \/ Begins(s, SavePrepared(s))
<1>1. CASE ~(s.local.kind = "preparing" /\ s.baseline = s.local.expected)
  BY <1>1, Nothing DEF SavePrepared
<1>2. CASE s.local.kind = "preparing" /\ s.baseline = s.local.expected
  <2> DEFINE r == Deactivate(s, "savePreparation")
             t == FreshToken(s, "saveCommit")
             local == [s.local EXCEPT !.kind = "writing", !.token = t]
             w == [r EXCEPT !.active["saveCommit"] = t, !.local = local]
             request == [rev |-> s.local.rev, validated |-> FALSE,
                         expected |-> s.local.expected]
             e == Effect("commit", "saveCommit", t, request)
  <2>1. s \in States /\ s.local \in LocalStates
    BY DEF Calm, Sound, States
  <2>2. t \in Nat \ {0} /\ \A g \in s.effects :
                             g.op = "saveCommit" => g.token # t
    BY FreshTokenIsNew DEF Calm, Sound
  <2> HIDE DEF t
  <2>3. /\ s.local # Clean /\ s.local.token \in Nat \ {0}
        /\ s.local.rev \in Revisions /\ s.local.expected \in Durables
        /\ local \in LocalStates /\ local.kind = "writing"
        /\ local.token = t
    <3>1. s.local \in [kind : {"preparing", "writing"},
                        token : Nat \ {0}, rev : Revisions,
                        expected : Durables]
      BY <1>2, <2>1 DEF LocalStates, Clean
    <3>2. t \in Nat \ {0}
      BY <2>2
    <3>3. local \in [kind : {"preparing", "writing"}, token : Nat \ {0},
                     rev : Revisions, expected : Durables]
          /\ local.kind = "writing" /\ local.token = t
      BY <3>1, <3>2
    <3> HIDE DEF local
    <3> QED BY <1>2, <3>1, <3>3 DEF LocalStates, Clean
  <2>4. Reacts(s, r)
    BY DeactivateReacts DEF Operations
  <2>5. /\ r \in States /\ r.local = s.local /\ r.lifecycle = s.lifecycle
        /\ r.effects = s.effects /\ r.pendingConflict = s.pendingConflict
        /\ r.active["recovery"] = s.active["recovery"]
    BY <2>1 DEF Deactivate, States, Operations
  <2>6. SavePrepared(s) = IF BridgeIsBusy(s)
                          THEN EnterUncertainCommitOutcome(w)
                          ELSE Emit(w, e)
    <3>1. w = [r EXCEPT !.active["saveCommit"] = t,
                        !.local = [@ EXCEPT !.kind = "writing", !.token = t]]
      BY <2>5 DEF States
    <3> QED BY <1>2, <3>1 DEF SavePrepared, r, t, e, request
  <2> HIDE DEF r, local
  <2>7. w \in States
    <3>1. t \in Nat /\ local \in LocalStates /\ r \in States
      BY <2>2, <2>3, <2>5
    <3> QED BY <3>1 DEF States
  <2>8. /\ w.local = local /\ w.external = r.external /\ w.merge = r.merge
        /\ w.access = r.access /\ w.recovery = r.recovery
        /\ w.barrier = r.barrier /\ w.effects = r.effects
        /\ w.lifecycle = r.lifecycle
        /\ w.active["recovery"] = r.active["recovery"]
        /\ w.active["merge"] = r.active["merge"]
        /\ w.active["saveCommit"] = t
        /\ w.pendingConflict = r.pendingConflict
    BY <2>5 DEF States, Operations
  <2> HIDE DEF w
  <2>9. s.lifecycle \in {"active", "closing"}
    BY <2>3 DEF Calm, Sound
  <2>10. Calm(w)
    BY <2>3, <2>4, <2>5, <2>7, <2>8, <2>9 DEF Reacts, Calm, Sound,
       ConflictIsOwned, Owned, Conflicting
  <2>11. CASE BridgeIsBusy(s)
    <3> DEFINE f == EnterUncertainCommitOutcome(w)
    <3>1. Reacts(w, f) /\ f.local.kind # "writing"
      BY <2>3, <2>8, <2>10, CalmIsApart, EnterUncertainReacts
    <3> HIDE DEF f
    <3>2. Leads(s, f)
      BY <2>5, <2>8, <3>1, LeadsPast DEF Reacts
    <3> QED BY <2>6, <2>11, <3>1, <3>2 DEF Reacts, f
  <2>12. CASE ~BridgeIsBusy(s)
    <3> DEFINE f == Emit(w, e)
    <3>1. /\ e \in Effects /\ e.kind = "commit" /\ e.op = "saveCommit"
          /\ e.token = t /\ e.answer = None
      BY <2>2, <2>3 DEF Effect, Effects, Commits, EffectsOf
    <3> HIDE DEF e
    <3>2. /\ f \in States /\ f.effects = w.effects \cup {e}
          /\ f.local = w.local /\ f.external = w.external
          /\ f.merge = w.merge /\ f.access = w.access
          /\ f.recovery = w.recovery /\ f.barrier = w.barrier
          /\ f.lifecycle = w.lifecycle /\ f.active = w.active
          /\ f.pendingConflict = w.pendingConflict
      <4>1. w.effects \in SUBSET Effects
        BY <2>7 DEF States
      <4>2. w.effects \cup {e} \in SUBSET Effects
        BY <3>1, <4>1
      <4> DEFINE x == w.effects \cup {e}
      <4>3. f = [w EXCEPT !.effects = x]
        BY <2>7 DEF Emit, States
      <4> HIDE DEF x, f
      <4>4. /\ f \in States /\ f.effects = x
            /\ f.local = w.local /\ f.external = w.external
            /\ f.merge = w.merge /\ f.access = w.access
            /\ f.recovery = w.recovery /\ f.barrier = w.barrier
            /\ f.lifecycle = w.lifecycle /\ f.active = w.active
            /\ f.pendingConflict = w.pendingConflict
        BY <2>7, <4>2, <4>3 DEF States, x
      <4> QED BY <4>4 DEF x
    <3> HIDE DEF f
    <3>3. IsFiniteSet(f.effects)
      BY <2>10, <3>2, FS_AddElement DEF Calm, Sound
    <3>4. Calm(f)
      BY <2>10, <3>2, <3>3 DEF Calm, Sound, ConflictIsOwned, Owned,
         Conflicting
    <3>5. CommitsOf(s) = {} /\ CommitsOf(f) = {e}
      BY <2>5, <2>8, <2>12, <3>1, <3>2 DEF CommitsOf, BridgeIsBusy
    <3>6. CallsOf(f) = CallsOf(s)
      BY <2>5, <2>8, <3>1, <3>2 DEF CallsOf
    <3>7. CallsGrow(s, f)
      BY <2>5, <2>8, <3>2, <3>6 DEF CallsGrow
    <3>8. Begins(s, f)
      BY <2>3, <2>5, <2>8, <3>1, <3>2, <3>4, <3>5, <3>7 DEF Begins
    <3> QED BY <2>6, <2>12, <3>8 DEF f
  <2> QED BY <2>11, <2>12
<1> QED BY <1>1, <1>2

-----------------------------------------------------------------------------
(* Handlers of the file monitor, of reads and of merges.                   *)

\* A notice of the monitor is remembered or leads to a read.
LEMMA MonitorSignaledReacts ==
  ASSUME NEW s, Calm(s)
  PROVE  Reacts(s, MonitorSignaled(s))
<1> DEFINE p == [s EXCEPT !.signalPending = TRUE]
<1>1. Reacts(s, p)
  <2>1. p \in States
    BY DEF Calm, Sound, States
  <2> QED BY <2>1, Aside DEF Calm, Sound, States
<1> HIDE DEF p
<1> QED BY <1>1, Nothing, ScheduleExternalReadReacts DEF MonitorSignaled, p

\* The delay has passed: the file is read.
LEMMA ExternalReadDeadlineReacts ==
  ASSUME NEW s, Calm(s), NEW t \in Nat \ {0},
         s.external.kind = "debouncing", s.active["externalRead"] = t
  PROVE  Reacts(s, ExternalReadDeadlineFired(s))
<1> DEFINE x == [s.external EXCEPT !.kind = "reading"]
           r == [s EXCEPT !.external = x]
           request == [expected |-> s.external.expected]
           e == Effect("read", "externalRead", t, request)
<1>1. s \in States /\ s.external \in ExternalStates
  BY DEF Calm, Sound, States
<1>2. s.external \in [kind : {"debouncing", "reading"}, token : Nat,
                      expected : Durables]
  BY <1>1 DEF ExternalStates, Idle
<1>3. x \in ExternalStates /\ s.external # Idle
  BY <1>2 DEF ExternalStates, Idle
<1>4. e \in Effects /\ e.kind # "commit" /\ e.op # "recovery"
  BY <1>2 DEF Effect, Effects, Reads, EffectsOf
<1>5. ExternalReadDeadlineFired(s) = Emit(r, e)
  BY <1>1 DEF ExternalReadDeadlineFired, States
<1> HIDE DEF x, e
<1>6. r \in States
  BY <1>1, <1>3 DEF States
<1>7. Reacts(s, r)
  BY <1>1, <1>3, <1>6 DEF Calm, Sound, ConflictIsOwned, Owned, Conflicting,
     Reacts, Leads, CallsGrow, CallsOf, CommitsOf, States
<1> HIDE DEF r
<1>8. Reacts(r, Emit(r, e))
  BY <1>4, <1>7, EmitReacts DEF Reacts
<1> QED BY <1>5, <1>7, <1>8, ReactsOn

\* A merge begins when no conflict waits for its turn.
LEMMA StartMergeReacts ==
  ASSUME NEW s, Calm(s), Owned(s), NEW merge \in Merges
  PROVE  Reacts(s, StartMerge(s, merge))
<1> DEFINE t == FreshToken(s, "merge")
           e == Effect("merge", "merge", t, None)
           r == Start(s, "merge", "merge", None)
           m == [merge EXCEPT !.token = r.active["merge"]]
           q == [r EXCEPT !.merge = m]
<1>1. t \in Nat \ {0}
  BY FreshTokenIsNew DEF Calm, Sound
<1> HIDE DEF t
<1>2. e \in Effects /\ e.kind # "commit" /\ e.op # "recovery"
  BY <1>1 DEF Effect, Effects, Signals, EffectsOf
<1>3. s \in States /\ IsFiniteSet(s.effects)
  BY DEF Calm, Sound
<1>4. /\ r = [s EXCEPT !.active = r.active, !.effects = r.effects]
      /\ r.effects = s.effects \cup {e}
      /\ r.active = [s.active EXCEPT !["merge"] = t]
  BY <1>3 DEF Start, Emit, States, t
<1> HIDE DEF e, r
<1>5. /\ r.active \in [Operations -> Nat] /\ r.active["merge"] = t
      /\ r.active["recovery"] = s.active["recovery"]
      /\ r.active["saveCommit"] = s.active["saveCommit"]
  BY <1>1, <1>3, <1>4 DEF States, Operations
<1>6. r \in States /\ SameBesidesCalls(s, r)
  <2> DEFINE x == r.active
             y == r.effects
  <2>1. s.effects \in SUBSET Effects
    BY <1>3 DEF States
  <2>2. y \in SUBSET Effects /\ x \in [Operations -> Nat]
        /\ r = [s EXCEPT !.active = x, !.effects = y]
    BY <1>2, <1>4, <1>5, <2>1
  <2> HIDE DEF x, y
  <2> QED BY <1>3, <2>2, WithCalls
<1>7. m \in Merges
  BY <1>1, <1>5 DEF Merges
<1> HIDE DEF m
<1>8. q \in States
  BY <1>6, <1>7 DEF States
<1>9. /\ q.merge = m /\ q.lifecycle = r.lifecycle /\ q.local = r.local
      /\ q.external = r.external /\ q.access = r.access
      /\ q.recovery = r.recovery /\ q.barrier = r.barrier
      /\ q.active = r.active /\ q.effects = r.effects
      /\ q.pendingConflict = r.pendingConflict
  BY <1>6 DEF States
<1>10. StartMerge(s, merge) = q
  BY DEF StartMerge, q, r, m
<1> HIDE DEF q
<1>11. CommitsOf(q) = CommitsOf(s) /\ CallsOf(q) = CallsOf(s)
  BY <1>2, <1>4, <1>9 DEF CommitsOf, CallsOf
<1>12. IsFiniteSet(q.effects)
  BY <1>3, <1>4, <1>9, FS_AddElement
<1>13. Sound(q)
  BY <1>5, <1>6, <1>7, <1>8, <1>9, <1>12 DEF Sound, Calm, SameBesidesCalls
<1>14. ConflictIsOwned(q)
  BY <1>5, <1>6, <1>9 DEF ConflictIsOwned, Owned, Conflicting, Calm,
     SameBesidesCalls
<1>15. Leads(s, q)
  BY <1>5, <1>6, <1>9, <1>11 DEF Leads, CallsGrow, SameBesidesCalls
<1> QED BY <1>10, <1>13, <1>14, <1>15 DEF Reacts, Calm

\* The text of another program is merged with the editor's.
LEMMA MergeWithLocalReacts ==
  ASSUME NEW s, Calm(s), Owned(s), NEW external \in Files
  PROVE  Reacts(s, MergeWithLocal(s, external))
<1> DEFINE r == InvalidatePreparation(s)
           m == ExternalMerge(s, external)
<1>1. Reacts(s, r)
  BY InvalidatePreparationReacts
<1>2. /\ r.active["recovery"] = s.active["recovery"]
      /\ r.access = s.access /\ r.barrier = s.barrier
      /\ r.recovery = s.recovery /\ r.pendingConflict = s.pendingConflict
  <2>1. s \in States
    BY DEF Calm, Sound
  <2>2. CASE r = s
    BY <2>2
  <2>3. CASE r # s
    <3> DEFINE d == Deactivate(s, "savePreparation")
               c == Cancel(d, "savePreparation", s.local.token)
    <3>1. /\ d \in States /\ d.active["recovery"] = s.active["recovery"]
          /\ d.access = s.access /\ d.barrier = s.barrier
          /\ d.recovery = s.recovery /\ d.pendingConflict = s.pendingConflict
      BY <2>1 DEF Deactivate, States, Operations
    <3>2. r = [c EXCEPT !.local = Dirty(0)]
      BY <2>3 DEF InvalidatePreparation
    <3> HIDE DEF d, r
    <3>3. /\ c \in States /\ c.active = d.active
          /\ c.access = d.access /\ c.barrier = d.barrier
          /\ c.recovery = d.recovery /\ c.pendingConflict = d.pendingConflict
      BY <3>1 DEF Cancel, States
    <3> HIDE DEF c
    <3> QED BY <3>1, <3>2, <3>3 DEF States
  <2> QED BY <2>2, <2>3
<1>3. m \in Merges
  <2>1. s \in States
    BY DEF Calm, Sound
  <2> QED BY <2>1 DEF States, ExternalMerge, Merges, Durables
<1> HIDE DEF r, m
<1>4. Owned(r)
  BY <1>2 DEF Owned, Conflicting
<1>5. Reacts(r, StartMerge(r, m))
  BY <1>1, <1>3, <1>4, StartMergeReacts DEF Reacts
<1> QED BY <1>1, <1>5, ReactsOn DEF MergeWithLocal, r, m

\* What a read found: nothing new, a text that the editor takes, or one that
\* is merged.
LEMMA ExternalReadFinishedReacts ==
  ASSUME Stored, NEW s, Calm(s), s.external.kind = "reading",
         NEW answer \in ReadAnswers
  PROVE  Reacts(s, ExternalReadFinished(s, answer))
<1> DEFINE d == Deactivate(s, "externalRead")
           r == [d EXCEPT !.external = Idle]
           n == [r EXCEPT !.signalPending = TRUE]
           revision == [number |-> s.source.number + 1,
                        text |-> answer.file.text]
           baseline == Durable(revision, answer.file.inode)
           c == [r EXCEPT !.source = revision, !.baseline = baseline,
                          !.issue = None]
           f == ExternalReadFinished(s, answer)
<1>1. s \in States /\ s.external # Idle
  BY DEF Calm, Sound, States, Idle
<1>2. Owned(s)
  BY <1>1 DEF Calm, ConflictIsOwned
<1>3. Reacts(s, d)
  BY DeactivateReacts DEF Operations
<1>4. /\ d \in States /\ d.active["recovery"] = s.active["recovery"]
      /\ d.access = s.access /\ d.barrier = s.barrier
      /\ d.recovery = s.recovery /\ d.pendingConflict = s.pendingConflict
  BY <1>1 DEF Deactivate, States, Operations
<1>5. \/ f = Refuse(r, "externalRead") \/ f = Refuse(r, "attachment")
      \/ f = ContinueSynchronization(n) \/ f = n
      \/ f = ContinueSynchronization(r)
      \/ answer.outcome = "changed" /\ f = MergeWithLocal(r, answer.file)
      \/ /\ answer.outcome = "changed" /\ s.local.kind = "clean"
         /\ f = ContinueSynchronization(c)
  <2>1. s.local.kind \in {"clean", "dirty", "preparing", "writing"}
        /\ answer.outcome \in {"failed", "missing", "unchanged", "changed"}
    BY <1>1 DEF States, LocalStates, Clean, ReadAnswers
  <2> QED BY <2>1 DEF ExternalReadFinished
<1> HIDE DEF d, f
<1>6. r \in States
  BY <1>4 DEF States, ExternalStates
<1>7. /\ r.lifecycle = d.lifecycle /\ r.local = d.local /\ r.merge = d.merge
      /\ r.external = Idle /\ r.access = d.access
      /\ r.recovery = d.recovery /\ r.barrier = d.barrier
      /\ r.active = d.active /\ r.effects = d.effects
      /\ r.pendingConflict = d.pendingConflict
  BY <1>4 DEF States
<1> HIDE DEF r
<1>8. Reacts(s, r) /\ Owned(r)
  <2>1. Owned(r)
    BY <1>2, <1>4, <1>7 DEF Owned, Conflicting
  <2>2. Reacts(d, r)
    BY <1>3, <1>6, <1>7 DEF Calm, Sound, ConflictIsOwned, Owned, Conflicting,
       Reacts, Leads, CallsGrow, CallsOf, CommitsOf
  <2> QED BY <1>3, <2>1, <2>2, ReactsOn
<1>9. Reacts(r, n)
  <2>1. n \in States
    BY <1>6 DEF States
  <2>2. /\ n.lifecycle = r.lifecycle /\ n.local = r.local
        /\ n.external = r.external /\ n.merge = r.merge
        /\ n.access = r.access /\ n.recovery = r.recovery
        /\ n.barrier = r.barrier /\ n.active = r.active
        /\ n.pendingConflict = r.pendingConflict
        /\ n.effects = r.effects
    BY <1>6 DEF States
  <2> HIDE DEF n
  <2> QED BY <1>8, <2>1, <2>2, Aside DEF Reacts
<1>10. ASSUME answer.outcome = "changed"
       PROVE  Reacts(r, c) /\ answer.file \in Files
  <2>1. answer.file \in Files
    BY <1>10 DEF ReadAnswers
  <2>2. revision \in Revisions /\ baseline \in Durables
    BY <1>1, <2>1 DEF States, Files, Revisions, Durables, Durable
  <2> HIDE DEF revision, baseline
  <2>3. c \in States
    BY <1>6, <2>2 DEF States
  <2>4. /\ c.lifecycle = r.lifecycle /\ c.local = r.local
        /\ c.external = r.external /\ c.merge = r.merge
        /\ c.access = r.access /\ c.recovery = r.recovery
        /\ c.barrier = r.barrier /\ c.active = r.active
        /\ c.pendingConflict = r.pendingConflict
        /\ c.effects = r.effects
    BY <1>6 DEF States
  <2> HIDE DEF c
  <2> QED BY <1>8, <2>1, <2>3, <2>4, Aside DEF Reacts
<1> HIDE DEF n, c
<1>11. /\ Reacts(r, Refuse(r, "externalRead"))
       /\ Reacts(r, Refuse(r, "attachment"))
  BY <1>8, RefuseReacts DEF Reacts, Failures
<1>12. /\ Reacts(r, ContinueSynchronization(r))
       /\ Reacts(n, ContinueSynchronization(n))
  BY <1>8, <1>9, ContinueSynchronizationReacts DEF Reacts
<1>13. answer.outcome = "changed" => Reacts(r, MergeWithLocal(r, answer.file))
  BY <1>8, <1>10, MergeWithLocalReacts DEF Reacts
<1>14. answer.outcome = "changed" => Reacts(c, ContinueSynchronization(c))
  BY <1>10, ContinueSynchronizationReacts DEF Reacts
<1>15. Reacts(r, f)
  BY <1>5, <1>9, <1>10, <1>11, <1>12, <1>13, <1>14, ReactsOn
<1> QED BY <1>8, <1>15, ReactsOn DEF f

\* A merge that is done, and is about what the editor and the file still
\* hold: the editor takes it, or a conflict is put in the recovery store.
LEMMA MergeFinishedReacts ==
  ASSUME Stored, NEW s, Calm(s), s.merge \in Merges, s.merge # None,
         NEW outcome \in Texts \cup {None}
  PROVE  Reacts(s, MergeFinished(s, outcome))
<1> DEFINE m == s.merge
           d == Deactivate(s, "merge")
           r == [d EXCEPT !.merge = None]
           observed == Durable([m.local EXCEPT !.text = m.external.text],
                               m.external.inode)
           revision == [number |-> s.source.number + 1, text |-> outcome]
           merged == [r EXCEPT !.source = revision, !.local = Dirty(0),
                               !.issue = None]
           v == [r EXCEPT !.unresolvedDisplaced = m.origin.continuation]
           n == [r EXCEPT !.signalPending = TRUE]
           o == [merged EXCEPT !.baseline = observed]
           cleanup == [records |-> m.origin.records,
                       target |-> m.origin.target,
                       purpose |-> "discardResolvedDisplacedPreimage",
                       min |-> s.source.number + 1]
           l == [merged EXCEPT !.unresolvedDisplaced = None,
                               !.cleanup = cleanup]
           f == MergeFinished(s, outcome)
<1>1. s \in States /\ Owned(s)
  BY DEF Calm, Sound, ConflictIsOwned
<1>2. /\ m.local \in Revisions /\ m.external \in Files
      /\ m.origin # None => m.origin \in Origins
  BY DEF Merges
<1>3. /\ observed \in Durables
      /\ outcome # None => revision \in Revisions
      /\ m.origin # None => cleanup \in Cleanups
                            /\ m.origin.continuation \in Continuations
  BY <1>1, <1>2 DEF Revisions, Files, Durables, Durable, States, Cleanups,
     Origins, DiscardPurposes
<1>4. Reacts(s, d)
  BY DeactivateReacts DEF Operations
<1>5. /\ d \in States /\ d.active["recovery"] = s.active["recovery"]
      /\ d.active["merge"] = 0
      /\ d.access = s.access /\ d.barrier = s.barrier
      /\ d.recovery = s.recovery /\ d.pendingConflict = s.pendingConflict
  BY <1>1 DEF Deactivate, States, Operations
<1>6. \/ m.origin # None /\ f = Refuse(v, "recovery")
      \/ f = ContinueSynchronization(n)
      \/ outcome # None /\ f = ContinueSynchronization(o)
      \/ outcome # None /\ f = FailRecovery(merged)
      \/ outcome # None /\ m.origin # None /\ f = ContinueSynchronization(l)
      \/ f = PersistLocalConflict(r, m.external, m.local.text)
      \/ m.origin # None /\ f = PersistDisplacedConflict(r, m)
  BY DEF MergeFinished
<1> HIDE DEF d, f, observed, revision, cleanup, m
<1>7. r \in States
  BY <1>5 DEF States
<1>8. /\ r.lifecycle = d.lifecycle /\ r.local = d.local /\ r.merge = None
      /\ r.external = d.external /\ r.access = d.access
      /\ r.recovery = d.recovery /\ r.barrier = d.barrier
      /\ r.active = d.active /\ r.effects = d.effects
      /\ r.pendingConflict = d.pendingConflict
  BY <1>5 DEF States
<1> HIDE DEF r
<1>9. Reacts(s, r) /\ Owned(r)
  <2>1. Owned(r)
    BY <1>1, <1>5, <1>8 DEF Owned, Conflicting
  <2>2. Reacts(d, r)
    BY <1>4, <1>5, <1>7, <1>8 DEF Calm, Sound, ConflictIsOwned, Owned,
       Conflicting, Reacts, Leads, CallsGrow, CallsOf, CommitsOf
  <2> QED BY <1>4, <2>1, <2>2, ReactsOn
<1>10. m.origin # None => Reacts(r, v)
  <2> SUFFICES ASSUME m.origin # None PROVE Reacts(r, v)
    OBVIOUS
  <2>1. v \in States
    BY <1>3, <1>7 DEF States
  <2>2. /\ v.lifecycle = r.lifecycle /\ v.local = r.local
        /\ v.external = r.external /\ v.merge = r.merge
        /\ v.access = r.access /\ v.recovery = r.recovery
        /\ v.barrier = r.barrier /\ v.active = r.active
        /\ v.pendingConflict = r.pendingConflict
        /\ v.effects = r.effects
    BY <1>7 DEF States
  <2> HIDE DEF v
  <2> QED BY <1>9, <2>1, <2>2, Aside DEF Reacts
<1>11. Reacts(r, n)
  <2>1. n \in States
    BY <1>7 DEF States
  <2>2. /\ n.lifecycle = r.lifecycle /\ n.local = r.local
        /\ n.external = r.external /\ n.merge = r.merge
        /\ n.access = r.access /\ n.recovery = r.recovery
        /\ n.barrier = r.barrier /\ n.active = r.active
        /\ n.pendingConflict = r.pendingConflict
        /\ n.effects = r.effects
    BY <1>7 DEF States
  <2> HIDE DEF n
  <2> QED BY <1>9, <2>1, <2>2, Aside DEF Reacts
<1> HIDE DEF v, n
<1>12. outcome # None => Reacts(r, merged) /\ Reacts(merged, o)
                         /\ (m.origin # None => Reacts(merged, l))
  <2> SUFFICES ASSUME outcome # None
               PROVE  /\ Reacts(r, merged) /\ Reacts(merged, o)
                      /\ m.origin # None => Reacts(merged, l)
    OBVIOUS
  <2>1. merged \in States
    <3>1. Dirty(0) \in LocalStates
      BY DEF LocalStates, Dirty
    <3> QED BY <1>3, <1>7, <3>1 DEF States
  <2>2. /\ merged.lifecycle = r.lifecycle /\ merged.local = Dirty(0)
        /\ merged.external = r.external /\ merged.merge = r.merge
        /\ merged.access = r.access /\ merged.recovery = r.recovery
        /\ merged.barrier = r.barrier /\ merged.active = r.active
        /\ merged.pendingConflict = r.pendingConflict
        /\ merged.effects = r.effects
    BY <1>7 DEF States
  <2> HIDE DEF merged
  <2>3. Reacts(r, merged)
    BY <1>9, <2>1, <2>2, Rewritten DEF Reacts
  <2>4. Reacts(merged, o)
    <3>1. o \in States
      BY <1>3, <2>1 DEF States
    <3>2. /\ o.lifecycle = merged.lifecycle /\ o.local = merged.local
          /\ o.external = merged.external /\ o.merge = merged.merge
          /\ o.access = merged.access /\ o.recovery = merged.recovery
          /\ o.barrier = merged.barrier /\ o.active = merged.active
          /\ o.pendingConflict = merged.pendingConflict
          /\ o.effects = merged.effects
      BY <2>1 DEF States
    <3> HIDE DEF o
    <3> QED BY <2>3, <3>1, <3>2, Aside DEF Reacts
  <2>5. m.origin # None => Reacts(merged, l)
    <3> SUFFICES ASSUME m.origin # None PROVE Reacts(merged, l)
      OBVIOUS
    <3>1. l \in States
      BY <1>3, <2>1 DEF States
    <3>2. /\ l.lifecycle = merged.lifecycle /\ l.local = merged.local
          /\ l.external = merged.external /\ l.merge = merged.merge
          /\ l.access = merged.access /\ l.recovery = merged.recovery
          /\ l.barrier = merged.barrier /\ l.active = merged.active
          /\ l.pendingConflict = merged.pendingConflict
          /\ l.effects = merged.effects
      BY <2>1 DEF States
    <3> HIDE DEF l
    <3> QED BY <2>3, <3>1, <3>2, Aside DEF Reacts
  <2> QED BY <2>3, <2>4, <2>5
<1> HIDE DEF merged, o, l
<1>13. /\ Reacts(n, ContinueSynchronization(n))
       /\ outcome # None => Reacts(o, ContinueSynchronization(o))
       /\ outcome # None /\ m.origin # None =>
            Reacts(l, ContinueSynchronization(l))
  BY <1>11, <1>12, ContinueSynchronizationReacts DEF Reacts
<1>14. /\ m.origin # None => Reacts(v, Refuse(v, "recovery"))
       /\ outcome # None => Reacts(merged, FailRecovery(merged))
  BY <1>10, <1>12, RefuseReacts, CalmIsEnough, FailRecoveryReacts
     DEF Reacts, Failures
<1>15. /\ Reacts(r, PersistLocalConflict(r, m.external, m.local.text))
       /\ m.origin # None => Reacts(r, PersistDisplacedConflict(r, m))
  <2>1. m \in Merges /\ m.local.text \in Texts
    BY <1>2 DEF m, Revisions
  <2> QED BY <1>2, <1>9, <2>1, PersistLocalConflictReacts,
             PersistDisplacedConflictReacts DEF Reacts
<1>16. Reacts(r, f)
  BY <1>6, <1>10, <1>11, <1>12, <1>13, <1>14, <1>15, ReactsOn
<1> QED BY <1>9, <1>16, ReactsOn DEF f

\* A monitor that fails leaves the merge and the commit alone.
LEMMA MonitorFailedReacts ==
  ASSUME NEW s, Calm(s)
  PROVE  Reacts(s, MonitorFailed(s))
<1> DEFINE r == Deactivate(s, "monitor")
<1>1. Reacts(s, r)
  BY DeactivateReacts DEF Operations
<1> HIDE DEF r
<1>2. Reacts(r, [r EXCEPT !.issue = "monitor"])
  BY <1>1, IssueReacts DEF Reacts, Failures
<1> QED BY <1>1, <1>2, ReactsOn DEF MonitorFailed, r

-----------------------------------------------------------------------------
(* Handlers of recovery results.                                           *)

\* A recovery operation has ended and no conflict is in the way.
LEMMA RecoveryEnds ==
  ASSUME NEW s, NEW r, Sound(s), Free(s), r \in States,
         r.lifecycle = s.lifecycle, r.local = s.local,
         r.external = s.external, r.merge = s.merge,
         r.pendingConflict = s.pendingConflict, r.effects = s.effects,
         r.active["recovery"] = 0,
         r.active["saveCommit"] = s.active["saveCommit"],
         r.active["merge"] = s.active["merge"],
         \/ r.recovery.kind # "persisting"
         \/ Calm(s) /\ r.recovery = s.recovery
  PROVE  Reacts(s, r)
BY DEF Free, Calm, Sound, ConflictIsOwned, Owned, Conflicting, Reacts, Leads,
       CallsGrow, CallsOf, CommitsOf

\* New records change nothing but the cleanup that was made for them.
LEMMA CarryCleanupReacts ==
  ASSUME NEW s \in States, NEW records \in RecordLists
  PROVE  LET r == CarryCleanup(s, records) IN
         /\ r \in States /\ r.lifecycle = s.lifecycle /\ r.local = s.local
         /\ r.external = s.external /\ r.merge = s.merge
         /\ r.access = s.access /\ r.recovery = s.recovery
         /\ r.barrier = s.barrier /\ r.active = s.active
         /\ r.pendingConflict = s.pendingConflict
         /\ r.effects = s.effects
<1>1. CASE s.cleanup = None
  BY <1>1 DEF CarryCleanup
<1>2. CASE s.cleanup # None
  <2> DEFINE c == [s.cleanup EXCEPT !.records = records]
             r == [s EXCEPT !.cleanup = c]
  <2>1. c \in Cleanups
    BY <1>2, RecoveryParts DEF Cleanups
  <2>2. CarryCleanup(s, records) = r
    BY <1>2 DEF CarryCleanup, States
  <2> HIDE DEF c
  <2>3. r \in States
    BY <2>1 DEF States
  <2>4. /\ r.lifecycle = s.lifecycle /\ r.local = s.local
        /\ r.external = s.external /\ r.merge = s.merge
        /\ r.access = s.access /\ r.recovery = s.recovery
        /\ r.barrier = s.barrier /\ r.active = s.active
        /\ r.pendingConflict = s.pendingConflict
        /\ r.effects = s.effects
    BY DEF States
  <2> HIDE DEF r
  <2> QED BY <2>2, <2>3, <2>4
<1> QED BY <1>1, <1>2

\* The records of the document are known.
LEMMA RecoveryLoadedReacts ==
  ASSUME Stored, NEW s, Calm(s), s.access = "loading",
         NEW records \in RecordLists
  PROVE  Reacts(s, RecoveryLoaded(s, records))
<1> DEFINE d == Deactivate(s, "recovery")
           s1 == [d EXCEPT !.access = "ready"]
           t == FreshToken(s1, "monitor")
           s2 == IF s1.active["monitor"] = 0
                 THEN [s1 EXCEPT !.active["monitor"] = t] ELSE s1
           p == [s2 EXCEPT !.access = "failed", !.issue = "recovery"]
           c == CarryCleanup(s2, records)
           q == [c EXCEPT !.recovery = RecoveryOf(records)]
           f == RecoveryLoaded(s, records)
<1>1. s \in States /\ IsFiniteSet(s.effects) /\ Free(s) /\ Sound(s)
  BY CalmIsFree DEF Calm, Sound
<1>2. f = p \/ f = ContinueSynchronization(q)
  BY DEF RecoveryLoaded, StartMonitor
<1> HIDE DEF f
<1>3. /\ d \in States /\ d.lifecycle = s.lifecycle /\ d.local = s.local
      /\ d.external = s.external /\ d.merge = s.merge
      /\ d.recovery = s.recovery /\ d.effects = s.effects
      /\ d.pendingConflict = s.pendingConflict
      /\ d.active["recovery"] = 0
      /\ d.active["saveCommit"] = s.active["saveCommit"]
      /\ d.active["merge"] = s.active["merge"]
  BY <1>1 DEF Deactivate, States, Operations
<1> HIDE DEF d
<1>4. /\ s1 \in States /\ s1.lifecycle = s.lifecycle /\ s1.local = s.local
      /\ s1.external = s.external /\ s1.merge = s.merge
      /\ s1.recovery = s.recovery /\ s1.effects = s.effects
      /\ s1.pendingConflict = s.pendingConflict
      /\ s1.active = d.active
  BY <1>3 DEF States
<1> HIDE DEF s1
<1>5. t \in Nat
  BY <1>1, <1>4, FreshTokenIsNew
<1> HIDE DEF t
<1>6. /\ s2 \in States /\ s2.lifecycle = s.lifecycle /\ s2.local = s.local
      /\ s2.external = s.external /\ s2.merge = s.merge
      /\ s2.recovery = s.recovery /\ s2.effects = s.effects
      /\ s2.pendingConflict = s.pendingConflict
      /\ s2.active["recovery"] = 0
      /\ s2.active["saveCommit"] = s.active["saveCommit"]
      /\ s2.active["merge"] = s.active["merge"]
  <2> DEFINE w == [s1 EXCEPT !.active["monitor"] = t]
  <2>1. /\ w \in States /\ w.lifecycle = s.lifecycle /\ w.local = s.local
        /\ w.external = s.external /\ w.merge = s.merge
        /\ w.recovery = s.recovery /\ w.effects = s.effects
        /\ w.pendingConflict = s.pendingConflict
        /\ w.active["recovery"] = 0
        /\ w.active["saveCommit"] = s.active["saveCommit"]
        /\ w.active["merge"] = s.active["merge"]
    BY <1>3, <1>4, <1>5 DEF States, Operations
  <2>2. s2 \in {w, s1}
    OBVIOUS
  <2> HIDE DEF w, s2
  <2> QED BY <1>3, <1>4, <2>1, <2>2
<1> HIDE DEF s2
<1>7. Reacts(s, p)
  <2>1. p \in States
    <3>1. "recovery" \in Failures
      BY DEF Failures
    <3> QED BY <1>6, <3>1 DEF States
  <2>2. /\ p.lifecycle = s2.lifecycle /\ p.local = s2.local
        /\ p.external = s2.external /\ p.merge = s2.merge
        /\ p.recovery = s2.recovery /\ p.active = s2.active
        /\ p.pendingConflict = s2.pendingConflict
        /\ p.effects = s2.effects
    BY <1>6 DEF States
  <2> HIDE DEF p
  <2> QED BY <1>1, <1>6, <2>1, <2>2, RecoveryEnds
<1>8. Reacts(s, q)
  <2> DEFINE o == RecoveryOf(records)
  <2>1. o \in RecoveryStates /\ o.kind # "persisting"
    BY DEF RecoveryOf, RecoveryStates, Clear, Available
  <2>2. /\ c \in States /\ c.lifecycle = s2.lifecycle
        /\ c.local = s2.local /\ c.external = s2.external
        /\ c.merge = s2.merge /\ c.active = s2.active
        /\ c.pendingConflict = s2.pendingConflict
        /\ c.effects = s2.effects
    BY <1>6, CarryCleanupReacts
  <2> HIDE DEF o, c
  <2>3. /\ q \in States /\ q.recovery = o
        /\ q.lifecycle = c.lifecycle /\ q.local = c.local
        /\ q.external = c.external /\ q.merge = c.merge
        /\ q.active = c.active /\ q.pendingConflict = c.pendingConflict
        /\ q.effects = c.effects
    <3>1. q = [c EXCEPT !.recovery = o]
      BY DEF o
    <3> HIDE DEF q
    <3> QED BY <2>1, <2>2, <3>1 DEF States
  <2> HIDE DEF q
  <2> QED BY <1>1, <1>6, <2>1, <2>2, <2>3, RecoveryEnds
<1> HIDE DEF q, p
<1>9. Reacts(q, ContinueSynchronization(q))
  BY <1>8, ContinueSynchronizationReacts DEF Reacts
<1> QED BY <1>2, <1>7, <1>8, <1>9, ReactsOn DEF f

\* What is neither the local state, an effect, a token nor the recovery.
Beside(s, r) ==
  /\ r \in States
  /\ r.lifecycle = s.lifecycle /\ r.local = s.local
  /\ r.external = s.external /\ r.merge = s.merge /\ r.access = s.access
  /\ r.recovery = s.recovery /\ r.barrier = s.barrier
  /\ r.pendingConflict = s.pendingConflict /\ r.active = s.active
  /\ r.effects = s.effects

\* Such changes keep what is promised of a state.
LEMMA BesideIsCalm ==
  ASSUME NEW s, NEW r, Calm(s), Beside(s, r)
  PROVE  /\ Reacts(s, r)
         /\ Conflicting(r) <=> Conflicting(s)
BY Aside DEF Beside, Conflicting

\* A cleanup that has been carried out, or that follows the records.
LEMMA AfterDiscardCleanupBeside ==
  ASSUME NEW s \in States, NEW attempt, NEW records \in RecordLists
  PROVE  Beside(s, AfterDiscardCleanup(s, attempt, records))
<1> DEFINE f == AfterDiscardCleanup(s, attempt, records)
           n == [s EXCEPT !.cleanup = None]
           c == CarryCleanup(s, records)
<1>1. f \in {s, n, c}
  BY DEF AfterDiscardCleanup
<1>2. Beside(s, s)
  BY DEF Beside
<1>3. Beside(s, n)
  <2>1. n \in States
    BY DEF States
  <2>2. /\ n.lifecycle = s.lifecycle /\ n.local = s.local
        /\ n.external = s.external /\ n.merge = s.merge
        /\ n.access = s.access /\ n.recovery = s.recovery
        /\ n.barrier = s.barrier /\ n.active = s.active
        /\ n.pendingConflict = s.pendingConflict /\ n.effects = s.effects
    BY DEF States
  <2> HIDE DEF n
  <2> QED BY <2>1, <2>2 DEF Beside
<1>4. Beside(s, c)
  <2> HIDE DEF c
  <2> QED BY CarryCleanupReacts DEF Beside, c
<1> HIDE DEF f, n, c
<1> QED BY <1>1, <1>2, <1>3, <1>4 DEF f

\* A discard has been carried out.
LEMMA DiscardedBeside ==
  ASSUME NEW s \in States, NEW attempt, NEW records \in RecordLists
  PROVE  Beside(s, Discarded(s, attempt, records))
<1> DEFINE a == AfterDiscardCleanup(s, attempt, records)
           n == [a EXCEPT !.unresolvedDisplaced = None]
           f == Discarded(s, attempt, records)
<1>1. Beside(s, a)
  BY AfterDiscardCleanupBeside
<1>2. f \in {a, n}
  BY DEF Discarded, ClearUnresolved
<1> HIDE DEF a, f
<1>3. Beside(a, n)
  <2>1. n \in States
    BY <1>1 DEF States, Beside
  <2>2. /\ n.lifecycle = a.lifecycle /\ n.local = a.local
        /\ n.external = a.external /\ n.merge = a.merge
        /\ n.access = a.access /\ n.recovery = a.recovery
        /\ n.barrier = a.barrier /\ n.active = a.active
        /\ n.pendingConflict = a.pendingConflict /\ n.effects = a.effects
    BY <1>1 DEF States, Beside
  <2> HIDE DEF n
  <2> QED BY <2>1, <2>2 DEF Beside
<1> HIDE DEF n
<1> QED BY <1>1, <1>2, <1>3 DEF Beside, f

\* The baseline of a commit whose displaced bytes are durable.
LEMMA ApplyCommittedBaselineBeside ==
  ASSUME NEW s \in States, NEW c \in Continuations
  PROVE  Beside(s, ApplyCommittedBaseline(s, c))
<1> DEFINE f == ApplyCommittedBaseline(s, c)
           n == [s EXCEPT !.baseline = c.committed]
<1>1. f \in {s, n}
  BY DEF ApplyCommittedBaseline
<1> HIDE DEF f
<1>2. c.committed \in Durables
  BY DEF Continuations
<1>3. Beside(s, n)
  <2>1. n \in States
    BY <1>2 DEF States, Durables
  <2>2. /\ n.lifecycle = s.lifecycle /\ n.local = s.local
        /\ n.external = s.external /\ n.merge = s.merge
        /\ n.access = s.access /\ n.recovery = s.recovery
        /\ n.barrier = s.barrier /\ n.active = s.active
        /\ n.pendingConflict = s.pendingConflict /\ n.effects = s.effects
    BY DEF States
  <2> HIDE DEF n
  <2> QED BY <2>1, <2>2 DEF Beside
<1> HIDE DEF n
<1> QED BY <1>1, <1>3 DEF Beside, f

\* The displaced bytes are in the recovery store and are no longer pending.
LEMMA RawStoredBeside ==
  ASSUME NEW s \in States, NEW c \in Continuations, NEW records \in RecordLists
  PROVE  Beside(s, CarryCleanup([s EXCEPT !.pendingDisplaced = None,
                                          !.unresolvedDisplaced = c], records))
<1> DEFINE n == [s EXCEPT !.pendingDisplaced = None,
                          !.unresolvedDisplaced = c]
<1>1. n \in States
  BY DEF States
<1>2. Beside(s, n)
  <2>1. /\ n.lifecycle = s.lifecycle /\ n.local = s.local
        /\ n.external = s.external /\ n.merge = s.merge
        /\ n.access = s.access /\ n.recovery = s.recovery
        /\ n.barrier = s.barrier /\ n.active = s.active
        /\ n.pendingConflict = s.pendingConflict /\ n.effects = s.effects
    BY DEF States
  <2> HIDE DEF n
  <2> QED BY <1>1, <2>1 DEF Beside
<1> HIDE DEF n
<1>3. Beside(n, CarryCleanup(n, records))
  BY <1>1, CarryCleanupReacts DEF Beside
<1>4. Beside(s, CarryCleanup(n, records))
  BY <1>2, <1>3 DEF Beside
<1> QED BY <1>4 DEF n

\* What a recovery request says tells what it is for.
LEMMA AttemptKinds ==
  ASSUME NEW a \in AnyAttempt
  PROVE  /\ a.discard # None => a \in DiscardAttempts
         /\ a.discard = None => a \in ConflictAttempts \cup DisplacedAttempts
         /\ a.purpose = "persistConflict" <=> a \in ConflictAttempts
         /\ a.purpose = "persistDisplacedPreimage" <=> a \in DisplacedAttempts
<1>1. \A d \in DiscardTargets : d # None
  BY TextAssumption
<1> QED BY <1>1 DEF AnyAttempt, ConflictAttempts, DisplacedAttempts,
     DiscardAttempts, DiscardPurposes

\* A text that was held until it was stored is given up.
Releases(s, r) ==
  /\ Calm(r)
  /\ CommitsOf(r) = CommitsOf(s)
  /\ r.local.kind = "writing" => r.local = s.local
  /\ CallsGrow(s, r)

\* What a stored conflict leaves to be discarded later is a cleanup.
LEMMA CleanupAfterPersistIsTyped ==
  ASSUME NEW s \in States, NEW a \in ConflictAttempts,
         NEW records \in RecordLists
  PROVE  CleanupAfterPersist(s, a, records) \in Cleanups \cup {None}
<1> DEFINE c == a.cleanup
           t == DecodedTarget(a.entry)
           x == [records |-> records, target |-> c.target,
                 purpose |-> c.purpose, min |-> c.min]
           y == [records |-> records, target |-> t,
                 purpose |-> "discardRestoredRecords",
                 min |-> s.source.number]
           f == CleanupAfterPersist(s, a, records)
<1>1. /\ c # None /\ f = x
      \/ f = y
      \/ f = None
  BY DEF CleanupAfterPersist
<1>2. c # None => x \in Cleanups
  <2>1. c # None => c \in Plans
    BY DEF ConflictAttempts
  <2> QED BY <2>1 DEF Plans, Cleanups
<1>3. y \in Cleanups
  <2>1. t \in DiscardTargets
    BY DEF ConflictAttempts, DecodedTarget, DiscardTargets
  <2>2. s.source.number \in Nat
    BY DEF States, Revisions
  <2> HIDE DEF t
  <2> QED BY <2>1, <2>2 DEF Cleanups, DiscardPurposes
<1> HIDE DEF f, x, y
<1> QED BY <1>1, <1>2, <1>3 DEF f

\* The text of a conflict is in the store.
LEMMA ConflictPersistedReleases ==
  ASSUME Stored, NEW s, Calm(s), NEW a \in ConflictAttempts,
         NEW records \in RecordLists
  PROVE  Releases(s, FinishRecoveryMutation(ConflictPersisted(s, a, records),
                                            records))
<1> DEFINE c == CleanupAfterPersist(s, a, records)
           x == [s EXCEPT !.pendingConflict = None, !.cleanup = c]
<1>1. s \in States
  BY DEF Calm, Sound
<1>2. c \in Cleanups \cup {None}
  BY <1>1, CleanupAfterPersistIsTyped
<1> HIDE DEF c
<1>3. x \in States
  BY <1>1, <1>2 DEF States
<1>4. /\ x.lifecycle = s.lifecycle /\ x.local = s.local
      /\ x.merge = s.merge /\ x.active = s.active /\ x.effects = s.effects
      /\ x.pendingConflict = None
  BY <1>1 DEF States
<1>5. ConflictPersisted(s, a, records) = x
  BY DEF ConflictPersisted, c, x
<1> HIDE DEF x
<1>6. Sound(x) /\ Free(x)
  BY <1>3, <1>4 DEF Calm, Sound, Free
<1> DEFINE r == FinishRecoveryMutation(x, records)
<1>7. Reacts(x, r)
  BY <1>6, FinishRecoveryMutationReacts
<1> HIDE DEF r
<1>8. Releases(s, r)
  BY <1>4, <1>7 DEF Releases, Reacts, Leads, CommitsOf, CallsGrow, CallsOf
<1> QED BY <1>5, <1>8 DEF r

\* A recovery that stores displaced bytes stores no conflict.
LEMMA DisplacedIsFree ==
  ASSUME NEW s, Calm(s), s.recovery.kind = "persisting",
         s.recovery.attempt \notin ConflictAttempts
  PROVE  ~Conflicting(s) /\ Free(s)
<1>1. s.recovery.attempt \in AnyAttempt
  BY RecoveryParts DEF Calm, Sound
<1>2. ~Conflicting(s)
  BY <1>1, AttemptKinds DEF Conflicting
<1> QED BY <1>2, CalmIsFree

\* An active merge that is invalidated leaves the text that is held alone.
LEMMA InvalidateMergeHolds ==
  ASSUME NEW s \in States
  PROVE  InvalidateMerge(s).pendingConflict = s.pendingConflict
<1> DEFINE t == [s EXCEPT
                   !.unresolvedDisplaced = s.merge.origin.continuation,
                   !.issue = "recovery"]
           g(x) == [Cancel(Deactivate(x, "merge"), "merge", s.merge.token)
                      EXCEPT !.merge = None, !.signalPending = TRUE]
<1>1. InvalidateMerge(s) \in {s, g(s), g(t)}
  BY DEF InvalidateMerge
<1>2. g(s).pendingConflict = s.pendingConflict
  BY DEF Cancel, Deactivate, States
<1>3. g(t).pendingConflict = s.pendingConflict
  BY DEF Cancel, Deactivate, States
<1> HIDE DEF g, t
<1> QED BY <1>1, <1>2, <1>3

\* The displaced bytes are durable, and the merge with them begins, is
\* refused or has to wait.
LEMMA RawRecoveryPersistedReacts ==
  ASSUME Stored, NEW s, Calm(s), s.recovery.kind = "persisting",
         s.recovery.attempt \in DisplacedAttempts,
         NEW records \in RecordLists, NEW decodes
  PROVE  Reacts(s, RawRecoveryPersisted(s, records, decodes))
<1> DEFINE a == s.recovery.attempt
           c == a.continuation
           s1 == CarryCleanup([s EXCEPT !.pendingDisplaced = None,
                                        !.unresolvedDisplaced = c], records)
           d == [Deactivate(s1, "recovery") EXCEPT
                   !.access = "ready", !.recovery = Available(records)]
           s2 == ApplyCommittedBaseline(d, c)
           s3 == IF s2.merge # None /\ s2.merge.baseline # c.committed
                 THEN InvalidateMerge(s2) ELSE s2
           l == IF c.committed = Rebased(c.committed, c.localRev)
                THEN Clean ELSE Dirty(0)
           i == IF s3.issue \in {"localSave", "closeDeadline"}
                THEN None ELSE s3.issue
           s4 == [s3 EXCEPT !.unresolvedDisplaced = c, !.local = l,
                            !.issue = i]
           m == [token |-> 0, baseline |-> c.committed,
                 base |-> c.mergeBase, local |-> c.localRev,
                 external |-> [text |-> c.text, inode |-> 0],
                 origin |-> [records |-> records,
                             target |-> RawTarget({a.entry}),
                             continuation |-> c]]
           f == RawRecoveryPersisted(s, records, decodes)
<1>1. s \in States
  BY DEF Calm, Sound
<1>2. c \in Continuations /\ a.entry \in Entries
  BY DEF DisplacedAttempts
<1>3. ~Conflicting(s) /\ Free(s)
  <2>1. a \notin ConflictAttempts
    BY DEF DisplacedAttempts, ConflictAttempts
  <2> QED BY <2>1, DisplacedIsFree
<1>4. \/ f = FailRecovery(s)
      \/ f = FinishRecoveryMutation(s1, records)
      \/ CanResumeIndependentCleanup(s2) /\ f = ResumeRecoveryCleanup(s2)
      \/ f = Refuse(s2, "recovery")
      \/ s.pendingConflict = None /\ f = StartMerge(s4, m)
      \/ s.pendingConflict = None /\ f = Refuse(s4, "recovery")
  <2> HIDE DEF s1
  <2>1. [s3 EXCEPT !.unresolvedDisplaced = c, !.local = l,
                   !.issue = IF @ \in {"localSave", "closeDeadline"}
                             THEN None ELSE @] = s4
    BY DEF s4, i
  <2> HIDE DEF s4, s3, s2, d, m, l, i
  <2> QED BY <2>1 DEF RawRecoveryPersisted, s1, s2, s3, s4, d, m, l, i
<1>5. Beside(s, s1)
  BY <1>1, <1>2, RawStoredBeside
<1> HIDE DEF f, s1, a
<1>6. Reacts(s, s1) /\ Free(s1)
  BY <1>3, <1>5, BesideIsCalm DEF Free, Beside
<1>7. Reacts(s, d) /\ d.pendingConflict = s.pendingConflict
  <2>1. s1 \in States
    BY <1>5 DEF Beside
  <2> DEFINE j == Deactivate(s1, "recovery")
             k == [j EXCEPT !.access = "ready"]
             x == Available(records)
  <2>2. k \in States
    <3>1. j \in States
      BY <2>1 DEF Deactivate, States, Operations
    <3> HIDE DEF j
    <3> QED BY <3>1 DEF States
  <2>3. d \in States /\ d.recovery = Available(records)
    <3>1. x \in RecoveryStates
      BY DEF RecoveryStates, Available
    <3>2. d = [k EXCEPT !.recovery = x]
      <4>1. j \in States
        BY <2>1 DEF Deactivate, States, Operations
      <4>2. d = [j EXCEPT !.access = "ready", !.recovery = x]
        OBVIOUS
      <4> HIDE DEF j, x, d
      <4> QED BY <4>1, <4>2 DEF States
    <3> HIDE DEF k, x, d
    <3>3. d \in States /\ d.recovery = x
      BY <2>2, <3>1, <3>2 DEF States
    <3> QED BY <3>3 DEF x
  <2>4. /\ d.lifecycle = s1.lifecycle /\ d.local = s1.local
        /\ d.external = s1.external /\ d.merge = s1.merge
        /\ d.pendingConflict = s1.pendingConflict /\ d.effects = s1.effects
        /\ d.active["recovery"] = 0
        /\ d.active["saveCommit"] = s1.active["saveCommit"]
        /\ d.active["merge"] = s1.active["merge"]
    BY <2>1 DEF Deactivate, States, Operations
  <2>5. d.recovery.kind # "persisting"
    BY <2>3 DEF Available
  <2> HIDE DEF d
  <2>6. Sound(s)
    BY DEF Calm
  <2> QED BY <1>3, <1>5, <2>3, <2>4, <2>5, <2>6, RecoveryEnds DEF Beside
<1> HIDE DEF d
<1>8. Reacts(s, s2) /\ s2 \in States /\ s2.pendingConflict = s.pendingConflict
  <2>1. Beside(d, s2)
    BY <1>2, <1>7, ApplyCommittedBaselineBeside DEF Reacts, Calm, Sound
  <2> HIDE DEF s2
  <2>2. Reacts(d, s2)
    BY <1>7, <2>1, BesideIsCalm DEF Reacts
  <2> QED BY <1>7, <2>1, <2>2, ReactsOn DEF Beside
<1> HIDE DEF s2
<1>9. Reacts(s, s3) /\ s3 \in States /\ s3.pendingConflict = s.pendingConflict
  <2>1. Reacts(s2, InvalidateMerge(s2))
    BY <1>8, InvalidateMergeReacts DEF Reacts
  <2>2. Reacts(s2, s2)
    BY <1>8, Nothing DEF Reacts
  <2>3. InvalidateMerge(s2).pendingConflict = s.pendingConflict
    BY <1>8, InvalidateMergeHolds
  <2>4. s3 \in {InvalidateMerge(s2), s2}
    OBVIOUS
  <2> HIDE DEF s3
  <2>5. Reacts(s2, s3) /\ s3.pendingConflict = s.pendingConflict
    BY <1>8, <2>1, <2>2, <2>3, <2>4
  <2> QED BY <1>8, <2>5, ReactsOn DEF Reacts, Calm, Sound
<1>10. i \in Failures \cup {None}
  BY <1>9 DEF States
<1> HIDE DEF s3, i
<1>11. l \in {Clean, Dirty(0)} /\ l \in LocalStates
  BY DEF LocalStates, Clean, Dirty
<1> HIDE DEF l
<1>12. Reacts(s, s4) /\ s4.pendingConflict = s.pendingConflict
  <2>1. s4 \in States
    BY <1>2, <1>9, <1>10, <1>11 DEF States
  <2>2. /\ s4.lifecycle = s3.lifecycle /\ s4.local = l
        /\ s4.external = s3.external /\ s4.merge = s3.merge
        /\ s4.access = s3.access /\ s4.recovery = s3.recovery
        /\ s4.barrier = s3.barrier /\ s4.active = s3.active
        /\ s4.pendingConflict = s3.pendingConflict
        /\ s4.effects = s3.effects
    BY <1>9 DEF States
  <2> HIDE DEF s4
  <2>3. Reacts(s3, s4)
    BY <1>9, <1>11, <2>1, <2>2, Rewritten DEF Reacts
  <2> QED BY <1>9, <2>2, <2>3, ReactsOn
<1> HIDE DEF s4
<1>13. m \in Merges
  <2>1. RawTarget({a.entry}) \in DiscardTargets
    BY <1>2 DEF RawTarget, DiscardTargets
  <2>2. [text |-> c.text, inode |-> 0] \in Files
    BY <1>2 DEF Continuations, Files
  <2>3. /\ c.committed \in Durables /\ c.mergeBase \in Texts
        /\ c.localRev \in Revisions
    BY <1>2 DEF Continuations
  <2> HIDE DEF c
  <2> QED BY <1>2, <2>1, <2>2, <2>3 DEF Merges, Origins
<1> HIDE DEF m
<1>14. CASE f = FailRecovery(s)
  BY <1>14, CalmIsEnough, FailRecoveryReacts DEF f
<1>15. CASE f = FinishRecoveryMutation(s1, records)
  <2>1. Reacts(s1, f)
    BY <1>6, <1>15, FinishRecoveryMutationReacts DEF Reacts, Calm
  <2> QED BY <1>6, <2>1, ReactsOn DEF f
<1>16. CASE CanResumeIndependentCleanup(s2) /\ f = ResumeRecoveryCleanup(s2)
  <2>1. Reacts(s2, f)
    BY <1>8, <1>16, ResumeRecoveryCleanupReacts
       DEF Reacts, CanResumeIndependentCleanup, CanResumeCleanup
  <2> QED BY <1>8, <2>1, ReactsOn DEF f
<1>17. CASE f = Refuse(s2, "recovery")
  <2>1. Reacts(s2, f)
    BY <1>8, <1>17, RefuseReacts DEF Reacts, Failures
  <2> QED BY <1>8, <2>1, ReactsOn DEF f
<1>18. CASE s.pendingConflict = None /\ f = StartMerge(s4, m)
  <2>1. Owned(s4)
    BY <1>12, <1>18 DEF Owned
  <2>2. Reacts(s4, f)
    BY <1>12, <1>13, <1>18, <2>1, StartMergeReacts DEF Reacts
  <2> QED BY <1>12, <2>2, ReactsOn DEF f
<1>19. CASE s.pendingConflict = None /\ f = Refuse(s4, "recovery")
  <2>1. Reacts(s4, f)
    BY <1>12, <1>19, RefuseReacts DEF Reacts, Failures
  <2> QED BY <1>12, <2>1, ReactsOn DEF f
<1> QED BY <1>4, <1>14, <1>15, <1>16, <1>17, <1>18, <1>19 DEF f

\* A mutation has been carried out.  Only that of a conflict gives up a text.
LEMMA MutationFinishedReacts ==
  ASSUME Stored, NEW s, Calm(s), s.recovery.kind = "persisting",
         NEW records \in RecordLists, NEW decodes
  PROVE  LET r == MutationFinished(s, records, decodes) IN
         \/ Reacts(s, r)
         \/ Conflicting(s) /\ Releases(s, r)
<1> DEFINE a == s.recovery.attempt
           x == Discarded(s, a, records)
           y == ConflictPersisted(s, a, records)
           r == MutationFinished(s, records, decodes)
<1>1. s \in States /\ Sound(s)
  BY DEF Calm, Sound
<1>2. a \in AnyAttempt
  BY <1>1, RecoveryParts
<1>3. \/ a.discard # None /\ r = FinishRecoveryMutation(x, records)
      \/ r = s
      \/ /\ a.discard = None /\ a.purpose = "persistConflict"
         /\ r = FinishRecoveryMutation(y, records)
      \/ /\ a.discard = None /\ a.purpose # "persistConflict"
         /\ r = RawRecoveryPersisted(s, records, decodes)
  <2> HIDE DEF x, y
  <2> QED BY DEF MutationFinished, Persisted, x, y
<1> HIDE DEF r
<1>4. CASE a.discard # None /\ r = FinishRecoveryMutation(x, records)
  <2>1. Free(s)
    <3>1. a \notin ConflictAttempts
      BY <1>2, <1>4, AttemptKinds DEF ConflictAttempts
    <3> QED BY <3>1, DisplacedIsFree
  <2>2. Beside(s, x)
    BY <1>1, DiscardedBeside
  <2> HIDE DEF x
  <2>3. Reacts(s, x) /\ Free(x)
    BY <2>1, <2>2, BesideIsCalm DEF Free, Beside
  <2>4. Reacts(x, r)
    BY <1>4, <2>3, FinishRecoveryMutationReacts DEF Reacts, Calm
  <2> QED BY <2>3, <2>4, ReactsOn DEF r
<1>5. CASE r = s
  BY <1>5, Nothing DEF r
<1>6. CASE /\ a.discard = None /\ a.purpose = "persistConflict"
           /\ r = FinishRecoveryMutation(y, records)
  <2>1. a \in ConflictAttempts
    BY <1>2, <1>6, AttemptKinds
  <2>2. Releases(s, r)
    BY <1>6, <2>1, ConflictPersistedReleases
  <2> QED BY <1>6, <2>2 DEF Conflicting, r
<1>7. CASE /\ a.discard = None /\ a.purpose # "persistConflict"
           /\ r = RawRecoveryPersisted(s, records, decodes)
  <2>1. a \in DisplacedAttempts
    BY <1>2, <1>7, AttemptKinds
  <2> QED BY <1>7, <2>1, RawRecoveryPersistedReacts DEF r
<1> QED BY <1>3, <1>4, <1>5, <1>6, <1>7 DEF r

\* The records tell whether a mutation took place; only when the entry of a
\* conflict is among them its text is given up.
LEMMA ReconciledReacts ==
  ASSUME Stored, NEW s, Calm(s), s.recovery.kind = "persisting",
         s.barrier, NEW records \in RecordLists
  PROVE  LET r == Reconciled(s, records) IN
         \/ Reacts(s, r)
         \/ /\ Conflicting(s) /\ Releases(s, r)
            /\ s.recovery.attempt.entry \in ToSet(records.decoded)
<1> DEFINE a == s.recovery.attempt
           c == a.continuation
           x == Discarded(s, a, records)
           y == ConflictPersisted(s, a, records)
           w == CarryCleanup([s EXCEPT !.pendingDisplaced = None,
                                       !.unresolvedDisplaced = c], records)
           z == ApplyCommittedBaseline(w, c)
           v == [Deactivate(s, "recovery") EXCEPT !.access = "ready"]
           r == Reconciled(s, records)
<1>1. s \in States /\ Sound(s)
  BY DEF Calm, Sound
<1>2. a \in AnyAttempt
  BY <1>1, RecoveryParts
<1>3. Free(s)
  BY CalmIsFree
<1>4. \/ r = s
      \/ r = FinishRecoveryMutation(s, records)
      \/ r = FinishRecoveryMutation(x, records)
      \/ /\ a.discard = None /\ a.purpose # "persistDisplacedPreimage"
         /\ Holds(records, a)
         /\ r = FinishRecoveryMutation(y, records)
      \/ r = FailRecovery(s)
      \/ /\ a.purpose = "persistDisplacedPreimage"
         /\ r = FinishRecoveryMutation(z, records)
      \/ /\ a.purpose = "persistDisplacedPreimage"
         /\ r = StartDisplacedPersistence(v, c)
  <2> HIDE DEF x, y, z, v, w
  <2> QED BY DEF Reconciled, x, y, z, v, w
<1> HIDE DEF r
<1>5. CASE r = s
  BY <1>5, Nothing DEF r
<1>6. CASE r = FinishRecoveryMutation(s, records)
  BY <1>1, <1>3, <1>6, FinishRecoveryMutationReacts DEF r
<1>7. CASE r = FinishRecoveryMutation(x, records)
  <2>1. Beside(s, x)
    BY <1>1, DiscardedBeside
  <2> HIDE DEF x
  <2>2. Reacts(s, x) /\ Free(x)
    BY <1>3, <2>1, BesideIsCalm DEF Free, Beside
  <2>3. Reacts(x, r)
    BY <1>7, <2>2, FinishRecoveryMutationReacts DEF Reacts, Calm
  <2> QED BY <2>2, <2>3, ReactsOn DEF r
<1>8. CASE /\ a.discard = None /\ a.purpose # "persistDisplacedPreimage"
           /\ Holds(records, a)
           /\ r = FinishRecoveryMutation(y, records)
  <2>1. a \in ConflictAttempts
    BY <1>2, <1>8, AttemptKinds
  <2>2. a.purpose = "persistConflict"
    BY <1>2, <2>1, AttemptKinds
  <2>3. Releases(s, r)
    BY <1>8, <2>1, ConflictPersistedReleases
  <2> QED BY <1>8, <2>2, <2>3 DEF Conflicting, Holds, r
<1>9. CASE r = FailRecovery(s)
  BY <1>9, CalmIsEnough, FailRecoveryReacts DEF r
<1>10. CASE /\ a.purpose = "persistDisplacedPreimage"
            /\ r = FinishRecoveryMutation(z, records)
  <2>1. c \in Continuations
    BY <1>2, <1>10, AttemptKinds DEF DisplacedAttempts
  <2>2. Beside(s, w)
    BY <1>1, <2>1, RawStoredBeside
  <2> HIDE DEF w
  <2>3. Beside(w, z)
    BY <2>1, <2>2, ApplyCommittedBaselineBeside DEF Beside
  <2> HIDE DEF z
  <2>4. Beside(s, z)
    BY <2>2, <2>3 DEF Beside
  <2>5. Reacts(s, z) /\ Free(z)
    BY <1>3, <2>4, BesideIsCalm DEF Free, Beside
  <2>6. Reacts(z, r)
    BY <1>10, <2>5, FinishRecoveryMutationReacts DEF Reacts, Calm
  <2> QED BY <2>5, <2>6, ReactsOn DEF r
<1>11. CASE /\ a.purpose = "persistDisplacedPreimage"
            /\ r = StartDisplacedPersistence(v, c)
  <2>1. c \in Continuations
    BY <1>2, <1>11, AttemptKinds DEF DisplacedAttempts
  <2>2. v \in States
    BY <1>1 DEF Deactivate, States, Operations
  <2>3. /\ v.lifecycle = s.lifecycle /\ v.local = s.local
        /\ v.external = s.external /\ v.merge = s.merge
        /\ v.pendingConflict = s.pendingConflict /\ v.effects = s.effects
        /\ v.recovery = s.recovery /\ v.active["recovery"] = 0
        /\ v.active["saveCommit"] = s.active["saveCommit"]
        /\ v.active["merge"] = s.active["merge"]
    BY <1>1 DEF Deactivate, States, Operations
  <2> HIDE DEF v
  <2>4. Reacts(s, v)
    BY <1>1, <1>3, <2>2, <2>3, RecoveryEnds
  <2>5. Reacts(v, r)
    BY <1>11, <2>1, <2>4, StartDisplacedPersistenceReacts DEF Reacts
  <2> QED BY <2>4, <2>5, ReactsOn DEF r
<1> QED BY <1>4, <1>5, <1>6, <1>7, <1>8, <1>9, <1>10, <1>11 DEF r

-----------------------------------------------------------------------------
(* Handlers of what the user asks for.                                     *)

\* The monitor starts anew.
LEMMA StartMonitorReacts ==
  ASSUME NEW s, Calm(s)
  PROVE  Reacts(s, StartMonitor(s))
<1> DEFINE t == FreshToken(s, "monitor")
           r == [s EXCEPT !.active["monitor"] = t]
<1>1. s \in States /\ t \in Nat
  BY FreshTokenIsNew DEF Calm, Sound
<1> HIDE DEF t
<1>2. r \in States
  BY <1>1 DEF States, Operations
<1>3. /\ r.lifecycle = s.lifecycle /\ r.local = s.local
      /\ r.external = s.external /\ r.merge = s.merge
      /\ r.access = s.access /\ r.recovery = s.recovery
      /\ r.barrier = s.barrier /\ r.pendingConflict = s.pendingConflict
      /\ r.effects = s.effects
      /\ \A op \in Operations \ {"monitor"} : r.active[op] = s.active[op]
  BY <1>1 DEF States, Operations
<1>4. StartMonitor(s) = r
  BY DEF StartMonitor, r, t
<1> HIDE DEF r
<1>5. Reacts(s, r)
  BY <1>2, <1>3 DEF Calm, Sound, ConflictIsOwned, Owned, Conflicting, Reacts,
     Leads, CallsGrow, CallsOf, CommitsOf, Operations
<1> QED BY <1>4, <1>5

\* The user retries what has failed.
LEMMA RetryReacts ==
  ASSUME Stored, NEW s, Calm(s)
  PROVE  Reacts(s, Retry(s))
<1> DEFINE n == [s EXCEPT !.issue = None]
           m == StartMonitor(n)
           f == Retry(s)
<1>1. s \in States
  BY DEF Calm, Sound
<1>2. Reacts(s, n)
  BY IssueReacts
<1>3. /\ n.barrier = s.barrier /\ n.recovery = s.recovery
      /\ n.access = s.access /\ n.active = s.active
  BY <1>1 DEF States
<1> DEFINE c == s.pendingDisplaced
<1>4. c # None => c \in Continuations
  BY <1>1 DEF States
<1>5. \/ f \in {s, StartCommitReconciliation(n), ScheduleLocalSave(n),
               ScheduleExternalRead(n), ScheduleExternalRead(m)}
      \/ /\ s.barrier /\ s.recovery.kind = "persisting"
         /\ f = StartRecoveryReconciliation(n)
      \/ /\ s.active["recovery"] = 0 \/ s.access # "ready"
         /\ f = StartRecoveryLoad(n)
      \/ c # None /\ f = StartDisplacedPersistence(n, c)
      \/ s.issue = "closeDeadline" /\ f = ContinueSynchronization(n)
  <2> HIDE DEF n, m, c
  <2> QED BY DEF Retry, n, m, c
<1> HIDE DEF n, c
<1>6. Reacts(n, m)
  BY <1>2, StartMonitorReacts DEF Reacts
<1> HIDE DEF m
<1>7. Reacts(s, s)
  BY Nothing
<1>8. Reacts(s, StartCommitReconciliation(n))
  BY <1>2, StartCommitReconciliationReacts, ReactsOn DEF Reacts
<1>9. Reacts(s, ScheduleLocalSave(n))
  BY <1>2, ScheduleLocalSaveReacts, ReactsOn DEF Reacts
<1>10. Reacts(s, ScheduleExternalRead(n))
  BY <1>2, ScheduleExternalReadReacts, ReactsOn DEF Reacts
<1>11. Reacts(s, ScheduleExternalRead(m))
  BY <1>2, <1>6, ScheduleExternalReadReacts, ReactsOn DEF Reacts
<1>12. s.barrier /\ s.recovery.kind = "persisting" =>
         Reacts(s, StartRecoveryReconciliation(n))
  BY <1>2, <1>3, StartRecoveryReconciliationReacts, ReactsOn DEF Reacts
<1>13. s.active["recovery"] = 0 \/ s.access # "ready" =>
         Reacts(s, StartRecoveryLoad(n))
  BY <1>2, <1>3, StartRecoveryLoadReacts, ReactsOn DEF Reacts
<1>14. c # None => Reacts(s, StartDisplacedPersistence(n, c))
  BY <1>2, <1>4, StartDisplacedPersistenceReacts, ReactsOn DEF Reacts
<1>15. Reacts(s, ContinueSynchronization(n))
  BY <1>2, ContinueSynchronizationReacts, ReactsOn DEF Reacts
<1> HIDE DEF f
<1>16. Reacts(s, f)
  BY <1>5, <1>7, <1>8, <1>9, <1>10, <1>11, <1>12, <1>13, <1>14, <1>15
<1> QED BY <1>16 DEF f

\* The lifecycle alone changes, to one in which a document may have work.
LEMMA LifecycleReacts ==
  ASSUME NEW s, Calm(s), NEW l \in {"active", "closing"}
  PROVE  Reacts(s, [s EXCEPT !.lifecycle = l])
<1> DEFINE r == [s EXCEPT !.lifecycle = l]
<1>1. s \in States
  BY DEF Calm, Sound
<1>2. r \in States
  BY <1>1 DEF States
<1>3. /\ r.local = s.local /\ r.external = s.external /\ r.merge = s.merge
      /\ r.access = s.access /\ r.recovery = s.recovery
      /\ r.barrier = s.barrier /\ r.pendingConflict = s.pendingConflict
      /\ r.effects = s.effects /\ r.active = s.active /\ r.lifecycle = l
  BY <1>1 DEF States
<1> HIDE DEF r
<1>4. Reacts(s, r)
  BY <1>2, <1>3 DEF Calm, Sound, ConflictIsOwned, Owned, Conflicting, Reacts,
     Leads, CallsGrow, CallsOf, CommitsOf
<1> QED BY <1>4 DEF r

\* The text of the first stored snapshot is put into the editor.
LEMMA RestoreReacts ==
  ASSUME Stored, NEW s, Calm(s), CanRestore(s)
  PROVE  Reacts(s, RestoreLocalRecovery(s))
<1> DEFINE records == s.recovery.records
           entry == Head(records.decoded)
           number == s.source.number + 1
           source == [number |-> number, text |-> entry.text]
           c == [records |-> records, target |-> DecodedTarget(entry),
                 purpose |-> "discardRestoredRecords", min |-> number]
           r == [s EXCEPT !.source = source, !.local = Dirty(0),
                          !.issue = None, !.cleanup = c]
<1>1. s \in States
  BY DEF Calm, Sound
<1>2. records \in RecordLists /\ records.decoded # <<>>
  BY <1>1, RecoveryParts DEF CanRestore
<1>3. entry \in Entries
  <2>1. records.decoded \in Seq(Entries)
    BY <1>2 DEF RecordLists
  <2> HIDE DEF records
  <2> QED BY <1>2, <2>1
<1>4. number \in Nat /\ source \in Revisions
  BY <1>1, <1>3 DEF States, Revisions, Entries, Texts
<1> HIDE DEF records, number
<1>5. c \in Cleanups
  <2>1. DecodedTarget(entry) \in DiscardTargets
    BY <1>3 DEF DecodedTarget, DiscardTargets
  <2> HIDE DEF entry
  <2> QED BY <1>2, <1>4, <2>1 DEF Cleanups, DiscardPurposes
<1>6. RestoreLocalRecovery(s) = ContinueSynchronization(r)
  BY DEF RestoreLocalRecovery, records, number
<1> HIDE DEF c, source, entry
<1>7. r \in States
  <2>1. Dirty(0) \in LocalStates
    BY DEF LocalStates, Dirty
  <2> HIDE DEF Dirty
  <2> QED BY <1>1, <1>4, <1>5, <2>1 DEF States
<1>8. /\ r.lifecycle = s.lifecycle /\ r.local = Dirty(0)
      /\ r.external = s.external /\ r.merge = s.merge
      /\ r.access = s.access /\ r.recovery = s.recovery
      /\ r.barrier = s.barrier /\ r.active = s.active
      /\ r.pendingConflict = s.pendingConflict /\ r.effects = s.effects
  BY <1>1 DEF States
<1> HIDE DEF r
<1>9. Reacts(s, r)
  BY <1>7, <1>8, Rewritten
<1>10. Reacts(r, ContinueSynchronization(r))
  BY <1>9, ContinueSynchronizationReacts DEF Reacts
<1> QED BY <1>6, <1>9, <1>10, ReactsOn

\* The user discards the raw entries.
LEMMA DiscardRawReacts ==
  ASSUME NEW s, Calm(s), CanDiscardRaw(s)
  PROVE  Reacts(s, DiscardRawRecovery(s))
<1> DEFINE t == RawTarget(s.recovery.records.raw)
<1>1. s.recovery.records \in RecordLists
  BY RecoveryParts DEF CanDiscardRaw, Calm, Sound
<1>2. t \in DiscardTargets
  BY <1>1 DEF RawTarget, DiscardTargets, RecordLists, RawRecords
<1> HIDE DEF t
<1>3. Reacts(s, StartRecoveryDiscard(s, t, "discardRaw"))
  BY <1>2, StartRecoveryDiscardReacts DEF DiscardPurposes
<1> QED BY <1>3 DEF DiscardRawRecovery, t

\* The user asks to close the document.
LEMMA RequestCloseReacts ==
  ASSUME NEW s, Calm(s)
  PROVE  Reacts(s, RequestClose(s))
<1> DEFINE q == Start(s, "closeDeadline", "close", None)
           r == [q EXCEPT !.lifecycle = "closing"]
<1>1. \A t \in Nat \ {0} : Effect("closeDeadline", "close", t, None) \in Effects
  BY DEF Effect, Effects, Signals, EffectsOf
<1>2. Reacts(s, q)
  BY <1>1, StartReacts DEF Operations
<1> HIDE DEF q
<1>3. Reacts(q, r)
  BY <1>2, LifecycleReacts DEF Reacts
<1> HIDE DEF r
<1>4. Reacts(r, ProgressManagedClose(r))
  BY <1>3, ProgressManagedCloseReacts DEF Reacts
<1>5. Reacts(s, ProgressManagedClose(r))
  BY <1>2, <1>3, <1>4, ReactsOn
<1> QED BY <1>5 DEF RequestClose, r, q

\* A close that has taken too long gives up what is under way, and the
\* recovery that was is loaded anew or has failed.
LEMMA CloseDeadlineReacts ==
  ASSUME NEW s, Calm(s)
  PROVE  Reacts(s, CloseDeadlineFired(s))
<1> DEFINE i == InvalidateAutomatedWork(s)
           r == CancelAllDeadlines(i)
           x == [r EXCEPT !.access = "failed"]
           o == IF r.recovery.kind = "persisting" THEN Clear ELSE r.recovery
           y == [r EXCEPT !.access = "loading", !.recovery = o]
           reset == CASE s.active["recovery"] = 0 -> r
                      [] s.active["recovery"] # 0 /\ r.barrier -> x
                      [] s.active["recovery"] # 0 /\ ~r.barrier -> y
           m == StartMonitor(reset)
           n == [m EXCEPT !.issue = "closeDeadline"]
           f == [n EXCEPT !.lifecycle = "active"]
<1>1. CloseDeadlineFired(s) = [m EXCEPT !.issue = "closeDeadline",
                                        !.lifecycle = "active"]
  BY DEF CloseDeadlineFired
<1>2. /\ Reacts(s, i) /\ i.merge = None /\ i.external = Idle
      /\ i.active["recovery"] = 0
  BY CalmIsEnough, InvalidateAutomatedWorkReacts
<1> HIDE DEF i
<1>3. /\ Reacts(s, r) /\ r \in States
      /\ r.merge = None /\ r.external = Idle /\ r.active["recovery"] = 0
  <2>1. Reacts(i, r)
    BY <1>2, CancelAllDeadlinesReacts DEF Reacts
  <2>2. r.merge = i.merge /\ r.external = i.external /\ r.active = i.active
    BY <1>2 DEF CancelAllDeadlines, Reacts, Calm, Sound, States
  <2> HIDE DEF r
  <2> QED BY <1>2, <2>1, <2>2, ReactsOn DEF Reacts, Calm, Sound
<1> HIDE DEF r
<1>4. Reacts(r, x)
  <2>1. x \in States
    BY <1>3 DEF States
  <2>2. /\ x.lifecycle = r.lifecycle /\ x.local = r.local
        /\ x.external = r.external /\ x.merge = r.merge
        /\ x.pendingConflict = r.pendingConflict /\ x.effects = r.effects
        /\ x.recovery = r.recovery /\ x.active = r.active
    BY <1>3 DEF States
  <2> HIDE DEF x
  <2>3. Sound(r) /\ Free(r) /\ Calm(r)
    BY <1>3 DEF Reacts, Calm, Free
  <2> QED BY <1>3, <2>1, <2>2, <2>3, RecoveryEnds
<1>5. Reacts(r, y)
  <2>1. o \in RecoveryStates /\ o.kind # "persisting"
    BY <1>3 DEF States, RecoveryStates, Clear
  <2> HIDE DEF o
  <2>2. y \in States
    <3>1. [r EXCEPT !.access = "loading"] \in States
      BY <1>3 DEF States
    <3>2. y = [[r EXCEPT !.access = "loading"] EXCEPT !.recovery = o]
      BY <1>3 DEF States
    <3> HIDE DEF y
    <3>3. \A q \in States : [q EXCEPT !.recovery = o] \in States
      BY <2>1 DEF States
    <3> QED BY <3>1, <3>2, <3>3
  <2>3. /\ y.lifecycle = r.lifecycle /\ y.local = r.local
        /\ y.external = r.external /\ y.merge = r.merge
        /\ y.pendingConflict = r.pendingConflict /\ y.effects = r.effects
        /\ y.recovery = o /\ y.active = r.active
    BY <1>3 DEF States
  <2> HIDE DEF y
  <2>4. Sound(r) /\ Free(r)
    BY <1>3 DEF Reacts, Calm, Free
  <2> QED BY <1>3, <2>1, <2>2, <2>3, <2>4, RecoveryEnds
<1>6. Reacts(s, reset)
  <2>1. Reacts(r, r)
    BY <1>3, Nothing DEF Reacts
  <2>2. reset \in {r, x, y}
    <3>1. r.barrier \in BOOLEAN
      BY <1>3 DEF States
    <3> HIDE DEF x, y
    <3> QED BY <3>1
  <2> HIDE DEF reset, x, y
  <2> QED BY <1>3, <1>4, <1>5, <2>1, <2>2, ReactsOn
<1> HIDE DEF reset
<1>7. Reacts(reset, m)
  BY <1>6, StartMonitorReacts DEF Reacts
<1> HIDE DEF m
<1>8. Reacts(m, n)
  BY <1>7, IssueReacts DEF Reacts, Failures
<1>9. [m EXCEPT !.issue = "closeDeadline", !.lifecycle = "active"] = f
  BY <1>7 DEF Reacts, Calm, Sound, States
<1> HIDE DEF n
<1>10. Reacts(n, f)
  BY <1>8, LifecycleReacts DEF Reacts
<1> HIDE DEF f
<1> QED BY <1>1, <1>6, <1>7, <1>8, <1>9, <1>10, ReactsOn

\* The document is closed: nothing is active, and what has been asked of the
\* disk goes on.
LEMMA CloseCommittedReacts ==
  ASSUME NEW s, Calm(s), s.lifecycle = "allowed"
  PROVE  Reacts(s, CloseCommitted(s))
<1> DEFINE x == [op \in Operations |-> 0]
           y == {e \in s.effects : e.kind \notin
                   Deadlines \cup {"prepareSave", "merge"}}
           r == [s EXCEPT !.lifecycle = "closed", !.active = x,
                          !.external = Idle, !.merge = None,
                          !.signalPending = FALSE, !.effects = y]
<1>1. s \in States /\ IsFiniteSet(s.effects)
  BY DEF Calm, Sound
<1>2. CloseCommitted(s) = r
  BY DEF CloseCommitted
<1>3. x \in [Operations -> Nat] /\ \A op \in Operations : x[op] = 0
  OBVIOUS
<1>4. y \subseteq s.effects
  OBVIOUS
<1>5. /\ {e \in y : e.kind = "commit"} = CommitsOf(s)
      /\ {e \in y : e.op = "recovery"} = CallsOf(s)
  <2>1. \A e \in s.effects : e.op = "recovery" =>
          e.kind \in {"load", "mutate", "reconcile"}
    BY <1>1, EffectKinds DEF States
  <2> QED BY <2>1 DEF CommitsOf, CallsOf, Deadlines
<1> HIDE DEF x, y
<1>6. r \in States
  BY <1>1, <1>3, <1>4 DEF States, ExternalStates
<1>7. /\ r.lifecycle = "closed" /\ r.local = s.local /\ r.active = x
      /\ r.external = Idle /\ r.merge = None /\ r.effects = y
      /\ r.recovery = s.recovery
      /\ r.pendingConflict = s.pendingConflict
  BY <1>1 DEF States
<1>8. s.local.kind # "writing" /\ (s.local # Clean => s.local.token = 0)
  BY <1>1 DEF Calm, Sound, States, LocalStates, Clean
<1> HIDE DEF r
<1>9. IsFiniteSet(y)
  BY <1>1, <1>4, FS_Subset
<1>10. Sound(r)
  BY <1>3, <1>6, <1>7, <1>8, <1>9 DEF Sound, Operations
<1>11. ConflictIsOwned(r)
  BY <1>7 DEF Calm, ConflictIsOwned, Conflicting
<1>12. Leads(s, r)
  BY <1>3, <1>5, <1>7 DEF Leads, CommitsOf, CallsOf, CallsGrow, Operations
<1> QED BY <1>2, <1>10, <1>11, <1>12 DEF Reacts, Calm

\* The host gives up closing.
LEMMA CloseCancelledReacts ==
  ASSUME NEW s, Calm(s)
  PROVE  Reacts(s, CloseCancelled(s))
<1> DEFINE d == Deactivate(s, "close")
           r == [d EXCEPT !.lifecycle = "active"]
<1>1. Reacts(s, d)
  BY DeactivateReacts DEF Operations
<1> HIDE DEF d
<1>2. Reacts(d, r)
  BY <1>1, LifecycleReacts DEF Reacts
<1> HIDE DEF r
<1>3. Reacts(s, r)
  BY <1>1, <1>2, ReactsOn
<1> QED BY <1>3 DEF CloseCancelled, r, d

-----------------------------------------------------------------------------
(* The invariant.                                                          *)

Journals == [token : Nat, swapped : BOOLEAN, inode : Nat,
             displaced : Entries \cup {None}]

\* The file, the recovery store and the journal.
World ==
  /\ Stored
  /\ file \in Files \cup {None} /\ inodes \in Nat
  /\ journal \in Journals \cup {None}

\* The call of the recovery store that is active is alone with its token, and
\* once it has been answered it is the last that was and tells what is stored.
Current(s, stored) ==
  \A e \in CallsOf(s) : e.token = s.active["recovery"] =>
    /\ \A f \in CallsOf(s) : f.token = e.token => f = e
    /\ e.answer # None => /\ e.answer.records = stored
                          /\ \A f \in CallsOf(s) : f.answer # None

\* A conflict that the store says it has stored is in the records it returns.
StoresConflicts(s) ==
  \A e \in CallsOf(s) :
    /\ e.kind = "mutate" /\ e.request.purpose = "persistConflict"
    /\ e.answer # None /\ e.answer.ok
    => e.request.entry \in ToSet(e.answer.records.decoded)

\* A local state that is writing has the commit it waits for.
HasCommit(s) ==
  s.local.kind = "writing" =>
    \E e \in CommitsOf(s) : e.token = s.local.token

\* All of it but the commit.
Nearly(s, stored) == Calm(s) /\ Current(s, stored) /\ StoresConflicts(s)

IInv ==
  /\ World
  /\ Nearly(sync, store)
  /\ HasCommit(sync)

\* What an event of the reducer may do to its state.
Steps(s, r) ==
  /\ Nearly(r, store)
  /\ HasCommit(r)
  /\ /\ s.pendingConflict # None
     /\ r.pendingConflict # s.pendingConflict
     => \E x \in ToSet(store.decoded) : x.text = s.pendingConflict

\* New calls have new tokens and no answers, so they keep what is known of
\* the ones there were.
LEMMA GrowthKeepsCalls ==
  ASSUME NEW s, NEW r, NEW stored, Current(s, stored), StoresConflicts(s),
         CallsGrow(s, r), r \in States
  PROVE  Current(r, stored) /\ StoresConflicts(r)
<1>1. \A e \in CallsOf(r) : e.token # 0
  BY EffectKinds DEF States, CallsOf
<1>2. Current(r, stored)
  <2>1. CASE r.active["recovery"] = 0
    BY <1>1, <2>1 DEF Current
  <2>2. CASE /\ CallsOf(r) = CallsOf(s)
             /\ r.active["recovery"] = s.active["recovery"]
    BY <2>2 DEF Current
  <2>3. CASE \E e \in CallsOf(r) \ CallsOf(s) : e.token = r.active["recovery"]
    BY <2>3 DEF Current, CallsGrow
  <2> QED BY <2>1, <2>2, <2>3 DEF CallsGrow
<1>3. StoresConflicts(r)
  BY DEF StoresConflicts, CallsGrow
<1> QED BY <1>2, <1>3

\* A reaction keeps the invariant.
LEMMA ReactionSteps ==
  ASSUME NEW s, NEW r, Nearly(s, store), Reacts(s, r),
         HasCommit(s) \/ r.local.kind # "writing"
  PROVE  Steps(s, r)
<1>1. Nearly(r, store)
  BY GrowthKeepsCalls DEF Nearly, Reacts, Leads, Calm, Sound
<1>2. HasCommit(r)
  BY DEF HasCommit, Reacts, Leads
<1> QED BY <1>1, <1>2 DEF Steps, Reacts, Leads

\* So does the start of a commit.
LEMMA BeginningSteps ==
  ASSUME NEW s, NEW r, Nearly(s, store), Begins(s, r)
  PROVE  Steps(s, r)
<1>1. Nearly(r, store)
  BY GrowthKeepsCalls DEF Nearly, Begins, Calm, Sound
<1>2. HasCommit(r)
  BY DEF HasCommit, Begins
<1> QED BY <1>1, <1>2 DEF Steps, Begins

\* And a conflict that is given up once the store has its text.
LEMMA ReleaseSteps ==
  ASSUME NEW s, NEW r, Nearly(s, store), HasCommit(s), Releases(s, r),
         \E x \in ToSet(store.decoded) : x.text = s.pendingConflict
  PROVE  Steps(s, r)
<1>1. Nearly(r, store)
  BY GrowthKeepsCalls DEF Nearly, Releases, Calm, Sound
<1>2. HasCommit(r)
  BY DEF HasCommit, Releases
<1> QED BY <1>1, <1>2 DEF Steps

\* An event takes its effect out of the state.
LEMMA WithoutKeeps ==
  ASSUME NEW s, NEW stored, Nearly(s, stored), NEW e \in s.effects
  PROVE  LET t == Without(s, e) IN
         /\ Nearly(t, stored)
         /\ HasCommit(s) /\ (s.local.kind = "writing" =>
                               e.kind # "commit" \/ e.token # s.local.token)
              => HasCommit(t)
         /\ t = [s EXCEPT !.effects = t.effects]
         /\ t.effects = s.effects \ {e}
         /\ t.active = s.active /\ t.local = s.local
         /\ t.pendingConflict = s.pendingConflict
<1> DEFINE t == Without(s, e)
<1>1. s \in States /\ IsFiniteSet(s.effects)
  BY DEF Nearly, Calm, Sound
<1>2. t \in States /\ t.effects = s.effects \ {e}
  BY <1>1 DEF Without, States
<1>3. /\ t.lifecycle = s.lifecycle /\ t.local = s.local
      /\ t.external = s.external /\ t.merge = s.merge
      /\ t.access = s.access /\ t.recovery = s.recovery
      /\ t.barrier = s.barrier /\ t.pendingConflict = s.pendingConflict
      /\ t.active = s.active
  BY <1>1 DEF Without, States
<1>4. t = [s EXCEPT !.effects = t.effects]
  BY <1>1, <1>2 DEF Without
<1> HIDE DEF t
<1>5. IsFiniteSet(t.effects)
  BY <1>1, <1>2, FS_Subset
<1>6. Calm(t)
  BY <1>2, <1>3, <1>5 DEF Nearly, Calm, Sound, ConflictIsOwned, Owned,
     Conflicting
<1>7. CallsOf(t) \subseteq CallsOf(s)
  BY <1>2 DEF CallsOf
<1>8. Current(t, stored) /\ StoresConflicts(t)
  BY <1>3, <1>7 DEF Nearly, Current, StoresConflicts
<1>9. HasCommit(s) /\ (s.local.kind = "writing" =>
                         e.kind # "commit" \/ e.token # s.local.token)
        => HasCommit(t)
  BY <1>2, <1>3 DEF HasCommit, CommitsOf
<1> QED BY <1>2, <1>3, <1>4, <1>6, <1>8, <1>9 DEF Nearly, t

\* A delivery to which the state that remains reacts.
LEMMA DeliverySteps ==
  ASSUME NEW s, NEW r, Nearly(s, store), HasCommit(s), NEW e \in s.effects,
         e.kind # "commit", Reacts(Without(s, e), r)
  PROVE  Steps(s, r)
<1> DEFINE t == Without(s, e)
<1>1. Nearly(t, store) /\ HasCommit(t)
      /\ t.pendingConflict = s.pendingConflict
  BY WithoutKeeps
<1>2. Reacts(t, r)
  OBVIOUS
<1> HIDE DEF t
<1>3. Steps(t, r)
  BY <1>1, <1>2, ReactionSteps
<1> QED BY <1>1, <1>3 DEF Steps

\* What an effect asks and answers, by its kind.
LEMMA EffectParts ==
  ASSUME NEW e \in Effects
  PROVE  /\ e.token \in Nat \ {0}
         /\ e.kind \in {"localSaveDeadline", "prepareSave"} =>
              e.op = "savePreparation"
         /\ e.kind \in {"externalReadDeadline", "read"} =>
              e.op = "externalRead"
         /\ e.kind = "merge" => e.op = "merge"
         /\ e.kind = "commit" =>
              /\ e.op = "saveCommit" /\ e \in Commits
         /\ e.kind = "reconcileCommit" =>
              /\ e.op = "commitReconciliation" /\ e \in Reconciliations
         /\ e.kind = "read" => e \in Reads
         /\ e.op = "recovery" => e \in RecoveryCalls
BY DEF Effects, EffectsOf, Signals, Commits, Reconciliations, Reads,
       RecoveryCalls

-----------------------------------------------------------------------------
(* The events of the coordinator.                                          *)

\* What a delivery leaves in the state.
LEMMA ReceiveLeaves ==
  ASSUME NEW e, NEW next, Receive(e, next)
  PROVE  LET t == Without(sync, e) IN
         \/ sync' = t
         \/ t.lifecycle # "closed" /\ t.active[e.op] = e.token /\ sync' = next
BY DEF Receive, Deliver, Accepts

\* The user edits.
LEMMA EditSteps ==
  ASSUME IInv, Edit
  PROVE  Steps(sync, sync')
<1>1. Calm(sync) /\ Stored
  BY DEF IInv, Nearly, World
<1>2. PICK a \in UserAtoms :
        LET text == sync.source.text IN
        sync' = SourceChanged(sync, (text \ {a}) \cup ({a} \ text))
  BY DEF Edit
<1> DEFINE text == (sync.source.text \ {a}) \cup ({a} \ sync.source.text)
<1>3. text \in Texts
  BY <1>1 DEF Calm, Sound, States, Revisions, Texts, Contents
<1>4. Reacts(sync, SourceChanged(sync, text))
  BY <1>1, <1>3, SourceChangedReacts
<1> QED BY <1>2, <1>4, ReactionSteps DEF IInv

\* The user asks for a save, and the other requests of the user.
LEMMA RequestSteps ==
  ASSUME IInv,
         \/ RequestSave \/ UserRetries \/ UserRestores \/ UserDiscardsRaw
         \/ UserCloses \/ HostCloses \/ HostCancels \/ MonitorFails
  PROVE  Steps(sync, sync')
<1>1. Calm(sync) /\ Stored
  BY DEF IInv, Nearly, World
<1>2. Reacts(sync, sync')
  <2>1. CASE RequestSave
    BY <1>1, <2>1, SaveRequestedReacts DEF RequestSave
  <2>2. CASE UserRetries
    BY <1>1, <2>2, RetryReacts DEF UserRetries
  <2>3. CASE UserRestores
    BY <1>1, <2>3, RestoreReacts DEF UserRestores
  <2>4. CASE UserDiscardsRaw
    BY <1>1, <2>4, DiscardRawReacts DEF UserDiscardsRaw
  <2>5. CASE UserCloses
    BY <1>1, <2>5, RequestCloseReacts DEF UserCloses
  <2>6. CASE HostCloses
    BY <1>1, <2>6, CloseCommittedReacts DEF HostCloses
  <2>7. CASE HostCancels
    BY <1>1, <2>7, CloseCancelledReacts DEF HostCancels
  <2>8. CASE MonitorFails
    BY <1>1, <2>8, MonitorFailedReacts DEF MonitorFails
  <2> QED BY <2>1, <2>2, <2>3, <2>4, <2>5, <2>6, <2>7, <2>8
<1> QED BY <1>2, ReactionSteps DEF IInv

\* A delivery is a step when the handler that it reaches reacts.
LEMMA ReceiveSteps ==
  ASSUME IInv, NEW e \in sync.effects, e.kind # "commit",
         NEW next, Receive(e, next),
         LET t == Without(sync, e) IN
         /\ Calm(t) /\ t.lifecycle # "closed" /\ t.active[e.op] = e.token
         => Reacts(t, next)
  PROVE  Steps(sync, sync')
<1> DEFINE t == Without(sync, e)
<1>1. Calm(t)
  BY WithoutKeeps DEF IInv, Nearly
<1>2. \/ sync' = t
      \/ t.lifecycle # "closed" /\ t.active[e.op] = e.token /\ sync' = next
  BY ReceiveLeaves
<1>3. Reacts(t, t)
  BY <1>1, Nothing
<1>4. Reacts(t, sync')
  BY <1>1, <1>2, <1>3
<1> HIDE DEF t
<1> QED BY <1>4, DeliverySteps DEF IInv, t

\* Deadlines, notices and the preparation of a save.
LEMMA DeadlineSteps ==
  ASSUME IInv, NEW e \in sync.effects,
         \/ LocalSaveDeadline(e) \/ ExternalReadDeadline(e)
         \/ CloseDeadline(e) \/ MonitorSignal(e)
  PROVE  Steps(sync, sync')
<1> DEFINE t == Without(sync, e)
<1>1. e \in Effects
  BY DEF IInv, Nearly, Calm, Sound, States
<1>2. CASE LocalSaveDeadline(e)
  <2> DEFINE n == IF t.local = Dirty(e.token) THEN LocalSaveDeadlineFired(t)
                  ELSE t
  <2>1. e.kind = "localSaveDeadline" /\ Receive(e, n)
    BY <1>2 DEF LocalSaveDeadline
  <2>2. e.op = "savePreparation" /\ e.token \in Nat \ {0}
    BY <1>1, <2>1, EffectParts
  <2>3. Calm(t) /\ t.active[e.op] = e.token => Reacts(t, n)
    <3> HIDE DEF t
    <3>1. Calm(t) => Reacts(t, t)
      BY Nothing
    <3>2. /\ Calm(t) /\ t.active[e.op] = e.token /\ t.local = Dirty(e.token)
          => Reacts(t, LocalSaveDeadlineFired(t))
      BY <2>2, LocalSaveDeadlineReacts
    <3> QED BY <3>1, <3>2
  <2> HIDE DEF n
  <2> QED BY <2>1, <2>3, ReceiveSteps
<1>3. CASE ExternalReadDeadline(e)
  <2> DEFINE n == IF t.external.kind = "debouncing"
                  THEN ExternalReadDeadlineFired(t) ELSE t
  <2>1. e.kind = "externalReadDeadline" /\ Receive(e, n)
    BY <1>3 DEF ExternalReadDeadline
  <2>2. e.op = "externalRead" /\ e.token \in Nat \ {0}
    BY <1>1, <2>1, EffectParts
  <2>3. Calm(t) /\ t.active[e.op] = e.token => Reacts(t, n)
    <3> HIDE DEF t
    <3>1. Calm(t) => Reacts(t, t)
      BY Nothing
    <3>2. /\ Calm(t) /\ t.active[e.op] = e.token
          /\ t.external.kind = "debouncing"
          => Reacts(t, ExternalReadDeadlineFired(t))
      BY <2>2, ExternalReadDeadlineReacts
    <3> QED BY <3>1, <3>2
  <2> HIDE DEF n
  <2> QED BY <2>1, <2>3, ReceiveSteps
<1>4. CASE CloseDeadline(e)
  <2> DEFINE n == IF t.lifecycle = "closing" THEN CloseDeadlineFired(t)
                  ELSE t
  <2>1. e.kind = "closeDeadline" /\ Receive(e, n)
    BY <1>4 DEF CloseDeadline
  <2>2. Calm(t) => Reacts(t, n)
    <3> HIDE DEF t
    <3> QED BY Nothing, CloseDeadlineReacts
  <2> HIDE DEF n
  <2> QED BY <2>1, <2>2, ReceiveSteps
<1>5. CASE MonitorSignal(e)
  <2> DEFINE n == MonitorSignaled(t)
  <2>1. e.kind = "signal" /\ Receive(e, n)
    BY <1>5 DEF MonitorSignal
  <2>2. Calm(t) => Reacts(t, n)
    BY MonitorSignaledReacts
  <2> HIDE DEF n
  <2> QED BY <2>1, <2>2, ReceiveSteps
<1> QED BY <1>2, <1>3, <1>4, <1>5

\* The text of a save has been prepared, or could not be.
LEMMA PrepareSteps ==
  ASSUME IInv, NEW e \in sync.effects, PrepareSave(e)
  PROVE  Steps(sync, sync')
<1> DEFINE t == Without(sync, e)
<1>1. e.kind = "prepareSave"
      /\ (\/ Receive(e, SavePrepared(t))
          \/ Receive(e, SavePreparationFailed(t)))
  BY DEF PrepareSave
<1>2. /\ Nearly(t, store) /\ HasCommit(t) /\ Calm(t)
      /\ t.pendingConflict = sync.pendingConflict
  BY <1>1, WithoutKeeps DEF IInv, Nearly
<1>3. CASE Receive(e, SavePreparationFailed(t))
  BY <1>1, <1>3, ReceiveSteps, SavePreparationFailedReacts
<1>4. CASE Receive(e, SavePrepared(t))
  <2>1. Reacts(t, t)
    BY <1>2, Nothing
  <2>2. Reacts(t, SavePrepared(t)) \/ Begins(t, SavePrepared(t))
    BY <1>2, SavePreparedReacts
  <2>3. sync' \in {t, SavePrepared(t)}
    BY <1>4, ReceiveLeaves
  <2> HIDE DEF t
  <2>4. Steps(t, sync')
    BY <1>2, <2>1, <2>2, <2>3, ReactionSteps, BeginningSteps
  <2> QED BY <1>2, <2>4 DEF Steps
<1> QED BY <1>1, <1>3, <1>4

\* A commit that has not started leaves the local state dirty.
LEMMA NotStartedIsDirty ==
  ASSUME NEW s \in States, NEW failure
  PROVE  CommitProvenNotStarted(s, failure).local = Dirty(0)
<1> DEFINE d == [Deactivate(s, "saveCommit") EXCEPT !.local = Dirty(0)]
           r == [d EXCEPT !.issue = failure]
<1>1. d.local = Dirty(0) /\ DOMAIN d = DOMAIN s
  BY DEF Deactivate, States
<1> HIDE DEF d
<1>2. r.local = Dirty(0) /\ DOMAIN r = DOMAIN s
  BY <1>1 DEF States
<1> HIDE DEF r
<1>3. RefuseCloseIfNeeded(r).local = Dirty(0)
  BY <1>2 DEF RefuseCloseIfNeeded, Cancel, Deactivate, States
<1> QED BY <1>3 DEF CommitProvenNotStarted, Refuse, r, d

\* A commit has answered; the local state waits for it no longer.
LEMMA FinishCommitSteps ==
  ASSUME IInv, NEW e \in sync.effects, FinishCommit(e)
  PROVE  Steps(sync, sync')
<1> DEFINE t == Without(sync, e)
           writing == t.local.kind = "writing"
           r == CommitProvenNotStarted(t, "localSave")
           v == CommitProvenNotStarted(t, "destinationRequiresSaveAs")
           n == CASE e.answer.outcome = "committed" /\ writing
                       /\ t.local.token = e.token ->
                       SaveFinished(t, e.answer)
                  [] e.answer.outcome = "unknown" /\ writing
                       /\ t.local.token = e.token ->
                       EnterUncertainCommitOutcome(t)
                  [] e.answer.outcome = "notStarted" /\ writing -> r
                  [] e.answer.outcome = "requiresSaveAs" /\ writing -> v
                  [] e.answer.outcome = "targetChanged" /\ writing ->
                       IF r.active["monitor"] = 0 THEN r
                       ELSE MonitorSignaled(r)
                  [] OTHER -> t
<1>1. e.kind = "commit" /\ e.answer # None /\ Receive(e, n)
  BY DEF FinishCommit
<1>2. e \in Effects
  BY DEF IInv, Nearly, Calm, Sound, States
<1>3. /\ e.op = "saveCommit" /\ e.answer.displaced \in Entries \cup {None}
      /\ e.answer.inode \in Nat /\ e.answer.outcome \in CommitOutcomes
  <2>1. e \in Commits
    BY <1>1, <1>2, EffectParts
  <2> QED BY <1>1, <1>2, <2>1, EffectParts DEF Commits, EffectsOf
<1>4. Nearly(t, store) /\ Calm(t) /\ Stored
      /\ t.pendingConflict = sync.pendingConflict
      /\ t.local = sync.local /\ t.active = sync.active
  BY WithoutKeeps DEF IInv, Nearly, World
<1>5. CASE sync' = t /\ ~(t.lifecycle # "closed" /\ t.active[e.op] = e.token)
  <2>1. HasCommit(t)
    <3>1. SUFFICES ASSUME t.local.kind = "writing", e.token = t.local.token
                   PROVE  FALSE
      BY <1>4, WithoutKeeps DEF IInv, HasCommit
    <3>2. t.local # Clean /\ t.local.token # 0
      BY <1>2, <3>1, EffectParts DEF Clean
    <3> HIDE DEF t
    <3> QED BY <1>3, <1>4, <1>5, <3>1, <3>2 DEF Calm, Sound
  <2> HIDE DEF t
  <2> QED BY <1>4, <1>5, <2>1 DEF Steps
<1>6. CASE t.active[e.op] = e.token /\ sync' = n
  <2>1. CASE t.local.kind # "writing"
    <3>1. n = t
      <4> HIDE DEF t, r, v
      <4> QED BY <2>1
    <3> HIDE DEF t, n
    <3> QED BY <1>4, <1>6, <2>1, <3>1 DEF Steps, HasCommit
  <2>2. CASE t.local.kind = "writing"
    <3>1. t.local.token = e.token
      BY <1>3, <1>4, <1>6, <2>2 DEF Calm, Sound
    <3>2. n \in {SaveFinished(t, e.answer), EnterUncertainCommitOutcome(t),
                 r, v, MonitorSignaled(r)}
      <4> HIDE DEF r, v, t
      <4> QED BY <1>3, <2>2, <3>1 DEF CommitOutcomes
    <3>3. Apart(t)
      BY <1>4, CalmIsApart
    <3> HIDE DEF t, n
    <3>4. Reacts(t, r) /\ Reacts(t, v)
      BY <3>3, CommitProvenNotStartedReacts DEF Failures
    <3>5. t \in States
      BY <1>4 DEF Calm, Sound
    <3>6. r.local = Dirty(0) /\ v.local = Dirty(0)
      BY <3>5, NotStartedIsDirty
    <3>7. v.local.kind # "writing"
      BY <3>6 DEF Dirty
    <3> HIDE DEF r, v
    <3>8. Reacts(r, MonitorSignaled(r))
      BY <3>4, MonitorSignaledReacts DEF Reacts
    <3>9. MonitorSignaled(r).local.kind # "writing"
      BY <3>6, <3>8, StaysUnwritten
    <3>10. Reacts(t, MonitorSignaled(r))
      BY <3>4, <3>8, ReactsOn
    <3>11. r.local.kind # "writing"
      BY <3>6 DEF Dirty
    <3>12. Reacts(t, n) /\ n.local.kind # "writing"
      BY <1>3, <1>4, <2>2, <3>2, <3>3, <3>4, <3>7, <3>9, <3>10, <3>11,
         SaveFinishedReacts, EnterUncertainReacts
    <3>13. Steps(t, n)
      BY <1>4, <3>12, ReactionSteps
    <3> QED BY <1>4, <1>6, <3>13 DEF Steps
  <2> QED BY <2>1, <2>2
<1>7. \/ sync' = t /\ ~(t.lifecycle # "closed" /\ t.active[e.op] = e.token)
      \/ t.active[e.op] = e.token /\ sync' = n
  <2> HIDE DEF n, t
  <2> QED BY <1>1 DEF Receive, Deliver, Accepts, t
<1> QED BY <1>5, <1>6, <1>7

\* The journal has answered what became of a commit.
LEMMA FinishReconciliationSteps ==
  ASSUME IInv, NEW e \in sync.effects, FinishReconciliation(e)
  PROVE  Steps(sync, sync')
<1> DEFINE t == Without(sync, e)
           f == CommitReconciliationFinished(t, e.answer)
           n == IF t.uncertain # None /\ t.uncertain.reconciliation = e.token
                THEN f ELSE t
<1>1. e.kind = "reconcileCommit" /\ e.answer # None /\ Receive(e, n)
  BY DEF FinishReconciliation
<1>2. e \in Effects /\ Stored
  BY DEF IInv, Nearly, World, Calm, Sound, States
<1>3. /\ e.answer.outcome \in {"committed", "notCommitted", "unresolved"}
      /\ e.answer.displaced \in Entries \cup {None}
      /\ e.answer.inode \in Nat
  <2>1. e \in Reconciliations
    BY <1>1, <1>2, EffectParts
  <2> QED BY <1>1, <2>1 DEF Reconciliations, EffectsOf
<1>4. Calm(t) => Reacts(t, n)
  <2> HIDE DEF t, f
  <2>1. Calm(t) => Reacts(t, t)
    BY Nothing
  <2>2. Calm(t) /\ t.uncertain # None => Reacts(t, f)
    BY <1>2, <1>3, CommitReconciliationFinishedReacts DEF f
  <2> QED BY <2>1, <2>2
<1> HIDE DEF n
<1> QED BY <1>1, <1>4, ReceiveSteps

\* The file has been read.
LEMMA FinishReadSteps ==
  ASSUME IInv, NEW e \in sync.effects, FinishRead(e)
  PROVE  Steps(sync, sync')
<1> DEFINE t == Without(sync, e)
           f == ExternalReadFinished(t, e.answer)
           n == IF t.external.kind = "reading" THEN f ELSE t
<1>1. e.kind = "read" /\ e.answer # None /\ Receive(e, n)
  BY DEF FinishRead
<1>2. e \in Effects /\ Stored
  BY DEF IInv, Nearly, World, Calm, Sound, States
<1>3. e.answer \in ReadAnswers
  <2>1. e \in Reads
    BY <1>1, <1>2, EffectParts
  <2> QED BY <1>1, <2>1 DEF Reads, EffectsOf
<1>4. Calm(t) => Reacts(t, n)
  <2> HIDE DEF t, f
  <2>1. Calm(t) => Reacts(t, t)
    BY Nothing
  <2>2. Calm(t) /\ t.external.kind = "reading" => Reacts(t, f)
    BY <1>2, <1>3, ExternalReadFinishedReacts DEF f
  <2> QED BY <2>1, <2>2
<1> HIDE DEF n
<1> QED BY <1>1, <1>4, ReceiveSteps

\* A merge is done.
LEMMA FinishMergeSteps ==
  ASSUME IInv, NEW e \in sync.effects, FinishMerge(e)
  PROVE  Steps(sync, sync')
<1> DEFINE t == Without(sync, e)
           m == t.merge
           texts == {Merged(m.base, m.local.text, m.external.text), None}
           n(outcome) == IF m # None /\ m.token = e.token
                         THEN MergeFinished(t, outcome) ELSE t
<1>1. /\ e.kind = "merge"
      /\ \E outcome \in texts : Receive(e, n(outcome))
  BY DEF FinishMerge
<1>2. PICK outcome \in texts : Receive(e, n(outcome))
  BY <1>1
<1>3. Stored
  BY DEF IInv, World
<1>4. Calm(t) => Reacts(t, n(outcome))
  <2> HIDE DEF t
  <2> SUFFICES ASSUME Calm(t) PROVE Reacts(t, n(outcome))
    OBVIOUS
  <2>1. CASE m # None /\ m.token = e.token
    <3>1. m \in Merges
      BY <2>1 DEF Calm, Sound, States
    <3>2. Merged(m.base, m.local.text, m.external.text) \in Texts
      <4>1. /\ m.base \in Texts /\ m.local.text \in Texts
            /\ m.external.text \in Texts
        BY <3>1 DEF Merges, Revisions, Files
      <4> HIDE DEF m
      <4> QED BY <4>1 DEF Merged, Texts, Contents
    <3>3. outcome \in Texts \cup {None}
      BY <3>2
    <3>4. Reacts(t, MergeFinished(t, outcome))
      BY <1>3, <2>1, <3>1, <3>3, MergeFinishedReacts
    <3> QED BY <2>1, <3>4
  <2>2. CASE ~(m # None /\ m.token = e.token)
    <3>1. n(outcome) = t
      BY <2>2
    <3> QED BY <3>1, Nothing
  <2> QED BY <2>1, <2>2
<1> HIDE DEF n
<1> QED BY <1>1, <1>2, <1>4, ReceiveSteps

\* The recovery store has answered.  The records it returns to the active
\* call are those it has, so that a text which is given up is one of them.
LEMMA FinishRecoverySteps ==
  ASSUME IInv, NEW e \in sync.effects, FinishRecovery(e)
  PROVE  Steps(sync, sync')
<1> DEFINE t == Without(sync, e)
           records == e.answer.records
           expects == CASE e.kind = "load" ->
                             t.access = "loading" /\ ~t.barrier
                        [] e.kind = "mutate" ->
                             t.recovery = Persisting(e.request)
                        [] e.kind = "reconcile" ->
                             /\ t.access = "loading" /\ t.barrier
                             /\ t.recovery = Persisting(e.request)
           n(decodes) ==
             CASE ~e.answer.ok -> FailRecovery(t)
               [] e.answer.ok /\ ~expects -> t
               [] e.answer.ok /\ expects /\ e.kind = "load" ->
                    RecoveryLoaded(t, records)
               [] e.answer.ok /\ expects /\ e.kind = "mutate" ->
                    MutationFinished(t, records, decodes)
               [] e.answer.ok /\ expects /\ e.kind = "reconcile" ->
                    Reconciled(t, records)
<1>1. /\ e.op = "recovery" /\ e.answer # None
      /\ \E decodes \in BOOLEAN : Receive(e, n(decodes))
  BY DEF FinishRecovery
<1>2. PICK decodes \in BOOLEAN : Receive(e, n(decodes))
  BY <1>1
<1>3. e \in Effects /\ Stored
  BY DEF IInv, Nearly, World, Calm, Sound, States
<1>4. /\ e.kind \in {"load", "mutate", "reconcile"} /\ e.kind # "commit"
      /\ e.answer \in StoreAnswers
      /\ e.kind # "load" => e.request \in AnyAttempt
  <2>1. e \in RecoveryCalls
    BY <1>1, <1>3, EffectParts
  <2> QED BY <1>1, <2>1 DEF RecoveryCalls, EffectsOf
<1>5. records \in RecordLists /\ e.answer.ok \in BOOLEAN
  BY <1>4 DEF StoreAnswers
<1>6. /\ Nearly(t, store) /\ HasCommit(t) /\ Calm(t)
      /\ t.pendingConflict = sync.pendingConflict
      /\ t.active = sync.active
  BY <1>4, WithoutKeeps DEF IInv, Nearly
<1>7. e.token = sync.active["recovery"] => records = store
  BY <1>1 DEF IInv, Nearly, Current, CallsOf
<1>8. /\ e.kind = "mutate" /\ e.request.purpose = "persistConflict"
      /\ e.answer.ok
      => e.request.entry \in ToSet(records.decoded)
  BY <1>1 DEF IInv, Nearly, StoresConflicts, CallsOf
<1>9. CASE sync' = t
  <2> HIDE DEF t
  <2> QED BY <1>6, <1>9 DEF Steps
<1>10. CASE t.active[e.op] = e.token /\ sync' = n(decodes)
  <2> DEFINE r == n(decodes)
             entry == t.recovery.attempt.entry
  <2>1. records = store
    BY <1>1, <1>6, <1>7, <1>10
  <2>2. \/ r = FailRecovery(t)
        \/ r = t
        \/ /\ t.access = "loading"
           /\ r = RecoveryLoaded(t, records)
        \/ /\ e.kind = "mutate" /\ t.recovery = Persisting(e.request)
           /\ e.answer.ok
           /\ r = MutationFinished(t, records, decodes)
        \/ /\ t.barrier /\ t.recovery = Persisting(e.request)
           /\ r = Reconciled(t, records)
    <3> HIDE DEF t, records
    <3> QED BY <1>4, <1>5
  <2> HIDE DEF t, r, records
  <2>3. t.recovery = Persisting(e.request) =>
          /\ t.recovery.kind = "persisting"
          /\ t.recovery.attempt = e.request
    BY DEF Persisting
  <2>4. \/ Reacts(t, r)
        \/ /\ Conflicting(t) /\ Releases(t, r)
           /\ entry \in ToSet(records.decoded)
    <3>1. CASE r = FailRecovery(t)
      BY <1>6, <3>1, CalmIsEnough, FailRecoveryReacts
    <3>2. CASE r = t
      BY <1>6, <3>2, Nothing
    <3>3. CASE t.access = "loading" /\ r = RecoveryLoaded(t, records)
      BY <1>3, <1>5, <1>6, <3>3, RecoveryLoadedReacts
    <3>4. CASE /\ e.kind = "mutate" /\ t.recovery = Persisting(e.request)
               /\ e.answer.ok
               /\ r = MutationFinished(t, records, decodes)
      <4>1. \/ Reacts(t, r)
            \/ Conflicting(t) /\ Releases(t, r)
        BY <1>3, <1>5, <1>6, <2>3, <3>4, MutationFinishedReacts
      <4>2. Conflicting(t) => entry \in ToSet(records.decoded)
        BY <1>8, <2>3, <3>4 DEF Conflicting
      <4> QED BY <4>1, <4>2
    <3>5. CASE /\ t.barrier /\ t.recovery = Persisting(e.request)
               /\ r = Reconciled(t, records)
      BY <1>3, <1>5, <1>6, <2>3, <3>5, ReconciledReacts
    <3> QED BY <2>2, <3>1, <3>2, <3>3, <3>4, <3>5
  <2>5. Steps(t, r)
    <3>1. CASE Reacts(t, r)
      BY <1>6, <3>1, ReactionSteps
    <3>2. CASE /\ Conflicting(t) /\ Releases(t, r)
               /\ entry \in ToSet(records.decoded)
      <4>1. entry.text = t.pendingConflict
        BY <1>6, <3>2 DEF Calm, ConflictIsOwned
      <4> QED BY <1>6, <2>1, <3>2, <4>1, ReleaseSteps
    <3> QED BY <2>4, <3>1, <3>2
  <2> QED BY <1>6, <1>10, <2>5 DEF Steps, r
<1>11. sync' = t \/ (t.active[e.op] = e.token /\ sync' = n(decodes))
  BY <1>2, ReceiveLeaves
<1> QED BY <1>9, <1>10, <1>11

-----------------------------------------------------------------------------
(* The steps of the world.                                                 *)

\* An effect that is not a call of the recovery store advances or answers.
LEMMA AnswerSteps ==
  ASSUME IInv, NEW e \in sync.effects, e.op # "recovery", NEW u \in Effects,
         u.kind = e.kind, u.op = e.op, u.token = e.token
  PROVE  LET r == [sync EXCEPT !.effects = (@ \ {e}) \cup {u}] IN
         Steps(sync, r)
<1> DEFINE y == (sync.effects \ {e}) \cup {u}
           r == [sync EXCEPT !.effects = y]
<1>1. /\ sync \in States /\ IsFiniteSet(sync.effects) /\ Nearly(sync, store)
      /\ HasCommit(sync)
  BY DEF IInv, Nearly, Calm, Sound
<1>2. y \in SUBSET Effects
  BY <1>1 DEF States
<1>3. IsFiniteSet(y)
  <2>1. IsFiniteSet(sync.effects \ {e}) /\ IsFiniteSet({u})
    BY <1>1, FS_Subset, FS_Singleton
  <2> QED BY <2>1, FS_Union
<1>4. {f \in y : f.op = "recovery"} = CallsOf(sync)
  BY DEF CallsOf
<1>5. \A t : (\E f \in sync.effects : f.kind = "commit" /\ f.token = t) =>
             (\E f \in y : f.kind = "commit" /\ f.token = t)
  OBVIOUS
<1> HIDE DEF y
<1>6. r \in States /\ r.effects = y
  BY <1>1, <1>2 DEF States
<1>7. /\ r.lifecycle = sync.lifecycle /\ r.local = sync.local
      /\ r.external = sync.external /\ r.merge = sync.merge
      /\ r.access = sync.access /\ r.recovery = sync.recovery
      /\ r.barrier = sync.barrier /\ r.active = sync.active
      /\ r.pendingConflict = sync.pendingConflict
  BY <1>1 DEF States
<1> HIDE DEF r
<1>8. Calm(r)
  BY <1>1, <1>3, <1>6, <1>7 DEF Nearly, Calm, Sound, ConflictIsOwned, Owned,
     Conflicting
<1>9. CallsOf(r) = CallsOf(sync)
  BY <1>4, <1>6 DEF CallsOf
<1>10. Current(r, store) /\ StoresConflicts(r)
  BY <1>1, <1>7, <1>9 DEF Nearly, Current, StoresConflicts
<1>11. HasCommit(r)
  BY <1>1, <1>5, <1>6, <1>7 DEF HasCommit, CommitsOf
<1> QED BY <1>7, <1>8, <1>10, <1>11 DEF Steps, Nearly, r, y

\* The monitor notices.
LEMMA NoticeSteps ==
  ASSUME NEW s, NEW r, Steps(s, r)
  PROVE  Steps(s, Notice(r))
<1> DEFINE t == r.active["monitor"]
           e == Effect("signal", "monitor", t, None)
<1>1. Calm(r) /\ r \in States
  BY DEF Steps, Nearly, Calm, Sound
<1>2. Reacts(r, Notice(r))
  <2>1. CASE t = 0
    BY <1>1, <2>1, Nothing DEF Notice
  <2>2. CASE t # 0
    <3>1. t \in Nat \ {0}
      BY <1>1, <2>2 DEF States, Operations
    <3> HIDE DEF t
    <3>2. e \in Effects /\ e.kind # "commit" /\ e.op # "recovery"
      BY <3>1 DEF Effect, Effects, Signals, EffectsOf
    <3>3. Reacts(r, Emit(r, e))
      BY <1>1, <3>2, EmitReacts
    <3> QED BY <2>2, <3>3 DEF Notice, t
  <2> QED BY <2>1, <2>2
<1>3. Steps(r, Notice(r))
  BY <1>2, ReactionSteps DEF Steps
<1> QED BY <1>2, <1>3 DEF Steps, Reacts, Leads

\* Another program writes the file.
LEMMA OtherProgramSteps ==
  ASSUME IInv, OtherProgram
  PROVE  Steps(sync, sync') /\ World' /\ store' = store
<1>1. sync' = Notice(sync) /\ UNCHANGED <<store, artifacts, journal>>
  BY DEF OtherProgram, ExternalWrite
<1>2. Steps(sync, sync)
  BY DEF IInv, Steps
<1>3. Steps(sync, sync')
  BY <1>1, <1>2, NoticeSteps
<1>4. /\ file \in Files \cup {None} /\ inodes \in Nat
  BY DEF IInv, World
<1>5. PICK new \in Files \cup {None} :
        /\ file' = new
        /\ inodes' = IF new # None THEN Max({inodes, new.inode}) ELSE inodes
  <2>1. CASE ExternalWrite(None)
    BY <2>1 DEF ExternalWrite
  <2>2. ASSUME NEW a \in ExternalAtoms,
               NEW inode \in {inodes + 1} \cup
                   (IF file = None THEN {} ELSE {file.inode}),
               LET old == IF file = None THEN {} ELSE file.text IN
               ExternalWrite([text |-> (old \ {a}) \cup ({a} \ old),
                              inode |-> inode])
        PROVE  \E new \in Files \cup {None} :
                 /\ file' = new
                 /\ inodes' = IF new # None THEN Max({inodes, new.inode})
                              ELSE inodes
    <3> DEFINE old == IF file = None THEN {} ELSE file.text
               text == (old \ {a}) \cup ({a} \ old)
               new == [text |-> text, inode |-> inode]
    <3>1. text \in Texts
      BY <1>4 DEF Files, Texts, Contents
    <3>2. inode \in Nat
      BY <1>4 DEF Files
    <3> HIDE DEF text
    <3>3. new \in Files
      BY <3>1, <3>2 DEF Files
    <3>4. ExternalWrite(new)
      BY <2>2 DEF text
    <3> HIDE DEF new
    <3> QED BY <3>3, <3>4 DEF ExternalWrite
  <2> QED BY <2>1, <2>2 DEF OtherProgram
<1>6. inodes' \in Nat
  <2>1. CASE new = None
    BY <1>4, <1>5, <2>1
  <2>2. CASE new # None
    <3>1. new.inode \in Nat
      BY <2>2 DEF Files
    <3> DEFINE i == new.inode
    <3>2. Max({inodes, i}) \in {inodes, i}
      <4>1. \E x \in {inodes, i} : \A y \in {inodes, i} : x >= y
        <5> HIDE DEF i
        <5>1. inodes >= i \/ i >= inodes
          BY <1>4, <3>1 DEF i
        <5> QED BY <1>4, <3>1, <5>1 DEF i
      <4> HIDE DEF i
      <4> QED BY <4>1 DEF Max
    <3> QED BY <1>4, <1>5, <2>2, <3>1, <3>2
  <2> QED BY <2>1, <2>2
<1>7. World'
  BY <1>1, <1>5, <1>6 DEF IInv, World, Stored
<1> QED BY <1>1, <1>3, <1>7

\* The answer of a commit is one of its answers.
LEMMA CommitAnswerIsTyped ==
  ASSUME NEW e \in Commits, NEW outcome \in CommitOutcomes,
         NEW entry \in Entries \cup {None}, inodes' \in Nat
  PROVE  LET u == [e EXCEPT !.answer = CommitAnswer(outcome, entry)] IN
         u \in Effects /\ u.kind = e.kind /\ u.op = e.op /\ u.token = e.token
<1> DEFINE answer == CommitAnswer(outcome, entry)
<1>1. answer \in [outcome : CommitOutcomes, displaced : Entries \cup {None},
                  inode : Nat]
  BY DEF CommitAnswer
<1> HIDE DEF answer
<1> QED BY <1>1 DEF Commits, EffectsOf, Effects, answer

\* The file that a commit finds in the place of the one it expected.
LEMMA DisplacedEntryIsTyped ==
  ASSUME IInv, NEW e, file # None
  PROVE  DisplacedEntry(e) \in Entries \cup {None}
<1>1. FreshEntryID(sync) \in Nat
  BY FreshEntryIsNew DEF IInv, World, Nearly, Calm, Sound
<1>2. file.text \in Texts
  BY DEF IInv, World, Files
<1> HIDE DEF FreshEntryID
<1> QED BY <1>1, <1>2 DEF DisplacedEntry, Entries, Texts

\* A commit validates its file.
LEMMA CommitValidatesSteps ==
  ASSUME IInv, NEW e \in sync.effects, CommitValidates(e)
  PROVE  Steps(sync, sync') /\ World' /\ store' = store
<1>1. e \in Effects /\ e.kind = "commit"
  BY DEF IInv, Nearly, Calm, Sound, States, CommitValidates
<1>2. e \in Commits /\ e.op = "saveCommit"
  BY <1>1, EffectParts
<1>3. World' /\ store' = store
  BY DEF CommitValidates, NoSwap, IInv, World, Stored
<1> DEFINE u == [e EXCEPT !.request.validated = TRUE]
           v == [e EXCEPT !.answer = CommitAnswer("targetChanged", None)]
<1>4. u \in Effects /\ u.kind = e.kind /\ u.op = e.op /\ u.token = e.token
  BY <1>2 DEF Commits, EffectsOf, Effects
<1>5. v \in Effects /\ v.kind = e.kind /\ v.op = e.op /\ v.token = e.token
  BY <1>2, <1>3, CommitAnswerIsTyped DEF World, CommitOutcomes
<1>6. \/ sync' = [sync EXCEPT !.effects = (@ \ {e}) \cup {u}]
      \/ sync' = [sync EXCEPT !.effects = (@ \ {e}) \cup {v}]
  BY DEF CommitValidates, Answered
<1> HIDE DEF u, v
<1>7. Steps(sync, sync')
  BY <1>2, <1>4, <1>5, <1>6, AnswerSteps
<1> QED BY <1>3, <1>7

\* A commit answers, and the monitor may notice.
LEMMA CommitAnswers ==
  ASSUME IInv, NEW e \in sync.effects, e.kind = "commit", World',
         NEW outcome \in CommitOutcomes, NEW entry \in Entries \cup {None},
         LET r == Answered(sync, e, CommitAnswer(outcome, entry)) IN
         sync' = r \/ sync' = Notice(r)
  PROVE  Steps(sync, sync')
<1> DEFINE u == [e EXCEPT !.answer = CommitAnswer(outcome, entry)]
           r == Answered(sync, e, CommitAnswer(outcome, entry))
<1>1. e \in Effects
  BY DEF IInv, Nearly, Calm, Sound, States
<1>2. e \in Commits /\ e.op = "saveCommit"
  BY <1>1, EffectParts
<1>3. u \in Effects /\ u.kind = e.kind /\ u.op = e.op /\ u.token = e.token
  BY <1>2, CommitAnswerIsTyped DEF World
<1>4. r = [sync EXCEPT !.effects = (@ \ {e}) \cup {u}]
  BY DEF Answered
<1> HIDE DEF u, r
<1>5. Steps(sync, r)
  BY <1>2, <1>3, <1>4, AnswerSteps
<1>6. Steps(sync, Notice(r))
  BY <1>5, NoticeSteps
<1> QED BY <1>5, <1>6 DEF r

\* What is left of a commit whose outcome is unknown.
LEMMA UnknownOutcomeSteps ==
  ASSUME IInv, NEW e \in sync.effects, e.kind = "commit",
         NEW swapped \in BOOLEAN, NEW entry \in Entries \cup {None},
         inodes' \in Nat, UnknownOutcome(e, swapped, entry)
  PROVE  /\ journal' \in Journals
         /\ World' => Steps(sync, sync')
<1>1. e \in Effects
  BY DEF IInv, Nearly, Calm, Sound, States
<1>2. e.token \in Nat
  BY <1>1, EffectParts
<1>3. journal' \in Journals
  BY <1>2 DEF UnknownOutcome, Journals
<1>4. World' => Steps(sync, sync')
  BY CommitAnswers DEF UnknownOutcome, CommitOutcomes
<1> QED BY <1>3, <1>4

\* A commit swaps the files, or fails to.
LEMMA CommitExecutesSteps ==
  ASSUME IInv, NEW e \in sync.effects, CommitExecutes(e)
  PROVE  Steps(sync, sync') /\ World' /\ store' = store
<1>1. e \in Effects /\ e.kind = "commit" /\ World /\ store' = store
  BY DEF IInv, Nearly, Calm, Sound, States, CommitExecutes
<1>2. e.request.rev.text \in Texts
  <2>1. e \in Commits
    BY <1>1, EffectParts
  <2> QED BY <2>1 DEF Commits, EffectsOf, Revisions
<1> DEFINE d == DisplacedEntry(e)
<1>3. file # None => d \in Entries \cup {None}
  BY DisplacedEntryIsTyped
<1> HIDE DEF d
<1>4. ASSUME file # None, Swap(e, d)
      PROVE  /\ file' \in Files /\ inodes' \in Nat
             /\ artifacts' \subseteq Entries /\ IsFiniteSet(artifacts')
  <2>1. inodes \in Nat /\ artifacts \subseteq Entries
        /\ IsFiniteSet(artifacts)
    BY <1>1 DEF World, Stored
  <2>2. file' \in Files /\ inodes' \in Nat
    BY <1>2, <1>4, <2>1 DEF Swap, Files
  <2> DEFINE x == IF d = None THEN {} ELSE {d}
  <2>3. IsFiniteSet(x) /\ x \subseteq Entries
    BY <1>3, <1>4, FS_Singleton, FS_EmptySet
  <2>4. artifacts' = artifacts \cup x
    BY <1>4 DEF Swap
  <2> HIDE DEF x
  <2> QED BY <2>1, <2>2, <2>3, <2>4, FS_Union
<1>5. ASSUME NoSwap
      PROVE  /\ file' \in Files \cup {None} /\ inodes' \in Nat
             /\ artifacts' \subseteq Entries /\ IsFiniteSet(artifacts')
  BY <1>1, <1>5 DEF NoSwap, World, Stored
<1>6. ASSUME file' \in Files \cup {None}, inodes' \in Nat,
             artifacts' \subseteq Entries, IsFiniteSet(artifacts'),
             journal' \in Journals \cup {None}
      PROVE  World'
  BY <1>1, <1>6 DEF World, Stored
<1>7. CASE /\ file # None /\ Swap(e, d)
           /\ sync' = Notice(Answered(sync, e, CommitAnswer("committed", d)))
           /\ UNCHANGED journal
  <2>1. World'
    BY <1>1, <1>4, <1>6, <1>7 DEF World
  <2>2. Steps(sync, sync')
    BY <1>1, <1>3, <1>7, <2>1, CommitAnswers DEF CommitOutcomes
  <2> QED BY <1>1, <2>1, <2>2
<1>8. CASE file # None /\ Swap(e, d) /\ UnknownOutcome(e, TRUE, d)
  <2>1. /\ journal' \in Journals
        /\ World' => Steps(sync, sync')
    BY <1>1, <1>3, <1>4, <1>8, UnknownOutcomeSteps
  <2>2. World'
    BY <1>4, <1>6, <1>8, <2>1
  <2> QED BY <1>1, <2>1, <2>2
<1>9. ASSUME NoSwap, UNCHANGED journal,
             NEW failure \in {"notStarted", "requiresSaveAs"},
             sync' = Answered(sync, e, CommitAnswer(failure, None))
      PROVE  Steps(sync, sync') /\ World'
  <2>1. World'
    BY <1>1, <1>5, <1>6, <1>9 DEF World
  <2>2. Steps(sync, sync')
    BY <1>1, <1>9, <2>1, CommitAnswers DEF CommitOutcomes
  <2> QED BY <2>1, <2>2
<1>10. CASE NoSwap /\ UnknownOutcome(e, FALSE, None)
  <2>1. /\ journal' \in Journals
        /\ World' => Steps(sync, sync')
    BY <1>1, <1>5, <1>10, UnknownOutcomeSteps
  <2>2. World'
    BY <1>5, <1>6, <1>10, <2>1
  <2> QED BY <1>1, <2>1, <2>2
<1> QED BY <1>1, <1>7, <1>8, <1>9, <1>10 DEF CommitExecutes, CommitReports, d

\* The journal is asked about a commit.
LEMMA ReconcileCommitExecutesSteps ==
  ASSUME IInv, NEW e \in sync.effects, ReconcileCommitExecutes(e)
  PROVE  Steps(sync, sync') /\ World' /\ store' = store
<1> DEFINE known == journal # None /\ journal.token = e.request.original
           swappedIn == [text |-> e.request.rev.text, inode |-> journal.inode]
           outcome ==
             CASE ~known -> "unresolved"
               [] known /\ journal.swapped /\ file = swappedIn -> "committed"
               [] known /\ ~journal.swapped
                    /\ file = Fingerprint(e.request.expected) ->
                    "notCommitted"
               [] OTHER -> "unresolved"
           answer == [outcome |-> outcome,
                      displaced |-> IF known THEN journal.displaced ELSE None,
                      inode |-> IF known THEN journal.inode ELSE 0]
           u == [e EXCEPT !.answer = answer]
<1>1. /\ e.kind = "reconcileCommit"
      /\ sync' = Answered(sync, e, answer)
      /\ journal' \in {journal, None}
      /\ UNCHANGED <<file, inodes, store, artifacts, budget>>
  BY DEF ReconcileCommitExecutes
<1>2. e \in Effects /\ World
  BY DEF IInv, Nearly, Calm, Sound, States
<1>3. e \in Reconciliations /\ e.op = "commitReconciliation"
  BY <1>1, <1>2, EffectParts
<1>4. World' /\ store' = store
  BY <1>1, <1>2 DEF World, Stored
<1>5. answer \in [outcome : {"committed", "notCommitted", "unresolved"},
                  displaced : Entries \cup {None}, inode : Nat]
  <2>1. outcome \in {"committed", "notCommitted", "unresolved"}
    <3> HIDE DEF known, swappedIn
    <3> QED OBVIOUS
  <2>2. known => journal.displaced \in Entries \cup {None}
                 /\ journal.inode \in Nat
    BY <1>2 DEF World, Journals
  <2> HIDE DEF outcome, known
  <2> QED BY <2>1, <2>2
<1> HIDE DEF answer
<1>6. u \in Effects /\ u.kind = e.kind /\ u.op = e.op /\ u.token = e.token
  BY <1>3, <1>5 DEF Reconciliations, EffectsOf, Effects
<1>7. sync' = [sync EXCEPT !.effects = (@ \ {e}) \cup {u}]
  BY <1>1 DEF Answered
<1> HIDE DEF u
<1>8. Steps(sync, sync')
  BY <1>3, <1>6, <1>7, AnswerSteps
<1> QED BY <1>4, <1>8

\* The file is read.
LEMMA ReadExecutesSteps ==
  ASSUME IInv, NEW e \in sync.effects, ReadExecutes(e)
  PROVE  Steps(sync, sync') /\ World' /\ store' = store
<1>1. /\ e.kind = "read" /\ e \in Effects /\ World
      /\ UNCHANGED <<file, inodes, store, artifacts, journal>>
  BY DEF IInv, Nearly, Calm, Sound, States, ReadExecutes
<1>2. e \in Reads /\ e.op = "externalRead"
  BY <1>1, EffectParts
<1>3. World' /\ store' = store
  BY <1>1 DEF World, Stored
<1>4. ASSUME NEW answer \in ReadAnswers, sync' = Answered(sync, e, answer)
      PROVE  Steps(sync, sync')
  <2> DEFINE u == [e EXCEPT !.answer = answer]
  <2>1. u \in Effects /\ u.kind = e.kind /\ u.op = e.op /\ u.token = e.token
    BY <1>2 DEF Reads, EffectsOf, Effects
  <2>2. sync' = [sync EXCEPT !.effects = (@ \ {e}) \cup {u}]
    BY <1>4 DEF Answered
  <2> HIDE DEF u
  <2> QED BY <1>2, <2>1, <2>2, AnswerSteps
<1>5. ReadAnswer(e) \in ReadAnswers
  <2>1. file \in Files \cup {None}
    BY <1>1 DEF World
  <2> QED BY <2>1 DEF ReadAnswer, ReadAnswers
<1>6. [outcome |-> "failed", file |-> None] \in ReadAnswers
  BY DEF ReadAnswers
<1>7. Steps(sync, sync')
  BY <1>4, <1>5, <1>6 DEF ReadExecutes
<1> QED BY <1>3, <1>7

\* A list without one of its entries.
LEMMA DecodedAfterDiscardIsTyped ==
  ASSUME NEW decoded \in Seq(Entries), NEW entries
  PROVE  DecodedAfterDiscard(decoded, entries) \in Seq(Entries)
<1> DEFINE named == {i \in DOMAIN decoded : decoded[i] \in entries}
           i == CHOOSE j \in named : TRUE
<1>1. CASE named = {}
  BY <1>1 DEF DecodedAfterDiscard
<1>2. CASE named # {}
  <2>1. i \in 1 .. Len(decoded)
    BY <1>2
  <2>2. DecodedAfterDiscard(decoded, entries) = RemoveAt(decoded, i)
    BY <1>2 DEF DecodedAfterDiscard
  <2> HIDE DEF i, named
  <2>3. /\ SubSeq(decoded, 1, i - 1) \in Seq(Entries)
        /\ SubSeq(decoded, i + 1, Len(decoded)) \in Seq(Entries)
    BY <2>1
  <2> QED BY <2>2, <2>3 DEF RemoveAt
<1> QED BY <1>1, <1>2

\* What the store holds after a mutation is a list of records, and it has the
\* conflict that was to be stored: the list is cut at its end.
LEMMA MutatedIsTyped ==
  ASSUME Stored, NEW a \in AnyAttempt
  PROVE  /\ Mutated(a) \in RecordLists /\ IsFiniteSet(Mutated(a).raw)
         /\ a.purpose = "persistConflict" =>
              a.entry \in ToSet(Mutated(a).decoded)
<1>1. store \in RecordLists /\ IsFiniteSet(store.raw)
  BY DEF Stored
<1>2. CASE a \in DiscardAttempts
  <2>1. a.discard \in DiscardTargets /\ a.discard # None
    BY <1>2, TextAssumption DEF DiscardAttempts
  <2>1a. a.purpose \notin {"persistConflict", "persistDisplacedPreimage"}
    BY <1>2 DEF DiscardAttempts, DiscardPurposes
  <2>2. Mutated(a) = AfterDiscard(a.discard, store)
    BY <2>1, <2>1a DEF Mutated
  <2>3. DecodedAfterDiscard(store.decoded, a.discard.decoded) \in Seq(Entries)
    BY <1>1, DecodedAfterDiscardIsTyped DEF RecordLists
  <2>4. IsFiniteSet(AfterDiscard(a.discard, store).raw)
    BY <1>1, FS_Subset DEF AfterDiscard
  <2>5. AfterDiscard(a.discard, store) \in RecordLists
    BY <1>1, <2>3, <2>4 DEF AfterDiscard, RecordLists, RawRecords
  <2> QED BY <2>1a, <2>2, <2>4, <2>5
<1>3. CASE a \in DisplacedAttempts
  <2>1. a.discard = None /\ a.purpose = "persistDisplacedPreimage"
        /\ a.entry \in Entries
    BY <1>3 DEF DisplacedAttempts
  <2>2. Mutated(a) = [store EXCEPT !.raw = @ \cup {a.entry}]
    BY <2>1 DEF Mutated
  <2>3. IsFiniteSet(store.raw \cup {a.entry})
    BY <1>1, FS_Singleton, FS_Union
  <2> QED BY <1>1, <2>1, <2>2, <2>3 DEF RecordLists, RawRecords
<1>4. CASE a \in ConflictAttempts
  <2> DEFINE all == <<a.entry>> \o store.decoded
             n == Min({EntryLimit, Len(all)})
             decoded == SubSeq(all, 1, n)
  <2>1. a.discard = None /\ a.purpose = "persistConflict"
        /\ a.entry \in Entries
    BY <1>4 DEF ConflictAttempts
  <2>2. all \in Seq(Entries) /\ Len(all) \in Nat \ {0} /\ all[1] = a.entry
    BY <1>1, <2>1 DEF RecordLists
  <2>3. n \in {EntryLimit, Len(all)} /\ n \in 1 .. Len(all)
    <3>1. EntryLimit \in Nat \ {0}
      BY SyncAssumption
    <3> DEFINE l == Len(all)
    <3>2. l \in Nat \ {0}
      BY <2>2
    <3> HIDE DEF l
    <3>3. \E x \in {EntryLimit, l} : \A y \in {EntryLimit, l} : x =< y
      <4>1. EntryLimit =< l \/ l =< EntryLimit
        BY <3>1, <3>2
      <4> QED BY <3>1, <3>2, <4>1
    <3>4. LET m == Min({EntryLimit, l}) IN
          m \in {EntryLimit, l} /\ m =< l
      BY <3>1, <3>2, <3>3 DEF Min
    <3> QED BY <3>1, <3>2, <3>4 DEF l
  <2> HIDE DEF n
  <2>4. decoded \in Seq(Entries) /\ Len(decoded) = n /\ decoded[1] = a.entry
    BY <2>2, <2>3
  <2>5. Mutated(a) = [store EXCEPT !.decoded = decoded]
    BY <2>1 DEF Mutated, n
  <2> HIDE DEF all
  <2>6. 1 \in DOMAIN decoded
    BY <2>3, <2>4
  <2> HIDE DEF decoded
  <2>7. a.entry \in ToSet(decoded)
    BY <2>4, <2>6 DEF ToSet
  <2>8. /\ Mutated(a) \in RecordLists /\ Mutated(a).raw = store.raw
        /\ Mutated(a).decoded = decoded
    BY <1>1, <2>4, <2>5 DEF RecordLists
  <2> QED BY <1>1, <2>7, <2>8
<1> QED BY <1>2, <1>3, <1>4 DEF AnyAttempt

\* So is what it holds after an import.
LEMMA ImportedIsTyped ==
  ASSUME Stored
  PROVE  Imported \in RecordLists /\ IsFiniteSet(Imported.raw)
<1>1. /\ store \in RecordLists /\ store.raw \in RawRecords
      /\ artifacts \in RawRecords
  BY DEF Stored, RecordLists, RawRecords
<1>2. store.raw \cup artifacts \in RawRecords
  BY <1>1, FS_Union DEF RawRecords
<1>3. Imported = [store EXCEPT !.raw = store.raw \cup artifacts]
  BY DEF Imported
<1> QED BY <1>1, <1>2, <1>3 DEF RecordLists, RawRecords

\* The recovery store carries out a command, or fails to.
LEMMA RecoveryExecutesSteps ==
  ASSUME IInv, NEW e \in sync.effects, RecoveryExecutes(e)
  PROVE  /\ Nearly(sync', store') /\ HasCommit(sync') /\ World'
         /\ sync'.pendingConflict = sync.pendingConflict
<1> DEFINE answers == CASE e.kind = "load" -> TRUE
                        [] e.kind = "mutate" -> CanMutate(e.request)
                        [] e.kind = "reconcile" -> ~ImportThrows
           records == CASE e.kind = "load" -> store
                        [] e.kind = "mutate" -> Mutated(e.request)
                        [] e.kind = "reconcile" -> Imported
           gone == sync.displaced \ {r.text : r \in
                     ToSet(store.decoded) \ ToSet(records.decoded)}
           known == [sync EXCEPT !.displaced = gone]
           answer == [ok |-> TRUE, records |-> records]
           failure == [ok |-> FALSE, records |-> store]
<1>1. /\ sync \in States /\ IsFiniteSet(sync.effects) /\ Calm(sync)
      /\ Current(sync, store) /\ StoresConflicts(sync) /\ HasCommit(sync)
      /\ World /\ Stored /\ e \in Effects
  BY DEF IInv, Nearly, Calm, Sound, World, States
<1>2. e.op = "recovery" /\ e.answer = None /\ IsNext(e) /\ e.kind # "commit"
  BY <1>1, EffectKinds DEF RecoveryExecutes
<1>3. e \in RecoveryCalls
  BY <1>1, <1>2, EffectParts
<1>4. /\ e.kind \in {"load", "mutate", "reconcile"}
      /\ e.kind = "mutate" => e.request \in AnyAttempt
  BY <1>1, <1>2, EffectKinds
<1>5. records \in RecordLists /\ IsFiniteSet(records.raw)
  <2>1. e.kind = "mutate" => /\ Mutated(e.request) \in RecordLists
                             /\ IsFiniteSet(Mutated(e.request).raw)
    BY <1>1, <1>4, MutatedIsTyped
  <2>2. store \in RecordLists /\ IsFiniteSet(store.raw)
    BY <1>1 DEF Stored
  <2>3. Imported \in RecordLists /\ IsFiniteSet(Imported.raw)
    BY <1>1, ImportedIsTyped
  <2> QED BY <1>4, <2>1, <2>2, <2>3
<1>6. gone \subseteq Texts
  BY <1>1 DEF States
<1>7. \/ /\ store' = records /\ artifacts' = artifacts \ records.raw
         /\ journal' = IF e.kind = "reconcile" THEN None ELSE journal
         /\ sync' = Answered(known, e, answer)
      \/ /\ UNCHANGED <<store, artifacts, journal>>
         /\ sync' = Answered(sync, e, failure)
  BY DEF RecoveryExecutes
<1>8. UNCHANGED <<file, inodes>>
  BY DEF RecoveryExecutes
<1>9. World'
  <2> HIDE DEF records, known, answer, failure
  <2>1. store' \in RecordLists /\ IsFiniteSet(store'.raw)
    BY <1>1, <1>5, <1>7 DEF Stored
  <2>2. artifacts' \subseteq Entries /\ IsFiniteSet(artifacts')
    BY <1>1, <1>7, FS_Subset DEF Stored
  <2>3. journal' \in Journals \cup {None}
    BY <1>1, <1>7 DEF World
  <2> QED BY <1>1, <1>8, <2>1, <2>2, <2>3 DEF World, Stored
<1>10. ASSUME NEW s \in States, s.effects = sync.effects,
              s.lifecycle = sync.lifecycle, s.local = sync.local,
              s.external = sync.external, s.merge = sync.merge,
              s.access = sync.access, s.recovery = sync.recovery,
              s.barrier = sync.barrier, s.active = sync.active,
              s.pendingConflict = sync.pendingConflict,
              NEW ans \in StoreAnswers, sync' = Answered(s, e, ans),
              ans.records = store',
              e.kind = "mutate" /\ ans.ok => store' = records
       PROVE  /\ Nearly(sync', store') /\ HasCommit(sync')
              /\ sync'.pendingConflict = sync.pendingConflict
  <2> DEFINE u == [e EXCEPT !.answer = ans]
             y == (sync.effects \ {e}) \cup {u}
             r == [s EXCEPT !.effects = y]
  <2>1. sync' = r
    BY <1>10 DEF Answered
  <2>2. /\ u \in Effects /\ u.kind = e.kind /\ u.op = e.op
        /\ u.token = e.token /\ u.request = e.request /\ u.answer = ans
    BY <1>3, <1>10 DEF RecoveryCalls, EffectsOf, Effects
  <2> HIDE DEF u
  <2>3. y \in SUBSET Effects
    BY <1>1, <2>2 DEF States
  <2>4. IsFiniteSet(y)
    <3>1. IsFiniteSet(sync.effects \ {e}) /\ IsFiniteSet({u})
      BY <1>1, FS_Subset, FS_Singleton
    <3> QED BY <3>1, FS_Union
  <2>5. {f \in y : f.kind = "commit"} = CommitsOf(sync)
    BY <1>2, <2>2 DEF CommitsOf
  <2>6. {f \in y : f.op = "recovery"} = (CallsOf(sync) \ {e}) \cup {u}
    BY <1>2, <2>2 DEF CallsOf
  <2> HIDE DEF y
  <2>7. r \in States /\ r.effects = y
    BY <2>3 DEF States
  <2>8. /\ r.lifecycle = sync.lifecycle /\ r.local = sync.local
        /\ r.external = sync.external /\ r.merge = sync.merge
        /\ r.access = sync.access /\ r.recovery = sync.recovery
        /\ r.barrier = sync.barrier /\ r.active = sync.active
        /\ r.pendingConflict = sync.pendingConflict
    BY <1>10 DEF States
  <2> HIDE DEF r
  <2>9. Calm(r)
    BY <1>1, <2>4, <2>7, <2>8 DEF Calm, Sound, ConflictIsOwned, Owned,
       Conflicting
  <2>10. HasCommit(r)
    BY <1>1, <2>5, <2>7, <2>8 DEF HasCommit, CommitsOf
  <2>11. CallsOf(r) = (CallsOf(sync) \ {e}) \cup {u}
    BY <2>6, <2>7 DEF CallsOf
  <2>12. e \in CallsOf(sync)
    BY <1>2 DEF CallsOf
  <2>13. Current(r, store')
    <3>1. CASE e.token = sync.active["recovery"]
      <4>1. \A f \in CallsOf(sync) : f # e =>
              f.answer # None /\ f.token # e.token
        BY <1>1, <1>2, <2>12, <3>1 DEF IsNext, Current, CallsOf
      <4>2. u.answer # None \/ ans = None
        BY <2>2
      <4> QED BY <1>10, <2>2, <2>8, <2>11, <3>1, <4>1 DEF Current
    <3>2. CASE e.token # sync.active["recovery"]
      <4>1. \A f \in CallsOf(sync) : f.token = sync.active["recovery"] =>
              /\ f.answer = None
              /\ \A g \in CallsOf(sync) : g.token = f.token => g = f
        BY <1>1, <1>2, <2>12 DEF Current
      <4> QED BY <2>2, <2>8, <2>11, <3>2, <4>1 DEF Current
    <3> QED BY <3>1, <3>2
  <2>14. StoresConflicts(r)
    <3>1. /\ u.kind = "mutate" /\ u.request.purpose = "persistConflict"
          /\ u.answer.ok
          => u.request.entry \in ToSet(u.answer.records.decoded)
      <4>1. SUFFICES ASSUME e.kind = "mutate", ans.ok,
                            e.request.purpose = "persistConflict"
                     PROVE  e.request.entry \in ToSet(ans.records.decoded)
        BY <2>2
      <4>2. ans.records = Mutated(e.request)
        BY <1>10, <4>1
      <4> QED BY <1>1, <1>4, <4>1, <4>2, MutatedIsTyped
    <3> QED BY <1>1, <2>11, <3>1 DEF StoresConflicts
  <2> QED BY <2>1, <2>8, <2>9, <2>10, <2>13, <2>14 DEF Nearly
<1>11. answer \in StoreAnswers /\ failure \in StoreAnswers
  BY <1>1, <1>5 DEF StoreAnswers, Stored
<1>12. /\ known \in States /\ known.effects = sync.effects
       /\ known.lifecycle = sync.lifecycle /\ known.local = sync.local
       /\ known.external = sync.external /\ known.merge = sync.merge
       /\ known.access = sync.access /\ known.recovery = sync.recovery
       /\ known.barrier = sync.barrier /\ known.active = sync.active
       /\ known.pendingConflict = sync.pendingConflict
  <2> HIDE DEF gone
  <2> QED BY <1>1, <1>6 DEF States
<1>13. answer.records = records /\ failure.records = store /\ ~failure.ok
  OBVIOUS
<1>14. CASE store' = records /\ sync' = Answered(known, e, answer)
  <2> HIDE DEF known, answer, records, gone
  <2>1. /\ Nearly(sync', store') /\ HasCommit(sync')
        /\ sync'.pendingConflict = sync.pendingConflict
    BY <1>10, <1>11, <1>12, <1>13, <1>14
  <2> QED BY <1>9, <2>1
<1>15. CASE store' = store /\ sync' = Answered(sync, e, failure)
  <2> HIDE DEF known, failure, records, gone
  <2>1. /\ Nearly(sync', store') /\ HasCommit(sync')
        /\ sync'.pendingConflict = sync.pendingConflict
    BY <1>1, <1>10, <1>11, <1>13, <1>15
  <2> QED BY <1>9, <2>1
<1> QED BY <1>7, <1>14, <1>15

-----------------------------------------------------------------------------
(* The specification.                                                      *)

\* The invariant holds of a document that has just been opened.
LEMMA InitHolds ==
  ASSUME Init
  PROVE  IInv
<1> DEFINE revision == [number |-> 0, text |-> Base]
           active == [op \in Operations |->
                        IF op \in {"recovery", "monitor"} THEN 1 ELSE 0]
           s == [lifecycle |-> "active", source |-> revision,
                 baseline |-> Durable(revision, 1),
                 local |-> Clean, external |-> Idle, merge |-> None,
                 signalPending |-> FALSE, access |-> "loading",
                 recovery |-> Clear, barrier |-> FALSE, cleanup |-> None,
                 uncertain |-> None, pendingConflict |-> None,
                 pendingDisplaced |-> None, unresolvedDisplaced |-> None,
                 issue |-> None, active |-> active,
                 effects |-> {}, displaced |-> {}]
           e == Effect("load", "recovery", 1, None)
           r == [s EXCEPT !.effects = @ \cup {e}]
<1>1. sync = r
  BY DEF Init, Emit
<1>2. e \in Effects /\ e.kind = "load" /\ e.op = "recovery" /\ e.token = 1
      /\ e.answer = None
  BY DEF Effect, Effects, RecoveryCalls, EffectsOf
<1> HIDE DEF e
<1>3. s \in States
  <2>1. revision \in Revisions /\ Durable(revision, 1) \in Durables
    BY DEF Revisions, Texts, Contents, Base, Durable, Durables
  <2>2. active \in [Operations -> Nat]
    OBVIOUS
  <2>3. Clean \in LocalStates /\ Idle \in ExternalStates
        /\ Clear \in RecoveryStates
    BY DEF LocalStates, ExternalStates, RecoveryStates
  <2> HIDE DEF revision, active
  <2> QED BY <2>1, <2>2, <2>3 DEF States
<1>4. /\ r \in States /\ r.effects = {e} /\ r.local = Clean
      /\ r.merge = None /\ r.external = Idle /\ r.recovery = Clear
      /\ r.active = active /\ r.lifecycle = "active"
      /\ r.pendingConflict = None
  <2> DEFINE y == {} \cup {e}
  <2>1. y \in SUBSET Effects /\ y = {e}
    BY <1>2
  <2>2. r = [s EXCEPT !.effects = y]
    OBVIOUS
  <2> HIDE DEF y, r, active, revision
  <2> QED BY <1>3, <2>1, <2>2 DEF States
<1>5. active["merge"] = 0 /\ active["recovery"] = 1
  BY DEF Operations
<1> HIDE DEF r, s, active
<1>6. Calm(r)
  <2>1. IsFiniteSet(r.effects)
    BY <1>4, FS_Singleton
  <2> QED BY <1>4, <1>5, <2>1 DEF Calm, Sound, ConflictIsOwned, Owned,
       Conflicting, Clean, Clear
<1>7. CallsOf(r) = {e}
  BY <1>2, <1>4 DEF CallsOf
<1>8. Nearly(sync, store) /\ HasCommit(sync)
  BY <1>1, <1>2, <1>4, <1>6, <1>7 DEF Nearly, Current, StoresConflicts,
     HasCommit, Clean
<1>9. World
  <2>1. file \in Files /\ inodes \in Nat /\ journal = None
        /\ artifacts = {}
    BY DEF Init, Files, Texts, Contents, Base
  <2>2. store \in RecordLists /\ IsFiniteSet(store.raw)
    <3>1. /\ store.decoded \in {<<>>} \cup {<<[id |-> 1, text |-> t]>> :
                                              t \in StoredTexts}
          /\ store.raw \in {{}} \cup {{[id |-> 2, text |-> t]} :
                                        t \in StoredForeign}
          /\ store = [decoded |-> store.decoded, raw |-> store.raw]
      BY DEF Init
    <3>2. store.decoded \in Seq(Entries)
      <4>1. <<>> \in Seq(Entries)
        OBVIOUS
      <4>2. ASSUME NEW t \in StoredTexts
            PROVE  <<[id |-> 1, text |-> t]>> \in Seq(Entries)
        <5> DEFINE entry == [id |-> 1, text |-> t]
        <5>1. entry \in Entries
          BY TextAssumption DEF Entries
        <5> HIDE DEF entry
        <5>2. <<entry>> \in Seq(Entries)
          BY <5>1
        <5> QED BY <5>2 DEF entry
      <4> QED BY <3>1, <4>1, <4>2
    <3>3. store.raw \subseteq Entries
      BY <3>1, TextAssumption DEF Entries
    <3>4. IsFiniteSet(store.raw)
      <4>1. \A y : IsFiniteSet({y})
        BY FS_Singleton
      <4>2. CASE store.raw = {}
        BY <4>2, FS_EmptySet
      <4>3. CASE \E t \in StoredForeign : store.raw = {[id |-> 2, text |-> t]}
        <5>1. PICK t \in StoredForeign : store.raw = {[id |-> 2, text |-> t]}
          BY <4>3
        <5> QED BY <4>1, <5>1
      <4> QED BY <3>1, <4>2, <4>3
    <3> QED BY <3>1, <3>2, <3>3, <3>4 DEF RecordLists, RawRecords
  <2> QED BY <2>1, <2>2, FS_EmptySet DEF World, Stored
<1> QED BY <1>8, <1>9 DEF IInv

\* A step that leaves the world alone.
LEMMA EventKeeps ==
  ASSUME IInv, WorldUnchanged, Steps(sync, sync')
  PROVE  IInv'
BY DEF IInv, WorldUnchanged, Steps, World, Stored

\* The steps of the program keep the invariant, and a text that is held is
\* given up only when the store has it.
LEMMA EffectKeeps ==
  ASSUME IInv, NEW e \in sync.effects,
         \/ Completions(e) \/ CloseDeadline(e)
         \/ CommitValidates(e) \/ CommitExecutes(e)
         \/ ReconcileCommitExecutes(e)
         \/ ReadExecutes(e) \/ RecoveryExecutes(e)
  PROVE  IInv' /\ (/\ sync.pendingConflict # None
                   /\ sync'.pendingConflict # sync.pendingConflict
                   => \E x \in ToSet(store.decoded) :
                        x.text = sync.pendingConflict)
<1>1. CASE Completions(e) \/ CloseDeadline(e)
  <2>1. Steps(sync, sync')
    BY <1>1, DeadlineSteps, PrepareSteps, FinishCommitSteps,
       FinishReconciliationSteps, FinishReadSteps, FinishMergeSteps,
       FinishRecoverySteps DEF Completions
  <2>2. WorldUnchanged
    BY <1>1 DEF Completions, LocalSaveDeadline, ExternalReadDeadline,
       CloseDeadline, PrepareSave, FinishCommit, FinishReconciliation,
       MonitorSignal, FinishRead, FinishMerge, FinishRecovery, Receive,
       Deliver
  <2> QED BY <2>1, <2>2, EventKeeps DEF Steps
<1>2. CASE \/ CommitValidates(e) \/ CommitExecutes(e)
           \/ ReconcileCommitExecutes(e) \/ ReadExecutes(e)
  <2>1. Steps(sync, sync') /\ World' /\ store' = store
    BY <1>2, CommitValidatesSteps, CommitExecutesSteps,
       ReconcileCommitExecutesSteps, ReadExecutesSteps
  <2> QED BY <2>1 DEF Steps, IInv
<1>3. CASE RecoveryExecutes(e)
  BY <1>3, RecoveryExecutesSteps DEF IInv
<1> QED BY <1>1, <1>2, <1>3

\* So do all steps.
LEMMA NextKeeps ==
  ASSUME IInv, Next
  PROVE  IInv' /\ (/\ sync.pendingConflict # None
                   /\ sync'.pendingConflict # sync.pendingConflict
                   => \E x \in ToSet(store.decoded) :
                        x.text = sync.pendingConflict)
<1>1. CASE UserStep \/ HostCloses \/ HostCancels \/ MonitorFails
  <2>1. Steps(sync, sync')
    BY <1>1, EditSteps, RequestSteps DEF UserStep
  <2>2. WorldUnchanged
    BY <1>1 DEF UserStep, Edit, RequestSave, UserRetries, UserRestores,
       UserDiscardsRaw, UserCloses, HostCloses, HostCancels, MonitorFails
  <2> QED BY <2>1, <2>2, EventKeeps DEF Steps
<1>2. CASE OtherProgram
  BY <1>2, OtherProgramSteps DEF Steps, IInv
<1>3. CASE ProgramStep
  BY <1>3, EffectKeeps DEF ProgramStep
<1> QED BY <1>1, <1>2, <1>3 DEF Next

\* A step that changes nothing keeps the invariant.
LEMMA StutterKeeps ==
  ASSUME IInv, UNCHANGED vars
  PROVE  IInv'
BY DEF IInv, World, Stored, vars

\* The invariant is inductive.
THEOREM InvariantHolds == Spec => []IInv
<1>1. IInv /\ [Next]_vars => IInv'
  BY NextKeeps, StutterKeeps
<1> QED BY <1>1, InitHolds, PTL DEF Spec

\* The parts of the state have the forms that the code gives them.
THEOREM TypesHold == Spec => []TypeOK
<1>1. IInv => TypeOK
  <2> SUFFICES ASSUME IInv PROVE TypeOK
    OBVIOUS
  <2>1. sync \in States /\ World
    BY DEF IInv, Nearly, Calm, Sound
  <2>2. \A e \in sync.effects : e.op \in Operations /\ e.token \in Nat \ {0}
    BY <2>1, EffectKinds DEF States
  <2>3. sync.local.kind \in {"clean", "dirty", "preparing", "writing"}
    BY <2>1 DEF States, LocalStates, Clean
  <2>4. sync.external.kind \in {"idle", "debouncing", "reading"}
    BY <2>1 DEF States, ExternalStates, Idle
  <2>5. sync.recovery.kind \in {"clear", "available", "persisting"}
    BY <2>1, RecoveryParts
  <2>6. file \in [text : Texts, inode : Nat] \cup {None}
    BY <2>1 DEF World, Files
  <2>7. store.raw \subseteq Entries /\ artifacts \subseteq Entries
    BY <2>1 DEF World, Stored, RecordLists, RawRecords
  <2> QED BY <2>1, <2>2, <2>3, <2>4, <2>5, <2>6, <2>7
       DEF TypeOK, States, Durables
<1> QED BY <1>1, InvariantHolds, PTL

\* A local state that is writing has a commit that will answer, through every
\* failure, deadline, contested result and close.
THEOREM WritingAnswers == Spec => []WritingIsUnderWay
<1>1. IInv => WritingIsUnderWay
  BY DEF IInv, HasCommit, CommitsOf, WritingIsUnderWay, Outstanding
<1> QED BY <1>1, InvariantHolds, PTL

\* The text of the loser of a conflict is held in memory until the recovery
\* store has it.
THEOREM ConflictIsHeld == Spec => ConflictIsHeldUntilStored
<1>1. IInv /\ [Next]_vars =>
        [/\ sync.pendingConflict # None
         /\ sync'.pendingConflict # sync.pendingConflict
         => \E r \in ToSet(store.decoded) : r.text = sync.pendingConflict]_vars
  BY NextKeeps
<1> QED BY <1>1, InvariantHolds, PTL DEF Spec, ConflictIsHeldUntilStored

=============================================================================
