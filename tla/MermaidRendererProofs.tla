------------------------- MODULE MermaidRendererProofs -------------------------
(* What MermaidRenderer keeps for every number of diagrams, of pending renders *)
(* and of late callbacks: every wait is held once and timed, an answer belongs *)
(* to its source, and the queue of the slot has room for every pending render. *)
EXTENDS MermaidRenderer, DataFacts, TLAPS

------------------------------------------------------------------------------
(* The inductive invariant.                                                  *)

Navigations == [attempt : Ids, present : BOOLEAN]

Types ==
  /\ {hasEntry, disposed, view, ready, loaded, rendering} \subseteq BOOLEAN
  /\ {load, loadTimer, evaluationTimer} \subseteq Ids \cup {None}
  /\ waiters \subseteq Sources
  /\ active \in [id : Ids, caller : Sources] \cup {None}
  /\ navigations \subseteq Navigations
  /\ calls \subseteq [id : Ids, caller : Sources]
  /\ task \in [Sources -> Stages]
  /\ answer \in [Sources -> [source : Sources, outcome : Outcomes] \cup {None}]
  /\ queue \in Seq(Sources)
  /\ shown \subseteq Sources
  /\ changes \in Nat /\ changes < Len(Documents)

\* A callback that carries the number of the active evaluation is its own.
CallsKnowTheirCaller ==
  \A c \in calls : active # None /\ active.id = c.id => active.caller = c.caller

PresentViewExists == \A n \in navigations : n.present => view

PendingIsBounded == Cardinality(Pending) <= MaxPending

Held == EveryAwaitIsHeldOnce /\ NobodyWaitsUntimed
Own == ReadyMeansLoaded /\ AnswersAreOwn /\ CallsKnowTheirCaller /\ PresentViewExists
Slot == NoRenderIsTurnedAway /\ PendingIsBounded

IInv == Types /\ Held /\ Own /\ Slot

------------------------------------------------------------------------------
(* Numbers, and callbacks that may still come.                               *)

\* A fresh number is in use nowhere.
LEMMA FreshIsNew ==
  ASSUME NEW used, NEW n \in Fresh(used)
  PROVE  n \in Ids /\ n \notin used /\ n # None
BY SourcesAssumption DEF Fresh

\* Late adds no callback.
LEMMA LateIsEarlier ==
  ASSUME NEW set, NEW others, NEW late \in Late(set, others)
  PROVE  late \subseteq set
<1> DEFINE room == IF Cardinality(others) < MaxLate THEN MaxLate - Cardinality(others)
                   ELSE 0
<1>1. CASE Cardinality(set) <= room
  BY <1>1 DEF Late
<1>2. CASE ~(Cardinality(set) <= room)
  BY <1>2 DEF Late
<1> QED BY <1>1, <1>2

\* Navigations of a view that is replaced keep their numbers.
LEMMA ReplacedIsTyped ==
  ASSUME NEW set, set \subseteq Navigations
  PROVE  /\ OfReplacedView(set) \subseteq Navigations
         /\ \A n \in OfReplacedView(set) : ~n.present
<1>1. ASSUME NEW n \in OfReplacedView(set)
      PROVE  n \in Navigations /\ ~n.present
  <2>1. PICK m \in set : n = [m EXCEPT !.present = FALSE]
    BY DEF OfReplacedView
  <2>2. n = [attempt |-> m.attempt, present |-> FALSE]
    BY <2>1 DEF Navigations
  <2> QED BY <2>2 DEF Navigations
<1> QED BY <1>1

\* A load that begins is numbered, timed and in the present view.
LEMMA LoadIsNumbered ==
  ASSUME NEW pending, pending \subseteq Navigations, NavigationBegins(pending)
  PROVE  /\ load' \in Ids /\ load' # None /\ loadTimer' = load'
         /\ navigations' \subseteq Navigations
         /\ view' = TRUE /\ ready' = FALSE /\ loaded' = FALSE
<1>1. load' \in Ids /\ load' # None
  BY FreshIsNew DEF NavigationBegins
<1>2. PICK late \in Late(pending, calls) :
        navigations' = late \cup {[attempt |-> load', present |-> TRUE]}
  BY DEF NavigationBegins
<1>3. late \subseteq pending
  BY LateIsEarlier
<1>4. [attempt |-> load', present |-> TRUE] \in Navigations
  BY <1>1 DEF Navigations
<1> QED BY <1>1, <1>2, <1>3, <1>4 DEF NavigationBegins

------------------------------------------------------------------------------
(* Pending renders.                                                          *)

\* Pending renders are finitely many.
LEMMA PendingIsFinite == IsFiniteSet(Pending) /\ Cardinality(Pending) \in Nat
<1>1. Pending \subseteq Sources
  BY DEF Pending
<1> QED BY <1>1, SourcesAssumption, FS_Subset, FS_CardinalityType

\* With fewer renders pending the bound still holds.
LEMMA PendingShrinks ==
  ASSUME Slot, NoRenderIsTurnedAway', Pending' \subseteq Pending
  PROVE  Slot'
<1>1. Cardinality(Pending') <= Cardinality(Pending) /\ Cardinality(Pending') \in Nat
  BY PendingIsFinite, FS_Subset, FS_CardinalityType
<1> QED BY <1>1, PendingIsFinite, LimitsAssumption DEF Slot, PendingIsBounded

\* A step that moves renders only within the slot keeps what concerns the slot.
LEMMA SlotIsKept ==
  ASSUME Slot, UNCHANGED slotVars,
         \A s \in Sources : /\ task[s] \in InSlot <=> task'[s] \in InSlot
                            /\ task[s] = "none" <=> task'[s] = "none"
                            /\ task[s] = "refused" <=> task'[s] = "refused"
  PROVE  Slot'
<1>1. Pending' = Pending
  BY DEF Pending
<1>2. PendingIsBounded'
  BY <1>1 DEF Slot, PendingIsBounded
<1> QED BY <1>2 DEF Slot, NoRenderIsTurnedAway, slotVars

------------------------------------------------------------------------------
(* The operations of the session.                                            *)

\* A render need not wait.
LEMMA NotWaitingKeeps ==
  ASSUME IInv, NEW s \in Sources, NotWaiting(s), Elsewhere
  PROVE  IInv'
<1> USE DEF IInv, NotWaiting, Resumed, Loaded, loadVars, evaluationVars,
            Elsewhere, paneVars, slotVars
<1>1. Types'
  BY SourcesAssumption DEF Types, Stages, Outcomes, Navigations
<1>2. Held'
  BY SourcesAssumption DEF Types, Held, EveryAwaitIsHeldOnce, NobodyWaitsUntimed
<1>3. Own'
  BY SourcesAssumption
     DEF Types, Own, ReadyMeansLoaded, AnswersAreOwn, CallsKnowTheirCaller,
         PresentViewExists, Navigations
<1>4. Slot'
  BY SlotIsKept DEF Types, InSlot, Held, EveryAwaitIsHeldOnce
<1> QED BY <1>1, <1>2, <1>3, <1>4

\* A render waits for the load under way.
LEMMA JoinsLoadKeeps ==
  ASSUME IInv, NEW s \in Sources, JoinsLoad(s), Elsewhere
  PROVE  IInv'
<1> USE DEF IInv, JoinsLoad, Resumed, evaluationVars,
            Elsewhere, paneVars, slotVars
<1>1. Types'
  BY SourcesAssumption DEF Types, Stages, Outcomes, Navigations
<1>2. Held'
  BY SourcesAssumption DEF Types, Held, EveryAwaitIsHeldOnce, NobodyWaitsUntimed
<1>3. Own'
  BY SourcesAssumption
     DEF Types, Own, ReadyMeansLoaded, AnswersAreOwn, CallsKnowTheirCaller,
         PresentViewExists, Navigations
<1>4. Slot'
  BY SlotIsKept DEF Types, InSlot, Held, EveryAwaitIsHeldOnce
<1> QED BY <1>1, <1>2, <1>3, <1>4

\* A render begins a load.
LEMMA BeginsLoadKeeps ==
  ASSUME IInv, NEW s \in Sources, BeginsLoad(s), Elsewhere
  PROVE  IInv'
<1> USE DEF IInv, BeginsLoad, Resumed, evaluationVars,
            Elsewhere, paneVars, slotVars
<1>0. /\ load' \in Ids /\ load' # None /\ loadTimer' = load'
      /\ navigations' \subseteq Navigations
      /\ view' = TRUE /\ ready' = FALSE /\ loaded' = FALSE
  BY LoadIsNumbered DEF Types
<1>1. Types'
  BY <1>0, SourcesAssumption DEF Types, Stages, Outcomes, Navigations
<1>2. Held'
  BY <1>0, SourcesAssumption DEF Types, Held, EveryAwaitIsHeldOnce, NobodyWaitsUntimed
<1>3. Own'
  BY <1>0, SourcesAssumption
     DEF Types, Own, ReadyMeansLoaded, AnswersAreOwn, CallsKnowTheirCaller,
         PresentViewExists, Navigations
<1>4. Slot'
  BY SlotIsKept DEF Types, InSlot, Held, EveryAwaitIsHeldOnce
<1> QED BY <1>1, <1>2, <1>3, <1>4

\* A load cannot begin.
LEMMA LoadIsRefusedKeeps ==
  ASSUME IInv, NEW s \in Sources, LoadIsRefused(s), Elsewhere
  PROVE  IInv'
<1> USE DEF IInv, LoadIsRefused, NavigationIsRefused, LoadEnds, ReplaceWebView,
            Resumed, evaluationVars,
            Elsewhere, paneVars, slotVars
<1>0. /\ navigations' \subseteq Navigations
      /\ \A n \in navigations' : n.present => view'
      /\ {view', loaded'} \subseteq BOOLEAN
  BY ReplacedIsTyped DEF Types, Own, PresentViewExists
<1>1. Types'
  BY <1>0, SourcesAssumption DEF Types, Stages, Outcomes, Navigations
<1>2. Held'
  BY <1>0, SourcesAssumption DEF Types, Held, EveryAwaitIsHeldOnce, NobodyWaitsUntimed
<1>3. Own'
  BY <1>0, SourcesAssumption
     DEF Types, Own, ReadyMeansLoaded, AnswersAreOwn, CallsKnowTheirCaller,
         PresentViewExists, Navigations
<1>4. Slot'
  BY SlotIsKept DEF Types, InSlot, Held, EveryAwaitIsHeldOnce
<1> QED BY <1>1, <1>2, <1>3, <1>4

\* A script is started.
LEMMA EvaluateKeeps ==
  ASSUME IInv, NEW s \in Sources, Evaluate(s), Elsewhere
  PROVE  IInv'
<1> USE DEF IInv, Evaluate, Resumed, loadVars,
            Elsewhere, paneVars, slotVars
<1>1. Types'
  BY FreshIsNew, LateIsEarlier, SourcesAssumption DEF Types, Stages, Outcomes, Navigations
<1>2. Held'
  BY FreshIsNew, LateIsEarlier, SourcesAssumption DEF Types, Held, EveryAwaitIsHeldOnce, NobodyWaitsUntimed
<1>3. Own'
  BY FreshIsNew, LateIsEarlier, SourcesAssumption
     DEF Types, Own, ReadyMeansLoaded, AnswersAreOwn, CallsKnowTheirCaller,
         PresentViewExists, Navigations
<1>4. Slot'
  BY SlotIsKept DEF Types, InSlot, Held, EveryAwaitIsHeldOnce
<1> QED BY <1>1, <1>2, <1>3, <1>4

\* A script cannot be started.
LEMMA EvaluationIsCancelledKeeps ==
  ASSUME IInv, NEW s \in Sources, EvaluationIsCancelled(s), Elsewhere
  PROVE  IInv'
<1> USE DEF IInv, EvaluationIsCancelled, Answer, Resumed, loadVars,
            Elsewhere, paneVars, slotVars
<1>1. Types'
  BY SourcesAssumption DEF Types, Stages, Outcomes, Navigations
<1>2. Held'
  BY SourcesAssumption DEF Types, Held, EveryAwaitIsHeldOnce, NobodyWaitsUntimed
<1>3. Own'
  BY SourcesAssumption
     DEF Types, Own, ReadyMeansLoaded, AnswersAreOwn, CallsKnowTheirCaller,
         PresentViewExists, Navigations
<1>4. Slot'
  BY SlotIsKept DEF Types, InSlot, Held, EveryAwaitIsHeldOnce
<1> QED BY <1>1, <1>2, <1>3, <1>4

\* The session is disposed of.
LEMMA DisposeKeeps ==
  ASSUME IInv, Dispose, Elsewhere
  PROVE  IInv'
<1> USE DEF IInv, Dispose, ResumedByReset, ActiveFails, ActiveAnswered,
            Answer, EvaluationEnds, LoadEnds, ReplaceWebView,
            Elsewhere, paneVars, slotVars
<1>1. Types'
  BY ReplacedIsTyped, SourcesAssumption DEF Types, Stages, Outcomes, Navigations
<1>2. Held'
  BY ReplacedIsTyped, SourcesAssumption DEF Types, Held, EveryAwaitIsHeldOnce, NobodyWaitsUntimed
<1>3. Own'
  BY ReplacedIsTyped, SourcesAssumption
     DEF Types, Own, ReadyMeansLoaded, AnswersAreOwn, CallsKnowTheirCaller,
         PresentViewExists, Navigations
<1>4. Slot'
  BY SlotIsKept DEF Types, InSlot, Held, EveryAwaitIsHeldOnce
<1> QED BY <1>1, <1>2, <1>3, <1>4

\* The load and the script fail and the view is replaced.
LEMMA ResetKeeps ==
  ASSUME IInv, NEW pending, pending \subseteq navigations, Reset(pending),
         UNCHANGED <<hasEntry, disposed, calls>>, Elsewhere
  PROVE  IInv'
<1> USE DEF IInv, Reset, ResumedByReset, ActiveFails, ActiveAnswered,
            Answer, EvaluationEnds, LoadEnds, ReplaceWebView,
            Elsewhere, paneVars, slotVars
<1>1. Types'
  BY ReplacedIsTyped, SourcesAssumption DEF Types, Stages, Outcomes, Navigations
<1>2. Held'
  BY ReplacedIsTyped, SourcesAssumption DEF Types, Held, EveryAwaitIsHeldOnce, NobodyWaitsUntimed
<1>3. Own'
  BY ReplacedIsTyped, SourcesAssumption
     DEF Types, Own, ReadyMeansLoaded, AnswersAreOwn, CallsKnowTheirCaller,
         PresentViewExists, Navigations
<1>4. Slot'
  BY SlotIsKept DEF Types, InSlot, Held, EveryAwaitIsHeldOnce
<1> QED BY <1>1, <1>2, <1>3, <1>4

\* A load takes too long.
LEMMA LoadTimesOutKeeps ==
  ASSUME IInv, LoadTimesOut, Elsewhere
  PROVE  IInv'
BY ResetKeeps DEF LoadTimesOut

\* The web content process ends.
LEMMA ProcessTerminatesKeeps ==
  ASSUME IInv, ProcessTerminates, Elsewhere
  PROVE  IInv'
BY ResetKeeps DEF ProcessTerminates

\* A navigation fails.
LEMMA NavigationFailsKeeps ==
  ASSUME IInv, NEW n \in navigations, NavigationFails(n), Elsewhere
  PROVE  IInv'
<1>1. CASE IsActiveLoad(n)
  BY <1>1, ResetKeeps DEF NavigationFails
<1>2. CASE ~IsActiveLoad(n)
  <2> USE <1>2 DEF IInv, NavigationFails, Elsewhere, paneVars, slotVars
  <2>1. Types'
    BY DEF Types
  <2>2. Held'
    BY DEF Held, EveryAwaitIsHeldOnce, NobodyWaitsUntimed
  <2>3. Own'
    BY DEF Own, ReadyMeansLoaded, AnswersAreOwn, CallsKnowTheirCaller, PresentViewExists
  <2>4. Slot'
    BY SlotIsKept
  <2> QED BY <2>1, <2>2, <2>3, <2>4
<1> QED BY <1>1, <1>2

\* A script takes too long.
LEMMA EvaluationTimesOutKeeps ==
  ASSUME IInv, EvaluationTimesOut, Elsewhere
  PROVE  IInv'
<1> USE DEF IInv, EvaluationTimesOut, Resumed, ResumedByReset, ActiveFails, ActiveAnswered,
            Answer, EvaluationEnds, LoadEnds, ReplaceWebView,
            Elsewhere, paneVars, slotVars
<1>1. Types'
  BY ReplacedIsTyped, SourcesAssumption DEF Types, Stages, Outcomes, Navigations
<1>2. Held'
  BY ReplacedIsTyped, SourcesAssumption DEF Types, Held, EveryAwaitIsHeldOnce, NobodyWaitsUntimed
<1>3. Own'
  BY ReplacedIsTyped, SourcesAssumption
     DEF Types, Own, ReadyMeansLoaded, AnswersAreOwn, CallsKnowTheirCaller,
         PresentViewExists, Navigations
<1>4. Slot'
  BY SlotIsKept DEF Types, InSlot, Held, EveryAwaitIsHeldOnce
<1> QED BY <1>1, <1>2, <1>3, <1>4

\* A navigation finishes.
LEMMA NavigationFinishesKeeps ==
  ASSUME IInv, NEW n \in navigations, NavigationFinishes(n), Elsewhere
  PROVE  IInv'
<1> USE DEF IInv, NavigationFinishes, IsActiveLoad, LoadEnds, Resumed, evaluationVars,
            Elsewhere, paneVars, slotVars
<1>1. Types'
  BY SourcesAssumption DEF Types, Stages, Outcomes, Navigations
<1>2. Held'
  BY SourcesAssumption DEF Types, Held, EveryAwaitIsHeldOnce, NobodyWaitsUntimed
<1>3. Own'
  BY SourcesAssumption
     DEF Types, Own, ReadyMeansLoaded, AnswersAreOwn, CallsKnowTheirCaller,
         PresentViewExists, Navigations
<1>4. Slot'
  BY SlotIsKept DEF Types, InSlot, Held, EveryAwaitIsHeldOnce
<1> QED BY <1>1, <1>2, <1>3, <1>4

\* A script calls back.
LEMMA CallEndsKeeps ==
  ASSUME IInv, NEW c \in calls, NEW o \in Outcomes, CallEnds(c, o), Elsewhere
  PROVE  IInv'
<1> USE DEF IInv, CallEnds, ActiveAnswered, Answer, EvaluationEnds, Resumed, loadVars,
            Elsewhere, paneVars, slotVars
<1>1. Types'
  BY SourcesAssumption DEF Types, Stages, Outcomes, Navigations
<1>2. Held'
  BY SourcesAssumption DEF Types, Held, EveryAwaitIsHeldOnce, NobodyWaitsUntimed
<1>3. Own'
  BY SourcesAssumption
     DEF Types, Own, ReadyMeansLoaded, AnswersAreOwn, CallsKnowTheirCaller,
         PresentViewExists, Navigations
<1>4. Slot'
  BY SlotIsKept DEF Types, InSlot, Held, EveryAwaitIsHeldOnce
<1> QED BY <1>1, <1>2, <1>3, <1>4

\* The session is loaded again.
LEMMA ReloadKeeps ==
  ASSUME IInv, Reload, Elsewhere
  PROVE  IInv'
<1> USE DEF IInv, Reload, ResumedByReset, ActiveFails, ActiveAnswered,
            Answer, EvaluationEnds, LoadEnds, ReplaceWebView,
            Elsewhere, paneVars, slotVars
<1>0. \/ /\ load' \in Ids /\ load' # None /\ loadTimer' = load'
         /\ navigations' \subseteq Navigations
         /\ view' = TRUE /\ ready' = FALSE /\ loaded' = FALSE
      \/ LoadEnds(FALSE) /\ ReplaceWebView(navigations)
  BY LoadIsNumbered, ReplacedIsTyped DEF Types
<1>1. Types'
  BY <1>0, ReplacedIsTyped, SourcesAssumption DEF Types, Stages, Outcomes, Navigations
<1>2. Held'
  BY <1>0, ReplacedIsTyped, SourcesAssumption DEF Types, Held, EveryAwaitIsHeldOnce, NobodyWaitsUntimed
<1>3. Own'
  BY <1>0, ReplacedIsTyped, SourcesAssumption
     DEF Types, Own, ReadyMeansLoaded, AnswersAreOwn, CallsKnowTheirCaller,
         PresentViewExists, Navigations
<1>4. Slot'
  BY SlotIsKept DEF Types, InSlot, Held, EveryAwaitIsHeldOnce
<1> QED BY <1>1, <1>2, <1>3, <1>4

------------------------------------------------------------------------------
(* The slot.  A queue without repetitions is as long as the set it holds, and *)
(* all it holds is pending, beside the render in the slot and the one that    *)
(* asks for it.                                                              *)

\* With the slot taken and s asking for it, the queue has room.
LEMMA QueueHasRoom ==
  ASSUME IInv, NEW s \in Sources, task[s] = "starting", rendering
  PROVE  Len(queue) < MaxPending - 1
<1>1. Distinct(queue) /\ queue \in Seq(Sources)
  BY DEF IInv, Types, Held, EveryAwaitIsHeldOnce, Distinct
<1>2. PICK t \in Sources : task[t] \in InSlot
  BY DEF IInv, Slot, NoRenderIsTurnedAway
<1>3. s # t /\ s \notin Members(queue) /\ t \notin Members(queue)
  BY <1>2 DEF IInv, Held, EveryAwaitIsHeldOnce, InSlot, Members
<1>4. (Members(queue) \cup {s}) \cup {t} \subseteq Pending
  BY <1>1, <1>2 DEF IInv, Held, EveryAwaitIsHeldOnce, InSlot, Members, Pending
<1>5. IsFiniteSet(Members(queue)) /\ Cardinality(Members(queue)) = Len(queue) /\ Len(queue) \in Nat
  BY <1>1, MembersAreCounted
<1>6. Cardinality((Members(queue) \cup {s}) \cup {t}) = Len(queue) + 2
  <2>1. /\ IsFiniteSet(Members(queue) \cup {s})
        /\ Cardinality(Members(queue) \cup {s}) = Len(queue) + 1
    BY <1>3, <1>5, FS_AddElement
  <2>2. t \notin Members(queue) \cup {s}
    BY <1>3
  <2>3. Cardinality((Members(queue) \cup {s}) \cup {t}) = Cardinality(Members(queue) \cup {s}) + 1
    BY <2>1, <2>2, FS_AddElement
  <2> QED BY <2>1, <2>3, <1>5
<1>7. Len(queue) + 2 <= Cardinality(Pending)
  BY <1>4, <1>6, PendingIsFinite, FS_Subset
<1> QED BY <1>5, <1>7, PendingIsFinite, LimitsAssumption
        DEF IInv, Slot, PendingIsBounded

\* A render asks for the slot.
LEMMA AcquireRenderSlotKeeps ==
  ASSUME IInv, NEW s \in Sources, AcquireRenderSlot(s)
  PROVE  IInv'
<1> USE DEF IInv, AcquireRenderSlot, Resumed, loadVars, evaluationVars, providerVars,
            paneVars
<1>1. Pending' = Pending
  BY DEF Pending, Types
<1>2. PendingIsBounded'
  BY <1>1 DEF Slot, PendingIsBounded
<1>3. CASE ~rendering
  <2>1. Types'
    BY <1>3 DEF Types, Stages
  <2>2. Held'
    BY <1>3 DEF Types, Held, EveryAwaitIsHeldOnce, NobodyWaitsUntimed
  <2>3. Own'
    BY <1>3 DEF Own, ReadyMeansLoaded, AnswersAreOwn, CallsKnowTheirCaller,
                PresentViewExists
  <2>4. Slot'
    BY <1>2, <1>3 DEF Types, Slot, NoRenderIsTurnedAway, InSlot
  <2> QED BY <2>1, <2>2, <2>3, <2>4
<1>4. CASE rendering
  <2>0. /\ queue' = Append(queue, s) /\ UNCHANGED rendering
        /\ task' = [t \in Sources |-> IF t = s THEN "queued" ELSE task[t]]
    BY <1>4, QueueHasRoom
  <2>1. Types'
    BY <2>0 DEF Types, Stages
  <2>2. Held'
    <3>1. /\ Len(queue) \in Nat /\ DOMAIN queue = 1..Len(queue)
          /\ DOMAIN queue' = 1..(Len(queue) + 1)
          /\ \A n \in 1..Len(queue) : queue'[n] = queue[n]
          /\ queue'[Len(queue) + 1] = s
      BY <2>0 DEF Types
    <3>2. \A n \in DOMAIN queue : queue[n] # s
      BY DEF Held, EveryAwaitIsHeldOnce
    <3>3. \A m, n \in DOMAIN queue' : queue'[m] = queue'[n] => m = n
      BY <3>1, <3>2 DEF Held, EveryAwaitIsHeldOnce
    <3>4. \A t \in Sources : (\E n \in DOMAIN queue' : queue'[n] = t)
                               <=> (t = s \/ \E n \in DOMAIN queue : queue[n] = t)
      BY <3>1
    <3> QED BY <2>0, <3>3, <3>4 DEF Types, Held, EveryAwaitIsHeldOnce, NobodyWaitsUntimed
  <2>3. Own'
    BY DEF Own, ReadyMeansLoaded, AnswersAreOwn, CallsKnowTheirCaller, PresentViewExists
  <2>4. Slot'
    BY <1>2, <2>0 DEF Types, Slot, NoRenderIsTurnedAway, InSlot
  <2> QED BY <2>1, <2>2, <2>3, <2>4
<1> QED BY <1>3, <1>4 DEF Types

\* A render ends and passes the slot on.
LEMMA RenderEndsKeeps ==
  ASSUME IInv, NEW s \in Sources, RenderEnds(s)
  PROVE  IInv'
<1> USE DEF IInv, RenderEnds, loadVars, evaluationVars
<1>0. /\ task[s] \in {"answered", "unloaded"}
      /\ task[s] \in InSlot /\ rendering
      /\ SlotPassesOn(s)
  BY DEF Slot, NoRenderIsTurnedAway, InSlot
<1>1. CASE queue = <<>>
  <2>0. /\ rendering' = FALSE /\ queue' = queue
        /\ task' = [t \in Sources |-> IF t = s THEN "none" ELSE task[t]]
    BY <1>0, <1>1 DEF SlotPassesOn, Resumed
  <2>1. Types'
    BY <2>0 DEF Types, Stages
  <2>2. Held'
    BY <1>0, <2>0 DEF Types, Held, EveryAwaitIsHeldOnce, NobodyWaitsUntimed
  <2>3. Own'
    BY <2>0 DEF Types, Own, ReadyMeansLoaded, AnswersAreOwn, CallsKnowTheirCaller,
                PresentViewExists
  <2>4. NoRenderIsTurnedAway'
    BY <1>0, <2>0 DEF Types, Slot, NoRenderIsTurnedAway, InSlot
  <2>5. Pending' \subseteq Pending
    BY <2>0 DEF Pending, Types
  <2> QED BY <2>1, <2>2, <2>3, <2>4, <2>5, PendingShrinks
<1>2. CASE queue # <<>>
  <2> DEFINE first == Head(queue)
  <2>0. /\ queue' = Tail(queue) /\ rendering' = rendering
        /\ task' = [t \in Sources |-> IF t = s THEN "none"
                                      ELSE IF t = first THEN "holding" ELSE task[t]]
    BY <1>0, <1>2 DEF SlotPassesOn
  <2>q. /\ Len(queue) \in Nat \ {0} /\ DOMAIN queue = 1..Len(queue)
        /\ Tail(queue) \in Seq(Sources)
        /\ first = queue[1] /\ first \in Sources
        /\ DOMAIN Tail(queue) = 1..(Len(queue) - 1)
        /\ \A n \in 1..(Len(queue) - 1) : Tail(queue)[n] = queue[n + 1]
    BY <1>2 DEF Types
  <2>f. task[first] = "queued" /\ first # s
    BY <2>q, <1>0 DEF Held, EveryAwaitIsHeldOnce
  <2>1. Types'
    BY <2>0, <2>q DEF Types, Stages
  <2>2. Held'
    <3>1. \A m, n \in DOMAIN queue' : queue'[m] = queue'[n] => m = n
      BY <2>0, <2>q DEF Held, EveryAwaitIsHeldOnce
    <3>2. \A t \in Sources : (\E n \in DOMAIN queue' : queue'[n] = t)
                               <=> (t # first /\ \E n \in DOMAIN queue : queue[n] = t)
      <4>1. ASSUME NEW t \in Sources, NEW n \in DOMAIN queue', queue'[n] = t
            PROVE  t # first /\ \E m \in DOMAIN queue : queue[m] = t
        <5>1. n \in Nat \ {0} /\ n + 1 \in DOMAIN queue /\ queue[n + 1] = t
          BY <4>1, <2>0, <2>q
        <5>2. 1 \in DOMAIN queue /\ n + 1 # 1
          BY <5>1, <2>q
        <5>3. queue[n + 1] # queue[1]
          BY <5>1, <5>2 DEF Held, EveryAwaitIsHeldOnce
        <5> QED BY <5>1, <5>3, <2>q
      <4>2. ASSUME NEW t \in Sources, t # first, NEW n \in DOMAIN queue, queue[n] = t
            PROVE  \E m \in DOMAIN queue' : queue'[m] = t
        <5>1. n # 1 /\ n - 1 \in DOMAIN queue'
          BY <4>2, <2>0, <2>q
        <5>2. queue'[n - 1] = t
          BY <5>1, <4>2, <2>0, <2>q
        <5> QED BY <5>1, <5>2
      <4> QED BY <4>1, <4>2
    <3>3. NobodyWaitsUntimed'
      BY DEF Held, NobodyWaitsUntimed
    <3> QED BY <1>0, <2>0, <2>f, <3>1, <3>2, <3>3 DEF Types, Held, EveryAwaitIsHeldOnce
  <2>3. Own'
    BY <2>0 DEF Types, Own, ReadyMeansLoaded, AnswersAreOwn, CallsKnowTheirCaller,
                PresentViewExists
  <2>4. NoRenderIsTurnedAway'
    BY <1>0, <2>0, <2>q, <2>f DEF Types, Slot, NoRenderIsTurnedAway, InSlot
  <2>5. Pending' \subseteq Pending
    BY <2>0, <2>f DEF Pending, Types
  <2> QED BY <2>1, <2>2, <2>3, <2>4, <2>5, PendingShrinks
<1> QED BY <1>1, <1>2

------------------------------------------------------------------------------
(* The pane.  What it asks for fits what is left of the pending renders: the  *)
(* sources it starts have different ranks below the number of free places.    *)

Before(s, askable) == {t \in askable : Position(t) < Position(s)}

\* Every source stands somewhere in the order, and nowhere two of them.
LEMMA PositionIsInjective ==
  /\ \A s \in Sources : Position(s) \in Nat
  /\ \A s, t \in Sources : Position(s) = Position(t) => s = t
<1>1. ASSUME NEW s \in Sources
      PROVE  Position(s) \in DOMAIN DocumentOrder /\ DocumentOrder[Position(s)] = s
  BY DocumentAssumption DEF Position
<1>2. DOMAIN DocumentOrder \subseteq Nat
  BY DocumentAssumption
<1> QED BY <1>1, <1>2

\* A source that stands before another has fewer sources before it.
LEMMA RankFollowsPosition ==
  ASSUME NEW askable \in SUBSET Sources, NEW s \in askable, NEW t \in askable,
         Position(s) < Position(t)
  PROVE  Cardinality(Before(s, askable)) < Cardinality(Before(t, askable))
<1>1. /\ IsFiniteSet(Before(s, askable)) /\ Cardinality(Before(s, askable)) \in Nat
      /\ IsFiniteSet(Before(t, askable)) /\ Cardinality(Before(t, askable)) \in Nat
  <2>1. Before(s, askable) \subseteq Sources /\ Before(t, askable) \subseteq Sources
    BY DEF Before
  <2> QED BY <2>1, SourcesAssumption, FS_Subset, FS_CardinalityType
<1>2. s \notin Before(s, askable)
  BY PositionIsInjective DEF Before
<1>3. Before(s, askable) \cup {s} \subseteq Before(t, askable)
  BY PositionIsInjective DEF Before
<1>4. Cardinality(Before(s, askable) \cup {s}) = Cardinality(Before(s, askable)) + 1
  BY <1>1, <1>2, FS_AddElement
<1>5. Cardinality(Before(s, askable) \cup {s}) <= Cardinality(Before(t, askable))
  BY <1>1, <1>3, FS_Subset
<1> QED BY <1>1, <1>4, <1>5

\* What is started beside the pending renders keeps their bound.
LEMMA FirstFits ==
  ASSUME PendingIsBounded, NEW askable \in SUBSET Sources
  PROVE  Cardinality(Pending \cup First(askable)) <= MaxPending
<1> DEFINE free == MaxPending - Cardinality(Pending)
           rank == [s \in First(askable) |-> Cardinality(Before(s, askable))]
<1>1. MaxPending \in Nat /\ IsFiniteSet(Pending) /\ Cardinality(Pending) \in Nat
  BY PendingIsFinite, LimitsAssumption
<1>2. free \in Nat
  BY <1>1 DEF PendingIsBounded
<1>3. First(askable) \subseteq Sources /\ First(askable) \subseteq askable
  BY DEF First
<1>4. IsFiniteSet(First(askable)) /\ Cardinality(First(askable)) \in Nat
  BY <1>3, SourcesAssumption, FS_Subset, FS_CardinalityType
<1>5. ASSUME NEW s \in First(askable)
      PROVE  rank[s] \in 0..(free - 1)
  <2>1. Before(s, askable) \subseteq Sources
    BY DEF Before
  <2>2. Cardinality(Before(s, askable)) \in Nat
    BY <2>1, SourcesAssumption, FS_Subset, FS_CardinalityType
  <2>3. Cardinality(Before(s, askable)) < free
    BY DEF First, Before
  <2> HIDE DEF free
  <2> QED BY <2>2, <2>3, <1>2
<1>6. ASSUME NEW s \in First(askable), NEW t \in First(askable), rank[s] = rank[t]
      PROVE  s = t
  <2>1. Position(s) \in Nat /\ Position(t) \in Nat
    BY <1>3, PositionIsInjective
  <2>2. ~(Position(s) < Position(t))
    BY <1>3, <1>5, <1>6, <1>2, RankFollowsPosition
  <2>3. ~(Position(t) < Position(s))
    BY <1>3, <1>5, <1>6, <1>2, RankFollowsPosition
  <2>4. Position(s) = Position(t)
    BY <2>1, <2>2, <2>3
  <2> QED BY <2>4, <1>3, PositionIsInjective
<1>7. rank \in Injection(First(askable), 0..(free - 1))
  BY <1>5, <1>6 DEF Injection, IsInjective
<1>8. IsFiniteSet(0..(free - 1)) /\ Cardinality(0..(free - 1)) = free
  <2> HIDE DEF free
  <2>1. 0 \in Int /\ free - 1 \in Int
    BY <1>2
  <2>2. /\ IsFiniteSet(0..(free - 1))
        /\ Cardinality(0..(free - 1)) = IF 0 > free - 1 THEN 0 ELSE free - 1 - 0 + 1
    BY <2>1, FS_Interval
  <2> QED BY <2>2, <1>2
<1>9. Cardinality(First(askable)) <= free
  BY <1>7, <1>8, FS_Injection
<1>10. Cardinality(Pending \cup First(askable))
         = Cardinality(Pending) + Cardinality(First(askable))
             - Cardinality(Pending \cap First(askable))
  BY <1>1, <1>4, FS_Union
<1>11. Cardinality(Pending \cap First(askable)) \in Nat
  BY <1>1, FS_Subset, FS_CardinalityType
<1> QED BY <1>1, <1>4, <1>9, <1>10, <1>11

\* The pane asks for what it shows.
LEMMA ApplyKeeps ==
  ASSUME IInv, Apply
  PROVE  IInv'
<1> USE DEF IInv, Apply, Resumed, loadVars, evaluationVars, slotVars
<1>1. Started \subseteq Sources \ Pending
  BY DEF Types, Started, First
<1>2. \A s \in Started : task[s] = "none"
  BY <1>1 DEF Pending
<1>3. Types'
  BY DEF Types, Stages
<1>4. Held'
  BY <1>2 DEF Types, Held, EveryAwaitIsHeldOnce, NobodyWaitsUntimed
<1>5. Own'
  BY DEF Own, ReadyMeansLoaded, AnswersAreOwn, CallsKnowTheirCaller, PresentViewExists
<1>6. NoRenderIsTurnedAway'
  BY <1>2 DEF Types, Slot, NoRenderIsTurnedAway, InSlot
<1>7. Pending' = Pending \cup Started
  BY <1>1 DEF Pending, Types
<1>8. PendingIsBounded'
  <2>1. shown \ (Cached \cup Pending \cup terminal) \in SUBSET Sources
    BY DEF Types
  <2> QED BY <2>1, <1>7, FirstFits DEF Slot, PendingIsBounded, Started
<1> QED BY <1>3, <1>4, <1>5, <1>6, <1>8 DEF Slot

\* The document shows other blocks.
LEMMA ShowKeeps ==
  ASSUME IInv, Show
  PROVE  IInv'
<1> USE DEF IInv, Show, sessionVars, loadVars, evaluationVars, slotVars
<1>1. Types'
  <2>1. Documents \in Seq(SUBSET Sources) /\ changes' + 1 \in 1..Len(Documents)
    BY DocumentAssumption DEF Types
  <2>2. Documents[changes' + 1] \subseteq Sources
    BY <2>1
  <2> QED BY <2>1, <2>2 DEF Types
<1>2. Held'
  BY DEF Held, EveryAwaitIsHeldOnce, NobodyWaitsUntimed
<1>3. Own'
  BY DEF Own, ReadyMeansLoaded, AnswersAreOwn, CallsKnowTheirCaller, PresentViewExists
<1>4. Slot'
  BY SlotIsKept
<1> QED BY <1>1, <1>2, <1>3, <1>4

\* A sleep ends.
LEMMA DelayedUpdateKeeps ==
  ASSUME IInv, NEW d \in delayed, DelayedUpdate(d)
  PROVE  IInv'
<1> USE DEF IInv, DelayedUpdate, sessionVars, loadVars, evaluationVars, slotVars
<1>1. Types'
  BY DEF Types
<1>2. Held'
  BY DEF Held, EveryAwaitIsHeldOnce, NobodyWaitsUntimed
<1>3. Own'
  BY DEF Own, ReadyMeansLoaded, AnswersAreOwn, CallsKnowTheirCaller, PresentViewExists
<1>4. Slot'
  BY SlotIsKept
<1> QED BY <1>1, <1>2, <1>3, <1>4

------------------------------------------------------------------------------
(* What pictures cost.                                                       *)

\* f[n] is the cost of the first n members.
Sums(f, s) == f[0] = 0 /\ \A n \in 1..Len(s) : f[n] = f[n - 1] + Cost[s[n]]

\* Costs are natural numbers.
LEMMA CostsAreNatural == \A s \in Sources : Cost[s] \in Nat
BY LimitsAssumption

\* The recursion of CostOf ends in the cost of the whole sequence.
LEMMA CostSteps ==
  ASSUME NEW s \in Seq(Sources)
  PROVE  \E f \in [0..Len(s) -> Nat] : Sums(f, s) /\ CostOf(s) = f[Len(s)]
<1> DEFINE N == Len(s)
           Is(g) == g = [n \in 0..N |-> IF n = 0 THEN 0 ELSE g[n - 1] + Cost[s[n]]]
           step == [n \in Nat |-> [v \in Nat |-> IF n \in 1..N THEN v + Cost[s[n]] ELSE v]]
           F == CHOOSE g : Is(g)
<1>1. N \in Nat /\ \A n \in 1..N : Cost[s[n]] \in Nat
  BY CostsAreNatural
<1>2. \E g : Is(g)
  <2>1. step \in [Nat -> [Nat -> Nat]]
    BY <1>1
  <2>2. PICK g \in [0..N -> Nat] : Recurs(g, 0, step, N)
    <3> HIDE DEF step, N
    <3> QED BY <1>1, <2>1, RecursionExists
  <2>3. ASSUME NEW n \in 0..N
        PROVE  g[n] = IF n = 0 THEN 0 ELSE g[n - 1] + Cost[s[n]]
    <3>1. CASE n = 0
      BY <2>2, <3>1 DEF Recurs
    <3>2. CASE n # 0
      <4>1. n \in Nat /\ n \in 1..N /\ g[n - 1] \in Nat
        BY <3>2
      <4>2. g[n] = step[n][g[n - 1]]
        BY <2>2, <4>1 DEF Recurs
      <4> QED BY <3>2, <4>1, <4>2
    <3> QED BY <3>1, <3>2
  <2>4. g = [n \in 0..N |-> g[n]]
    OBVIOUS
  <2>5. Is(g)
    BY <2>3, <2>4
  <2> QED BY <2>5
<1>3. Is(F)
  BY <1>2
<1>4. CostOf(s) = F[N]
  BY DEF CostOf
<1> HIDE DEF F
<1>5. Sums(F, s)
  BY <1>1, <1>3 DEF Sums
<1>6. F = [n \in 0..N |-> F[n]]
  <2> DEFINE body(n) == IF n = 0 THEN 0 ELSE F[n - 1] + Cost[s[n]]
  <2>1. F = [n \in 0..N |-> body(n)]
    BY <1>3
  <2> HIDE DEF body
  <2> QED BY <2>1
<1>7. \A n \in 0..N : F[n] \in Nat
  <2> DEFINE Good == {n \in Nat : n <= N => F[n] \in Nat}
  <2>1. 0 \in Good
    BY <1>5 DEF Sums
  <2>2. ASSUME NEW n \in Nat, n \in Good
        PROVE  n + 1 \in Good
    <3>1. SUFFICES ASSUME n + 1 <= N PROVE F[n + 1] \in Nat
      OBVIOUS
    <3>2. F[n] \in Nat /\ n + 1 \in 1..N /\ n + 1 - 1 = n
      BY <1>1, <2>2, <3>1
    <3>3. F[n + 1] = F[n] + Cost[s[n + 1]]
      BY <1>5, <3>2 DEF Sums
    <3> QED BY <1>1, <3>2, <3>3
  <2> HIDE DEF Good
  <2>3. Nat \subseteq Good
    BY <2>1, <2>2, SetInduction
  <2> QED BY <2>3 DEF Good
<1> QED BY <1>4, <1>5, <1>6, <1>7

\* Where t repeats what follows the first n members of s, their costs run together.
LEMMA SumsRunTogether ==
  ASSUME NEW s \in Seq(Sources), NEW t \in Seq(Sources),
         NEW f \in [0..Len(s) -> Nat], Sums(f, s), NEW g \in [0..Len(t) -> Nat], Sums(g, t)
  PROVE  \A n \in Nat :
           n + Len(t) <= Len(s) /\ (\A i \in 1..Len(t) : t[i] = s[n + i])
             => f[n + Len(t)] = f[n] + g[Len(t)]
<1> SUFFICES ASSUME NEW n \in Nat, n + Len(t) <= Len(s),
                    \A i \in 1..Len(t) : t[i] = s[n + i]
             PROVE  f[n + Len(t)] = f[n] + g[Len(t)]
  OBVIOUS
<1> DEFINE M == Len(t)
           Good == {m \in Nat : m <= M => f[n + m] = f[n] + g[m]}
<1>0. Len(s) \in Nat /\ M \in Nat /\ n \in 0..Len(s)
  OBVIOUS
<1>1. 0 \in Good
  <2>1. f[n] \in Nat /\ g[0] = 0
    BY <1>0 DEF Sums
  <2>2. f[n + 0] = f[n] + 0
    <3>1. n + 0 = n
      BY <1>0
    <3> QED BY <2>1, <3>1
  <2> QED BY <2>1, <2>2
<1>2. ASSUME NEW m \in Nat, m \in Good
      PROVE  m + 1 \in Good
  <2>1. SUFFICES ASSUME m + 1 <= M PROVE f[n + (m + 1)] = f[n] + g[m + 1]
    OBVIOUS
  <2>2. f[n + m] = f[n] + g[m]
    BY <1>2, <2>1
  <2>3. /\ m + 1 \in 1..Len(t) /\ m + 1 - 1 = m /\ m + 1 \in 1..M
        /\ n + (m + 1) \in 1..Len(s) /\ n + (m + 1) - 1 = n + m
    BY <1>0, <2>1
  <2>6. f[n] \in Nat /\ g[m] \in Nat
    <3>1. m \in 0..Len(t)
      BY <1>0, <2>1
    <3> QED BY <1>0, <3>1
  <2>4. g[m + 1] = g[m] + Cost[t[m + 1]] /\ f[n + (m + 1)] = f[n + m] + Cost[s[n + (m + 1)]]
    BY <2>3 DEF Sums
  <2>5. t[m + 1] = s[n + (m + 1)] /\ Cost[t[m + 1]] \in Nat
    <3>1. t[m + 1] \in Sources
      BY <2>3
    <3> QED BY <2>3, <3>1, CostsAreNatural
  <2> QED BY <2>2, <2>4, <2>5, <2>6
<1> HIDE DEF Good
<1>3. Nat \subseteq Good
  BY <1>1, <1>2, SetInduction
<1> QED BY <1>3 DEF Good

\* A sequence costs what its two parts cost.
LEMMA CostOfParts ==
  ASSUME NEW s \in Seq(Sources), NEW a \in Seq(Sources), NEW b \in Seq(Sources),
         Len(s) = Len(a) + Len(b),
         \A i \in 1..Len(a) : a[i] = s[i],
         \A i \in 1..Len(b) : b[i] = s[Len(a) + i]
  PROVE  /\ CostOf(s) = CostOf(a) + CostOf(b)
         /\ {CostOf(s), CostOf(a), CostOf(b)} \subseteq Nat
<1>0. Len(s) \in Nat /\ Len(a) \in Nat /\ Len(b) \in Nat
  OBVIOUS
<1>1. PICK f \in [0..Len(s) -> Nat] : Sums(f, s) /\ CostOf(s) = f[Len(s)]
  BY CostSteps
<1>2. PICK g \in [0..Len(a) -> Nat] : Sums(g, a) /\ CostOf(a) = g[Len(a)]
  BY CostSteps
<1>3. PICK h \in [0..Len(b) -> Nat] : Sums(h, b) /\ CostOf(b) = h[Len(b)]
  BY CostSteps
<1>4. f[0 + Len(a)] = f[0] + g[Len(a)]
  <2>1. 0 \in Nat /\ 0 + Len(a) <= Len(s) /\ \A i \in 1..Len(a) : a[i] = s[0 + i]
    BY <1>0
  <2>2. \A n \in Nat :
          n + Len(a) <= Len(s) /\ (\A i \in 1..Len(a) : a[i] = s[n + i])
            => f[n + Len(a)] = f[n] + g[Len(a)]
    BY <1>1, <1>2, SumsRunTogether
  <2> QED BY <2>1, <2>2
<1>5. f[Len(a) + Len(b)] = f[Len(a)] + h[Len(b)]
  <2>1. Len(a) + Len(b) <= Len(s)
    BY <1>0
  <2>2. \A n \in Nat :
          n + Len(b) <= Len(s) /\ (\A i \in 1..Len(b) : b[i] = s[n + i])
            => f[n + Len(b)] = f[n] + h[Len(b)]
    BY <1>1, <1>3, SumsRunTogether
  <2> QED BY <1>0, <2>1, <2>2
<1>6. f[0] = 0 /\ g[Len(a)] \in Nat /\ h[Len(b)] \in Nat
  BY <1>0, <1>1 DEF Sums
<1>7. f[Len(a)] = g[Len(a)]
  BY <1>0, <1>4, <1>6
<1>8. CostOf(s) = CostOf(a) + CostOf(b)
  BY <1>1, <1>2, <1>3, <1>5, <1>7
<1> QED BY <1>1, <1>2, <1>3, <1>6, <1>8

\* Nothing costs nothing, and one more picture costs its own cost more.
LEMMA CostOfMore ==
  /\ CostOf(<<>>) = 0
  /\ \A s \in Seq(Sources) : CostOf(s) \in Nat
  /\ \A e \in Sources : CostOf(<<e>>) = Cost[e]
  /\ \A s \in Seq(Sources), e \in Sources :
       CostOf(Append(s, e)) = CostOf(s) + Cost[e] /\ CostOf(s) \in Nat
<1>0. ASSUME NEW s \in Seq(Sources)
      PROVE  CostOf(s) \in Nat
  <2>1. PICK f \in [0..Len(s) -> Nat] : CostOf(s) = f[Len(s)]
    BY CostSteps
  <2> QED BY <2>1
<1>1. CostOf(<<>>) = 0
  <2>1. <<>> \in Seq(Sources) /\ Len(<<>>) = 0
    OBVIOUS
  <2> QED BY <2>1, CostSteps DEF Sums
<1>2. ASSUME NEW e \in Sources
      PROVE  CostOf(<<e>>) = Cost[e]
  <2>1. <<e>> \in Seq(Sources) /\ Len(<<e>>) = 1 /\ <<e>>[1] = e
    OBVIOUS
  <2>2. PICK f \in [0..1 -> Nat] : Sums(f, <<e>>) /\ CostOf(<<e>>) = f[1]
    BY <2>1, CostSteps
  <2>3. f[1] = f[1 - 1] + Cost[e] /\ f[0] = 0 /\ 1 - 1 = 0
    BY <2>1, <2>2 DEF Sums
  <2> QED BY <2>2, <2>3, CostsAreNatural
<1>3. ASSUME NEW s \in Seq(Sources), NEW e \in Sources
      PROVE  CostOf(Append(s, e)) = CostOf(s) + Cost[e] /\ CostOf(s) \in Nat
  <2> DEFINE t == Append(s, e)
             b == <<e>>
  <2>1. t \in Seq(Sources) /\ Len(t) = Len(s) + 1 /\ t[Len(s) + 1] = e
        /\ \A i \in 1..Len(s) : s[i] = t[i]
    OBVIOUS
  <2>2. b \in Seq(Sources) /\ Len(b) = 1 /\ b[1] = e
    OBVIOUS
  <2> HIDE DEF t, b
  <2>3. \A i \in 1..Len(b) : b[i] = t[Len(s) + i]
    BY <2>1, <2>2
  <2>4. Len(t) = Len(s) + Len(b)
    BY <2>1, <2>2
  <2>5. CostOf(t) = CostOf(s) + CostOf(b) /\ CostOf(s) \in Nat
    BY <2>1, <2>2, <2>3, <2>4, CostOfParts
  <2> QED BY <1>2, <2>5 DEF t, b
<1> QED BY <1>0, <1>1, <1>2, <1>3

\* What is selected and what is not cost together what all of it costs.
LEMMA CostOfSelections ==
  ASSUME NEW s \in Seq(Sources), NEW set \in SUBSET Sources
  PROVE  CostOf(s) = CostOf(Selected(s, set)) + CostOf(Selected(s, Sources \ set))
<1> DEFINE N == Len(s)
<1>0. N \in Nat /\ \A n \in 1..N : s[n] \in Sources
  OBVIOUS
<1>1. PICK f \in [0..N -> Nat] : Sums(f, s) /\ CostOf(s) = f[N]
  BY CostSteps
<1>2. PICK g \in [0..N -> Seq(Sources)] :
        SelectionUpTo(g, s, set) /\ Selected(s, set) = g[N]
  BY SelectionSteps
<1>3. PICK h \in [0..N -> Seq(Sources)] :
        SelectionUpTo(h, s, Sources \ set) /\ Selected(s, Sources \ set) = h[N]
  BY SelectionSteps
<1> DEFINE Good == {n \in Nat : n <= N => f[n] = CostOf(g[n]) + CostOf(h[n])}
<1>4. 0 \in Good
  <2>1. f[0] = 0 /\ g[0] = <<>> /\ h[0] = <<>>
    BY <1>1, <1>2, <1>3 DEF Sums, SelectionUpTo
  <2> QED BY <2>1, CostOfMore
<1>5. ASSUME NEW n \in Nat, n \in Good
      PROVE  n + 1 \in Good
  <2>1. SUFFICES ASSUME n + 1 <= N PROVE f[n + 1] = CostOf(g[n + 1]) + CostOf(h[n + 1])
    OBVIOUS
  <2>2. /\ n + 1 \in 1..N /\ n + 1 - 1 = n /\ n \in 0..N
        /\ f[n] = CostOf(g[n]) + CostOf(h[n])
    BY <1>0, <1>5, <2>1
  <2> DEFINE e == s[n + 1]
  <2>3. e \in Sources /\ g[n] \in Seq(Sources) /\ h[n] \in Seq(Sources)
    BY <1>0, <2>2
  <2>4. /\ f[n + 1] = f[n] + Cost[e]
        /\ g[n + 1] = IF e \in set THEN Append(g[n], e) ELSE g[n]
        /\ h[n + 1] = IF e \in Sources \ set THEN Append(h[n], e) ELSE h[n]
    BY <1>1, <1>2, <1>3, <2>2 DEF Sums, SelectionUpTo
  <2> HIDE DEF e
  <2>5. /\ CostOf(Append(g[n], e)) = CostOf(g[n]) + Cost[e] /\ CostOf(g[n]) \in Nat
        /\ CostOf(Append(h[n], e)) = CostOf(h[n]) + Cost[e] /\ CostOf(h[n]) \in Nat
        /\ Cost[e] \in Nat
    BY <2>3, CostOfMore, CostsAreNatural
  <2>6. CASE e \in set
    <3>1. g[n + 1] = Append(g[n], e) /\ h[n + 1] = h[n]
      BY <2>4, <2>6
    <3> QED BY <2>2, <2>4, <2>5, <3>1
  <2>7. CASE e \notin set
    <3>1. h[n + 1] = Append(h[n], e) /\ g[n + 1] = g[n]
      BY <2>3, <2>4, <2>7
    <3> QED BY <2>2, <2>4, <2>5, <3>1
  <2> QED BY <2>6, <2>7
<1> HIDE DEF Good
<1>6. Nat \subseteq Good
  BY <1>4, <1>5, SetInduction
<1>7. f[N] = CostOf(g[N]) + CostOf(h[N])
  BY <1>0, <1>6 DEF Good
<1> QED BY <1>1, <1>2, <1>3, <1>7

\* Sequences of the same pictures, each once, cost the same in whatever order.
LEMMA CostIsOfTheSet ==
  ASSUME NEW s \in Seq(Sources), Distinct(s), NEW t \in Seq(Sources), Distinct(t),
         Members(s) = Members(t)
  PROVE  CostOf(s) = CostOf(t)
<1> DEFINE Same(p, q) == Distinct(p) /\ Distinct(q) /\ Members(p) = Members(q)
                           => CostOf(p) = CostOf(q)
           Good == {n \in Nat : \A p, q \in Seq(Sources) : Len(p) = n => Same(p, q)}
<1>1. 0 \in Good
  <2>1. ASSUME NEW p \in Seq(Sources), NEW q \in Seq(Sources), Len(p) = 0,
               Members(p) = Members(q)
        PROVE  p = q
    <3>1. DOMAIN p = {}
      BY <2>1
    <3>2. \A n \in DOMAIN q : q[n] \in Members(p)
      BY <2>1 DEF Members
    <3>4. DOMAIN q = {}
      BY <3>1, <3>2 DEF Members
    <3>3. Len(q) = 0
      BY <3>4
    <3> QED BY <2>1, <3>3
  <2> QED BY <2>1
<1>2. ASSUME NEW n \in Nat, n \in Good
      PROVE  n + 1 \in Good
  <2>1. SUFFICES ASSUME NEW p \in Seq(Sources), NEW q \in Seq(Sources), Len(p) = n + 1,
                        Distinct(p), Distinct(q), Members(p) = Members(q)
                 PROVE  CostOf(p) = CostOf(q)
    OBVIOUS
  <2> DEFINE e == p[n + 1]
             a == SubSeq(p, 1, n)
             b == Selected(q, Sources \ {e})
             c == Selected(q, {e})
  <2>2. /\ e \in Sources /\ a \in Seq(Sources) /\ Len(a) = n
        /\ \A i \in 1..n : a[i] = p[i]
    BY <2>1
  <2>3. DOMAIN p = 1..(n + 1) /\ DOMAIN a = 1..n
    BY <2>1, <2>2
  <2> HIDE DEF a, e
  <2>4. Distinct(a)
    BY <2>1, <2>2, <2>3 DEF Distinct
  <2>5. Members(a) = Members(p) \ {e}
    <3>1. ASSUME NEW i \in DOMAIN a PROVE a[i] \in Members(p) /\ a[i] # e
      <4>1. i \in DOMAIN p /\ n + 1 \in DOMAIN p /\ i # n + 1 /\ a[i] = p[i]
        BY <2>2, <2>3
      <4> QED BY <2>1, <4>1 DEF Members, Distinct, e
    <3>2. ASSUME NEW i \in DOMAIN p, p[i] # e PROVE p[i] \in Members(a)
      <4>1. i \in DOMAIN a /\ a[i] = p[i]
        BY <2>2, <2>3, <3>2 DEF e
      <4> QED BY <4>1 DEF Members
    <3> QED BY <3>1, <3>2 DEF Members
  <2>6. e \in Members(q)
    <3>1. n + 1 \in DOMAIN p
      BY <2>3
    <3> QED BY <2>1, <3>1 DEF Members, e
  <2>7. b \in Seq(Sources) /\ Distinct(b) /\ Members(b) = Members(q) \cap (Sources \ {e})
    BY <2>1, SelectedMembers, SelectedDistinct
  <2>8. c \in Seq(Sources) /\ Distinct(c) /\ Members(c) = {e}
    <3>1. Members(c) = Members(q) \cap {e}
      BY SelectedMembers
    <3> QED BY <2>1, <2>6, <3>1, SelectedMembers, SelectedDistinct
  <2>9. CostOf(q) = CostOf(c) + CostOf(b)
    BY <2>2, CostOfSelections
  <2> HIDE DEF b, c
  <2>10. c = <<e>>
    <3>1. Len(c) = 1
      BY <2>8, MembersAreCounted, FS_Singleton
    <3>2. c[1] = e
      <4>1. 1 \in DOMAIN c
        BY <2>8, <3>1
      <4> QED BY <2>8, <4>1 DEF Members
    <3> QED BY <2>8, <3>1, <3>2
  <2>11. Members(q) \subseteq Sources
    BY DEF Members
  <2>12. Members(a) = Members(b)
    BY <2>1, <2>5, <2>7, <2>11
  <2>13. CostOf(a) = CostOf(b)
    BY <1>2, <2>2, <2>4, <2>7, <2>12
  <2>14. CostOf(p) = CostOf(a) + Cost[e]
    <3> DEFINE last == <<e>>
    <3>1. last \in Seq(Sources) /\ Len(last) = 1 /\ last[1] = e
      BY <2>2
    <3> HIDE DEF last
    <3>2. /\ Len(p) = Len(a) + Len(last)
          /\ \A i \in 1..Len(a) : a[i] = p[i]
          /\ \A i \in 1..Len(last) : last[i] = p[Len(a) + i]
      BY <2>1, <2>2, <3>1 DEF e
    <3>3. CostOf(p) = CostOf(a) + CostOf(last)
      BY ONLY p \in Seq(Sources), <2>2, <3>1, <3>2, CostOfParts
    <3> QED BY <2>2, <3>3, CostOfMore DEF last
  <2>15. CostOf(c) = Cost[e] /\ CostOf(a) \in Nat /\ Cost[e] \in Nat
    BY <2>2, <2>10, CostOfMore, CostsAreNatural
  <2> QED BY <2>9, <2>13, <2>14, <2>15
<1> HIDE DEF Good
<1>3. Nat \subseteq Good
  BY <1>1, <1>2, SetInduction
<1>4. Len(s) \in Nat
  OBVIOUS
<1> QED BY <1>3, <1>4 DEF Good

------------------------------------------------------------------------------
(* The invariant.                                                            *)

\* At the start nothing waits and nothing is pending.
LEMMA InitHolds == ASSUME Init PROVE IInv
<1> USE DEF Init, InitSession
<1>1. Types
  <2>1. Documents[1] \subseteq Sources /\ 0 < Len(Documents)
    BY DocumentAssumption
  <2>2. queue \in Seq(Sources)
    OBVIOUS
  <2> QED BY <2>1, <2>2 DEF Types, Stages
<1>2. Held
  BY DEF Held, EveryAwaitIsHeldOnce, NobodyWaitsUntimed
<1>3. Own
  BY DEF Own, ReadyMeansLoaded, AnswersAreOwn, CallsKnowTheirCaller, PresentViewExists
<1>4. Pending = {}
  BY DEF Pending
<1>5. PendingIsBounded
  BY <1>4, FS_EmptySet, LimitsAssumption DEF PendingIsBounded
<1>6. NoRenderIsTurnedAway
  BY DEF NoRenderIsTurnedAway, InSlot
<1> QED BY <1>1, <1>2, <1>3, <1>5, <1>6 DEF IInv, Slot

\* Every step keeps the invariant.
LEMMA NextKeeps == ASSUME IInv, [Next]_vars PROVE IInv'
<1>1. CASE Apply
  BY <1>1, ApplyKeeps
<1>2. CASE Show
  BY <1>2, ShowKeeps
<1>3. ASSUME NEW s \in Sources, RenderGoesOn(s)
      PROVE  IInv'
  <2>1. CASE AcquireRenderSlot(s)
    BY <2>1, AcquireRenderSlotKeeps
  <2>2. CASE WaitUntilReady(s) /\ Elsewhere
    BY <2>2, NotWaitingKeeps, JoinsLoadKeeps, BeginsLoadKeeps, LoadIsRefusedKeeps
       DEF WaitUntilReady
  <2>3. CASE (Evaluate(s) \/ EvaluationIsCancelled(s)) /\ Elsewhere
    BY <2>3, EvaluateKeeps, EvaluationIsCancelledKeeps
  <2>4. CASE RenderEnds(s)
    BY <2>4, RenderEndsKeeps
  <2> QED BY <1>3, <2>1, <2>2, <2>3, <2>4 DEF RenderGoesOn
<1>4. ASSUME NEW d \in delayed, DelayedUpdate(d)
      PROVE  IInv'
  BY <1>4, DelayedUpdateKeeps
<1>5. CASE Timers
  BY <1>5, LoadTimesOutKeeps, EvaluationTimesOutKeeps DEF Timers
<1>6. CASE Callbacks
  <2>1. ASSUME NEW n \in navigations, NavigationFinishes(n) \/ NavigationFails(n), Elsewhere
        PROVE  IInv'
    BY <2>1, NavigationFinishesKeeps, NavigationFailsKeeps
  <2>2. ASSUME NEW c \in calls, NEW o \in Outcomes, CallEnds(c, o), Elsewhere
        PROVE  IInv'
    BY <2>2, CallEndsKeeps
  <2> QED BY <1>6, <2>1, <2>2 DEF Callbacks, Outcomes
<1>7. CASE Resets
  BY <1>7, ProcessTerminatesKeeps, ReloadKeeps, DisposeKeeps DEF Resets
<1>8. CASE UNCHANGED vars
  <2> USE <1>8 DEF vars, sessionVars, loadVars, evaluationVars, slotVars, paneVars, IInv
  <2>1. Types'
    BY DEF Types
  <2>2. Held'
    BY DEF Held, EveryAwaitIsHeldOnce, NobodyWaitsUntimed
  <2>3. Own'
    BY DEF Own, ReadyMeansLoaded, AnswersAreOwn, CallsKnowTheirCaller, PresentViewExists
  <2>4. Slot'
    BY SlotIsKept
  <2> QED BY <2>1, <2>2, <2>3, <2>4
<1> QED BY <1>1, <1>2, <1>3, <1>4, <1>5, <1>6, <1>7, <1>8 DEF Next

------------------------------------------------------------------------------
(* The cache.  A render that is under way is of a source that is not cached,  *)
(* so that no source is cached twice and the running cost is that of a set.   *)

ProviderTypes ==
  /\ scheduled \in BOOLEAN
  /\ terminal \subseteq Sources /\ attempts \in [Sources -> Nat]
  /\ delayed \subseteq [source : Sources, attempt : Nat]

CacheInv ==
  /\ cache \in Seq(Sources) /\ Distinct(cache)
  /\ cacheCost = CostOf(cache) /\ cacheCost <= MaxCost
  /\ Len(cache) <= MaxEntries
  /\ Cached \cap Pending = {}

CInv == ProviderTypes /\ CacheInv

\* What is not asked for does not become pending.
LEMMA PendingOnlyEnds ==
  ASSUME IInv, [Next]_vars, ~Apply
  PROVE  Pending' \subseteq Pending
<1> USE DEF Pending
<1>0. /\ \A s \in waiters : s \in Sources /\ task[s] = "waiting"
      /\ active # None => active.caller \in Sources /\ task[active.caller] = "evaluating"
  BY SourcesAssumption DEF IInv, Types, Held, EveryAwaitIsHeldOnce
<1>1. ASSUME NEW s \in Sources, RenderGoesOn(s)
      PROVE  Pending' \subseteq Pending
  <2>1. CASE AcquireRenderSlot(s)
    BY <2>1 DEF AcquireRenderSlot, Resumed
  <2>2. CASE WaitUntilReady(s)
    BY <1>0, <2>2 DEF WaitUntilReady, NotWaiting, JoinsLoad, BeginsLoad, LoadIsRefused, Resumed
  <2>3. CASE Evaluate(s) \/ EvaluationIsCancelled(s)
    BY <2>3 DEF Evaluate, EvaluationIsCancelled, Resumed
  <2>4. CASE RenderEnds(s)
    <3>1. CASE task' = Resumed({s}, "none")
      BY <3>1 DEF Resumed
    <3>2. CASE queue # <<>> /\ SlotPassesOn(s)
      <4>1. 1 \in DOMAIN queue /\ Head(queue) = queue[1]
        BY <3>2 DEF IInv, Types
      <4>2. Head(queue) \in Sources => task[Head(queue)] = "queued"
        BY <4>1 DEF IInv, Held, EveryAwaitIsHeldOnce
      <4> QED BY <3>2, <4>2 DEF SlotPassesOn
    <3> QED BY <2>4, <3>1, <3>2 DEF RenderEnds, SlotPassesOn
  <2> QED BY <1>1, <2>1, <2>2, <2>3, <2>4 DEF RenderGoesOn
<1>2. CASE Timers
  BY <1>0, <1>2 DEF Timers, LoadTimesOut, EvaluationTimesOut, Reset, ResumedByReset, Resumed
<1>3. ASSUME NEW n \in navigations, NavigationFinishes(n) \/ NavigationFails(n)
      PROVE  Pending' \subseteq Pending
  BY <1>0, <1>3 DEF NavigationFinishes, NavigationFails, Reset, ResumedByReset, Resumed
<1>4. ASSUME NEW c \in calls, NEW o, CallEnds(c, o)
      PROVE  Pending' \subseteq Pending
  BY <1>0, <1>4 DEF CallEnds, Resumed
<1>5. CASE Resets
  BY <1>0, <1>5 DEF Resets, ProcessTerminates, Reload, Dispose, Reset, ResumedByReset
<1>6. CASE Show \/ (\E d \in delayed : DelayedUpdate(d)) \/ UNCHANGED vars
  BY <1>6 DEF Show, DelayedUpdate, vars, sessionVars
<1>7. CASE Callbacks
  BY <1>3, <1>4, <1>7 DEF Callbacks
<1> QED BY <1>1, <1>2, <1>5, <1>6, <1>7 DEF Next

\* The cached sources and their number.
LEMMA CachedIsCounted ==
  ASSUME CacheInv
  PROVE  /\ Cached = Members(cache) /\ Len(cache) \in Nat
         /\ IsFiniteSet(Cached) /\ Cardinality(Cached) = Len(cache)
<1>1. Cached = Members(cache)
  BY DEF Cached, Members
<1> QED BY <1>1, MembersAreCounted DEF CacheInv

\* Some entries make room enough when they go, at the latest all of them; the fewest
\* that do are the ones reclaimed.
LEMMA ReclaimedFits ==
  ASSUME CacheInv, NEW s \in Sources
  PROVE  /\ Reclaimed(s) \in 0..Len(cache)
         /\ Len(cache) - Reclaimed(s) < MaxEntries
         /\ cacheCost - CostOf(SubSeq(cache, 1, Reclaimed(s))) + Cost[s] <= MaxCost
<1> DEFINE fits(n) == /\ Len(cache) - n < MaxEntries
                      /\ cacheCost - CostOf(SubSeq(cache, 1, n)) + Cost[s] <= MaxCost
           Enough == {n \in 0..Len(cache) : fits(n)}
           Least(n) == fits(n) /\ \A m \in 0..(n - 1) : ~fits(m)
<1>1. cache \in Seq(Sources) /\ Len(cache) \in Nat /\ MaxEntries \in Nat \ {0}
      /\ Cost[s] \in Nat /\ Cost[s] <= MaxCost /\ MaxCost \in Nat
  BY LimitsAssumption DEF CacheInv
<1>2. fits(Len(cache))
  <2>1. SubSeq(cache, 1, Len(cache)) = cache
    BY <1>1
  <2>2. CostOf(cache) \in Nat
    BY <1>1, CostOfMore
  <2>3. cacheCost - CostOf(cache) + Cost[s] = Cost[s]
    BY <1>1, <2>2 DEF CacheInv
  <2>4. Len(cache) - Len(cache) < MaxEntries
    BY <1>1
  <2> QED BY <1>1, <2>1, <2>3, <2>4
<1> HIDE DEF fits
<1>3. Enough \in SUBSET Nat /\ Enough # {}
  BY <1>1, <1>2
<1>4. PICK n \in Enough : \A m \in Enough : n <= m
  <2> HIDE DEF Enough
  <2> QED BY <1>3, LeastNumber
<1>5. ASSUME NEW m \in 0..(n - 1) PROVE ~fits(m)
  <2>1. m \in 0..Len(cache) /\ ~(n <= m)
    BY <1>1, <1>4
  <2> QED BY <1>4, <2>1
<1>6. n \in 0..Len(cache) /\ Least(n)
  BY <1>4, <1>5
<1>7. Reclaimed(s) = CHOOSE i \in 0..Len(cache) : Least(i)
  BY DEF Reclaimed, fits
<1>8. Reclaimed(s) \in 0..Len(cache) /\ Least(Reclaimed(s))
  <2> HIDE DEF Least
  <2> QED BY <1>6, <1>7
<1> QED BY <1>8 DEF fits

\* A new picture is cached.
LEMMA InsertKeeps ==
  ASSUME CacheInv, NEW s \in Sources, s \in Pending, Insert(s),
         Pending' \subseteq Pending, s \notin Pending'
  PROVE  CacheInv'
<1> DEFINE n == Reclaimed(s)
           gone == SubSeq(cache, 1, n)
           rest == SubSeq(cache, n + 1, Len(cache))
<1>1. cache \in Seq(Sources) /\ Len(cache) \in Nat /\ DOMAIN cache = 1..Len(cache)
  BY DEF CacheInv
<1>2. n \in 0..Len(cache) /\ Len(cache) - n < MaxEntries
      /\ cacheCost - CostOf(gone) + Cost[s] <= MaxCost
  BY ReclaimedFits
<1> HIDE DEF n
<1>3. /\ gone \in Seq(Sources) /\ Len(gone) = n
      /\ \A i \in 1..n : gone[i] = cache[i]
  BY <1>1, <1>2
<1>4. /\ rest \in Seq(Sources) /\ Len(rest) = Len(cache) - n
      /\ \A i \in 1..(Len(cache) - n) : rest[i] = cache[n + i]
      /\ DOMAIN rest = 1..(Len(cache) - n)
  BY <1>1, <1>2, SuffixFollows
<1> HIDE DEF gone, rest
<1>5. CostOf(cache) = CostOf(gone) + CostOf(rest)
      /\ {CostOf(cache), CostOf(gone), CostOf(rest)} \subseteq Nat
  <2>1. Len(cache) = Len(gone) + Len(rest)
    BY <1>1, <1>2, <1>3, <1>4
  <2>2. \A i \in 1..Len(gone) : gone[i] = cache[i]
    BY <1>3
  <2>3. \A i \in 1..Len(rest) : rest[i] = cache[Len(gone) + i]
    BY <1>3, <1>4
  <2> QED BY <1>1, <1>3, <1>4, <2>1, <2>2, <2>3, CostOfParts
<1>6. cache' = Append(rest, s) /\ cacheCost' = cacheCost - CostOf(gone) + Cost[s]
  BY DEF Insert, n, gone, rest
<1>7. CostOf(cache') = CostOf(rest) + Cost[s] /\ Cost[s] \in Nat
  BY <1>4, <1>6, CostOfMore, CostsAreNatural
<1>8. cacheCost' = CostOf(cache') /\ cacheCost' <= MaxCost
  BY <1>2, <1>5, <1>6, <1>7 DEF CacheInv
<1>9. \A i \in DOMAIN rest : n + i \in DOMAIN cache /\ rest[i] = cache[n + i] /\ i \in Nat
  BY <1>1, <1>2, <1>4
<1>10. \A i \in DOMAIN rest : rest[i] \in Cached
  BY <1>9 DEF Cached
<1>11. Distinct(rest)
  <2>1. ASSUME NEW i \in DOMAIN rest, NEW j \in DOMAIN rest, rest[i] = rest[j]
        PROVE  i = j
    <3>1. n + i = n + j
      BY <1>9, <2>1 DEF CacheInv, Distinct
    <3> QED BY <1>2, <1>9, <3>1
  <2> QED BY <2>1 DEF Distinct
<1>12. /\ cache' \in Seq(Sources) /\ Len(cache') = Len(rest) + 1
       /\ cache'[Len(rest) + 1] = s
       /\ \A i \in DOMAIN rest : cache'[i] = rest[i]
       /\ \A i \in DOMAIN cache' : i \in DOMAIN rest \/ i = Len(rest) + 1
  <2> DEFINE c == Append(rest, s)
  <2>1. Len(rest) \in Nat /\ DOMAIN rest = 1..Len(rest)
    BY <1>4
  <2>2. /\ c \in Seq(Sources) /\ Len(c) = Len(rest) + 1 /\ c[Len(rest) + 1] = s
        /\ \A i \in 1..Len(rest) : c[i] = rest[i]
    BY <1>4, <2>1
  <2>3. DOMAIN c = 1..(Len(rest) + 1)
    BY <2>2
  <2> HIDE DEF c
  <2>4. \A i \in DOMAIN c : i \in DOMAIN rest \/ i = Len(rest) + 1
    BY <2>1, <2>3
  <2> QED BY <1>6, <2>1, <2>2, <2>4 DEF c
<1>13. \A i \in DOMAIN rest : rest[i] # s
  BY <1>10 DEF CacheInv
<1>14. Distinct(cache')
  BY <1>11, <1>12, <1>13 DEF Distinct
<1>15. Cached' \subseteq Cached \cup {s}
  BY <1>10, <1>12 DEF Cached
<1>16. Cached' \cap Pending' = {}
  BY <1>15 DEF CacheInv
<1>17. Len(cache') <= MaxEntries
  BY <1>1, <1>2, <1>4, <1>12, LimitsAssumption
<1> QED BY <1>8, <1>12, <1>14, <1>16, <1>17 DEF CacheInv, Distinct

\* The pictures in view become the most recent ones: the cache holds the same.
LEMMA ApplyKeepsCache ==
  ASSUME IInv, CacheInv, Apply
  PROVE  CacheInv'
<1> DEFINE a == Except(cache, shown)
           b == InDocumentOrder(shown \cap Cached)
           seen == Selected(cache, shown)
<1>1. cache \in Seq(Sources) /\ Distinct(cache) /\ shown \in SUBSET Sources
      /\ Cached = Members(cache)
  BY CachedIsCounted DEF IInv, Types, CacheInv
<1>2. a \in Seq(Sources) /\ Distinct(a) /\ Members(a) = Members(cache) \cap (Sources \ shown)
  BY <1>1, SelectedMembers, SelectedDistinct DEF Except
<1>3. seen \in Seq(Sources) /\ Distinct(seen) /\ Members(seen) = Members(cache) \cap shown
  BY <1>1, SelectedMembers, SelectedDistinct
<1>4. b \in Seq(Sources) /\ Distinct(b)
      /\ Members(b) = Members(DocumentOrder) \cap (shown \cap Cached)
  <2>1. DocumentOrder \in Seq(Sources) /\ Distinct(DocumentOrder)
    BY DocumentAssumption DEF Distinct
  <2> QED BY <2>1, SelectedMembers, SelectedDistinct DEF InDocumentOrder
<1>5. Members(b) = Members(cache) \cap shown
  <2>1. Sources \subseteq Members(DocumentOrder)
    BY DocumentAssumption DEF Members
  <2> QED BY <1>1, <1>4, <2>1
<1>6. CostOf(cache) = CostOf(seen) + CostOf(a)
  BY <1>1, CostOfSelections DEF Except
<1>7. cache' = a \o b /\ cacheCost' = cacheCost
  BY DEF Apply
<1> HIDE DEF a, b, seen
<1>8. CostOf(seen) = CostOf(b)
  BY <1>3, <1>4, <1>5, CostIsOfTheSet
<1> DEFINE c == a \o b
<1>9. /\ c \in Seq(Sources) /\ Len(c) = Len(a) + Len(b)
      /\ \A i \in 1..Len(a) : a[i] = c[i]
      /\ \A i \in 1..Len(b) : b[i] = c[Len(a) + i]
      /\ Len(a) \in Nat /\ Len(b) \in Nat
  BY <1>2, <1>4
<1> HIDE DEF c
<1>10. CostOf(c) = CostOf(a) + CostOf(b)
       /\ {CostOf(a), CostOf(b)} \subseteq Nat
  <2>1. a \in Seq(Sources) /\ b \in Seq(Sources)
    BY <1>2, <1>4
  <2> QED BY ONLY <1>9, <2>1, CostOfParts
<1>11. DOMAIN c = 1..(Len(a) + Len(b)) /\ DOMAIN a = 1..Len(a) /\ DOMAIN b = 1..Len(b)
  BY <1>2, <1>4, <1>9
<1>12. \A i \in DOMAIN c : \/ i \in DOMAIN a /\ c[i] = a[i]
                           \/ i - Len(a) \in DOMAIN b /\ c[i] = b[i - Len(a)]
  <2>1. ASSUME NEW i \in DOMAIN c, i \notin DOMAIN a
        PROVE  i - Len(a) \in DOMAIN b /\ c[i] = b[i - Len(a)]
    <3>1. i - Len(a) \in DOMAIN b /\ Len(a) + (i - Len(a)) = i
      BY <1>9, <1>11, <2>1
    <3> QED BY <1>9, <1>11, <3>1
  <2> QED BY <1>9, <1>11, <2>1
<1>13. Members(c) = Members(cache)
  <2>1. \A x \in Members(cache) : x \in Members(a) \/ x \in Members(b)
    <3>1. Members(cache) \subseteq Sources
      BY <1>1 DEF Members
    <3> QED BY <1>2, <1>5, <3>1
  <2>2. Members(a) \subseteq Members(c)
    <3>1. \A i \in DOMAIN a : i \in DOMAIN c /\ a[i] = c[i]
      BY <1>9, <1>11
    <3> QED BY <3>1 DEF Members
  <2>3. Members(b) \subseteq Members(c)
    <3>1. \A i \in DOMAIN b : Len(a) + i \in DOMAIN c /\ b[i] = c[Len(a) + i]
      BY <1>9, <1>11
    <3> QED BY <3>1 DEF Members
  <2>4. Members(c) \subseteq Members(a) \cup Members(b)
    BY <1>12 DEF Members
  <2> QED BY <1>2, <1>5, <2>1, <2>2, <2>3, <2>4
<1>14. Distinct(c)
  <2>1. \A i \in DOMAIN a : a[i] \notin shown
    BY <1>2 DEF Members
  <2>2. \A i \in DOMAIN b : b[i] \in shown
    BY <1>5 DEF Members
  <2>3. ASSUME NEW i \in DOMAIN c, NEW j \in DOMAIN c, c[i] = c[j]
        PROVE  i = j
    <3>1. CASE i \in DOMAIN a /\ c[i] = a[i] /\ j \in DOMAIN a /\ c[j] = a[j]
      BY <1>2, <2>3, <3>1 DEF Distinct
    <3>2. CASE /\ i - Len(a) \in DOMAIN b /\ c[i] = b[i - Len(a)]
               /\ j - Len(a) \in DOMAIN b /\ c[j] = b[j - Len(a)]
      <4>1. i - Len(a) = j - Len(a)
        BY <1>4, <2>3, <3>2 DEF Distinct
      <4> QED BY <1>9, <1>11, <4>1
    <3> QED BY <1>12, <2>1, <2>2, <2>3, <3>1, <3>2
  <2> QED BY <2>3 DEF Distinct
<1>15. cache' = c
  BY <1>7 DEF c
<1>16. Cached' = Cached
  <2>1. Cached' = Members(c)
    BY <1>15 DEF Cached, Members
  <2> QED BY <1>1, <1>13, <2>1
<1>17. Len(c) = Len(cache)
  BY <1>1, <1>9, <1>13, <1>14, MembersAreCounted
<1>18. cacheCost' = CostOf(c)
  BY <1>6, <1>7, <1>8, <1>10 DEF CacheInv
<1>19. Cached' \cap Pending' = {}
  <2>1. Pending' \subseteq Pending \cup Started
    BY DEF Apply, Resumed, Pending
  <2>2. Started \cap Cached = {}
    BY DEF Started, First
  <2> QED BY <1>16, <2>1, <2>2 DEF CacheInv
<1> QED BY <1>7, <1>9, <1>14, <1>15, <1>17, <1>18, <1>19 DEF CacheInv, Distinct

\* Where the cache stays and nothing new is pending.
LEMMA CacheStays ==
  ASSUME CacheInv, UNCHANGED <<cache, cacheCost>>, Pending' \subseteq Pending
  PROVE  CacheInv'
BY DEF CacheInv, Cached, Distinct, CostOf

\* A render ends and its source is completed.
LEMMA RenderEndsKeepsCache ==
  ASSUME IInv, CInv, NEW s \in Sources, RenderEnds(s), Pending' \subseteq Pending
  PROVE  CInv'
<1>1. s \in Pending /\ s \notin Pending'
  BY DEF RenderEnds, SlotPassesOn, Resumed, Pending
<1>2. PICK outcome : Complete(s, outcome)
  BY DEF RenderEnds
<1> USE DEF CInv
<1>3. CASE Rendered(s)
  BY <1>1, <1>3, InsertKeeps DEF Rendered, ProviderTypes
<1>4. CASE Unsupported(s)
  BY <1>4, CacheStays DEF Unsupported, MarkTerminal, ProviderTypes
<1>5. CASE TransientFailure(s)
  <2>1. ProviderTypes'
    <3>1. attempts[s] + 1 \in Nat
      BY DEF ProviderTypes
    <3>2. attempts' \in [Sources -> Nat]
      BY <1>5, <3>1 DEF TransientFailure, ProviderTypes
    <3>3. delayed' \subseteq [source : Sources, attempt : Nat]
      BY <1>5, <3>1 DEF TransientFailure, ProviderTypes
    <3>4. terminal' \subseteq Sources /\ scheduled' \in BOOLEAN
      BY <1>5 DEF TransientFailure, MarkTerminal, ProviderTypes
    <3> QED BY <3>2, <3>3, <3>4 DEF ProviderTypes
  <2> QED BY <1>5, <2>1, CacheStays DEF TransientFailure
<1> QED BY <1>2, <1>3, <1>4, <1>5 DEF Complete

\* At the start nothing is cached.
LEMMA CacheInit == ASSUME Init PROVE CInv
<1>1. cache = <<>> /\ cacheCost = 0 /\ Pending = {}
  BY DEF Init, InitSession, Pending
<1>2. cache \in Seq(Sources) /\ Distinct(cache) /\ Len(cache) = 0 /\ cacheCost = CostOf(cache)
  BY <1>1, CostOfMore DEF Distinct
<1>3. CacheInv
  BY <1>1, <1>2, LimitsAssumption DEF CacheInv
<1>4. ProviderTypes
  BY LimitsAssumption DEF Init, ProviderTypes
<1> QED BY <1>3, <1>4 DEF CInv

\* Every step keeps the invariant of the cache.
LEMMA CacheNext == ASSUME IInv, CInv, [Next]_vars PROVE CInv'
<1> DEFINE Quiet == /\ UNCHANGED <<cache, cacheCost, terminal, attempts>>
                    /\ delayed' \subseteq delayed /\ scheduled' \in BOOLEAN
<1>1. CASE Apply
  <2>1. ProviderTypes'
    BY <1>1 DEF Apply, CInv, ProviderTypes
  <2> QED BY <1>1, <2>1, ApplyKeepsCache DEF CInv
<1>2. ASSUME ~Apply, NEW s \in Sources, RenderEnds(s)
      PROVE  CInv'
  BY <1>2, PendingOnlyEnds, RenderEndsKeepsCache
<1>3. CASE ~Apply /\ Quiet
  <2>1. ProviderTypes'
    BY <1>3 DEF CInv, ProviderTypes
  <2> QED BY <1>3, <2>1, PendingOnlyEnds, CacheStays DEF CInv
<1>4. CASE Show \/ (\E d \in delayed : DelayedUpdate(d)) \/ Elsewhere \/ UNCHANGED vars
           \/ \E s \in Sources : AcquireRenderSlot(s)
  <2>1. Quiet
    BY <1>4 DEF Show, DelayedUpdate, Elsewhere, AcquireRenderSlot, vars, providerVars,
                paneVars, CInv, ProviderTypes
  <2> QED BY <1>1, <1>3, <2>1
<1>5. Next => \/ Apply \/ Show \/ (\E d \in delayed : DelayedUpdate(d)) \/ Elsewhere
              \/ \E s \in Sources : AcquireRenderSlot(s) \/ RenderEnds(s)
  BY DEF Next, RenderGoesOn, Timers, Callbacks, Resets
<1> QED BY <1>1, <1>2, <1>4, <1>5

------------------------------------------------------------------------------
(* The theorems.                                                             *)

\* The invariant holds of every reachable state.
LEMMA Inductive == Spec => [](IInv /\ CInv)
<1>1. Init => IInv /\ CInv
  BY InitHolds, CacheInit
<1>2. IInv /\ CInv /\ [Next]_vars => (IInv /\ CInv)'
  BY NextKeeps, CacheNext
<1> QED BY <1>1, <1>2, PTL DEF Spec

------------------------------------------------------------------------------
(* What is proved of the renderer.                                           *)

\* Whatever fails, is replaced, reloaded or disposed of, a suspended render is
\* held in exactly one place that resumes it, for every number of sources.
THEOREM AwaitsAreHeld == Spec => []EveryAwaitIsHeldOnce
<1>1. IInv => EveryAwaitIsHeldOnce
  BY DEF IInv, Held
<1> QED BY <1>1, Inductive, PTL

\* Nothing waits for WebKit without a timeout that ends the wait.
THEOREM WaitsAreTimed == Spec => []NobodyWaitsUntimed
<1>1. IInv => NobodyWaitsUntimed
  BY DEF IInv, Held
<1> QED BY <1>1, Inductive, PTL

\* The session is ready only with the loaded page of the present view, whatever
\* navigations of earlier views still end.
THEOREM ReadyIsLoaded == Spec => []ReadyMeansLoaded
<1>1. IInv => ReadyMeansLoaded
  BY DEF IInv, Own
<1> QED BY <1>1, Inductive, PTL

\* However many completion handlers of earlier evaluations are still to come, a
\* render is answered by its own script.
THEOREM AnswersBelong == Spec => []AnswersAreOwn
<1>1. IInv => AnswersAreOwn
  BY DEF IInv, Own
<1> QED BY <1>1, Inductive, PTL

\* For every limit of pending renders the queue of the slot has room for all of
\* them, one render at a time uses the session, and none is turned away.
THEOREM NobodyIsTurnedAway == Spec => []NoRenderIsTurnedAway
<1>1. IInv => NoRenderIsTurnedAway
  BY DEF IInv, Slot
<1> QED BY <1>1, Inductive, PTL

\* Every variable keeps its type, for every number of sources and whatever fails.
THEOREM TypesHold == Spec => []TypeOK
<1>1. IInv /\ CInv => TypeOK
  <2> SUFFICES ASSUME IInv, CInv PROVE TypeOK
    OBVIOUS
  <2>1. Ids \subseteq Nat
    BY BoundsAssumption
  <2>2. cacheCost \in Nat
    BY CostOfMore DEF CInv, CacheInv
  <2> QED BY <2>1, <2>2 DEF IInv, Types, Navigations, CInv, ProviderTypes, CacheInv, TypeOK
<1> QED BY <1>1, Inductive, PTL

\* However often pictures come and go and are seen again, the running cost is that of
\* the cached pictures and stays within the limit, as their number does
\* (complete, reclaimLeastRecentlyUsedEntriesIfNeeded).
THEOREM CacheStaysBounded == Spec => []CacheIsBounded
<1>1. CInv => CacheIsBounded
  BY CachedIsCounted DEF CInv, CacheInv, CacheIsBounded
<1> QED BY <1>1, Inductive, PTL
=============================================================================
