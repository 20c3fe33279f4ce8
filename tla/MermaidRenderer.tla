---------------------------- MODULE MermaidRenderer ----------------------------
(* The provider of diagrams (MermaidRenderer), the renders that share one    *)
(* session through a slot (MermaidWebRenderer), and the pane that asks for   *)
(* the diagrams it shows (EditorPaneStateCoordinator, MermaidBlockPresenter).*)
EXTENDS RenderSession, Selection, FiniteSets

CONSTANTS
  DocumentOrder,     \* the sources in the order their blocks stand in
  Documents,         \* the sets of sources the document shows, one after another
  Cost,              \* what the picture of each source costs in the cache
  MaxPending,        \* maximumPendingEntries, also maximumQueuedRenders
  MaxEntries,        \* maximumCacheEntries
  MaxCost,           \* maximumCacheCost
  MaxTerminal,       \* maximumTrackedFailures
  MaxAttempts,       \* maximumTransientAttempts
  FailedBefore,      \* the sources with one attempt left, the delays being over
  MaxResets          \* bound: how often the web content process ends, or the
                     \* owner reloads or disposes

ASSUME DocumentAssumption ==
  /\ DocumentOrder \in Seq(Sources)
  /\ \A s \in Sources : \E n \in DOMAIN DocumentOrder : DocumentOrder[n] = s
  /\ \A m, n \in DOMAIN DocumentOrder : DocumentOrder[m] = DocumentOrder[n] => m = n
  /\ Documents \in Seq(SUBSET Sources) /\ Documents # <<>>

\* decode refuses a picture that does not fit the empty cache.
ASSUME LimitsAssumption ==
  /\ {MaxPending, MaxEntries, MaxAttempts} \subseteq Nat \ {0}
  /\ {MaxCost, MaxTerminal, MaxResets} \subseteq Nat
  /\ Cost \in [Sources -> 0..MaxCost]

VARIABLES
  rendering,    \* isRendering
  queue,        \* renderWaiters
  cache,        \* cached sources, the least recently seen first
  cacheCost,
  terminal,     \* terminalKeys
  attempts,     \* transientAttempts
  delayed,      \* updates that sleep until a source may be tried again
  scheduled,    \* the pane will apply its presentation again
  shown,        \* sources of the blocks the pane presents
  changes, resets

slotVars == <<rendering, queue>>
providerVars == <<cache, cacheCost, terminal, attempts, delayed>>
paneVars == <<scheduled, shown, changes>>
vars == <<sessionVars, slotVars, providerVars, paneVars, resets>>

Init ==
  /\ InitSession
  /\ rendering = FALSE /\ queue = <<>>
  /\ cache = <<>> /\ cacheCost = 0 /\ terminal = {}
  /\ attempts = [s \in Sources |-> IF s \in FailedBefore THEN MaxAttempts - 1 ELSE 0]
  /\ delayed = {}
  /\ scheduled = TRUE /\ shown = Documents[1] /\ changes = 0
  /\ resets = 0

\* pendingKeys: a source is pending as long as its render is under way.
Pending == {s \in Sources : task[s] # "none"}

Cached == {cache[n] : n \in DOMAIN cache}
Position(s) == CHOOSE n \in DOMAIN DocumentOrder : DocumentOrder[n] = s
InDocumentOrder(set) == Selected(DocumentOrder, set)
Except(seq, set) == Selected(seq, Sources \ set)

------------------------------------------------------------------------------
(* The pane.                                                                *)

\* Those of askable that are asked for before no slot for a render is left.
First(askable) ==
  {s \in askable : Cardinality({t \in askable : Position(t) < Position(s)})
                     < MaxPending - Cardinality(Pending)}

\* Mutant: a terminal source is asked for again.
TriesTerminalAgain == First(shown \ (Cached \cup Pending))

\* What diagram(for:) starts when the pane asks for everything it shows.
Started == First(shown \ (Cached \cup Pending \cup terminal))

Apply ==
  /\ scheduled
  /\ scheduled' = FALSE
  /\ task' = Resumed(Started, "starting")
  /\ cache' = Except(cache, shown) \o InDocumentOrder(shown \cap Cached)
  /\ UNCHANGED <<hasEntry, disposed, view, loadVars, evaluationVars, answer, slotVars,
                 cacheCost, terminal, attempts, delayed, shown, changes, resets>>

\* An edit, a scroll or a moved selection shows other blocks.
Show ==
  /\ changes + 1 < Len(Documents)
  /\ changes' = changes + 1
  /\ shown' = Documents[changes' + 1] /\ scheduled' = TRUE
  /\ UNCHANGED <<sessionVars, slotVars, providerVars, resets>>

------------------------------------------------------------------------------
(* The slot.                                                                *)

AcquireRenderSlot(s) ==
  /\ task[s] = "starting"
  /\ IF ~rendering
     THEN rendering' = TRUE /\ task' = Resumed({s}, "holding") /\ UNCHANGED queue
     ELSE IF Len(queue) < MaxPending - 1
     THEN queue' = Append(queue, s) /\ task' = Resumed({s}, "queued")
          /\ UNCHANGED rendering
     ELSE task' = Resumed({s}, "refused") /\ UNCHANGED slotVars
  /\ UNCHANGED <<hasEntry, disposed, view, loadVars, evaluationVars, answer,
                 providerVars, paneVars, resets>>

\* Mutant: the slot is passed on and also marked free.
SlotIsFreedToo(s) ==
  /\ rendering' = FALSE
  /\ queue' = (IF queue = <<>> THEN queue ELSE Tail(queue))
  /\ task' = [t \in Sources |-> IF t = s THEN "none"
                  ELSE IF queue # <<>> /\ t = Head(queue) THEN "holding" ELSE task[t]]

\* releaseRenderSlot by the render of s, which ends: the slot passes to the
\* first that waits for it.
SlotPassesOn(s) ==
  IF queue = <<>>
  THEN rendering' = FALSE /\ queue' = queue /\ task' = Resumed({s}, "none")
  ELSE /\ queue' = Tail(queue) /\ rendering' = rendering
       /\ task' = [t \in Sources |-> IF t = s THEN "none"
                                     ELSE IF t = Head(queue) THEN "holding" ELSE task[t]]

------------------------------------------------------------------------------
(* complete(_:for:).                                                        *)

CostOf(seq) ==
  LET upTo[n \in 0..Len(seq)] == IF n = 0 THEN 0 ELSE upTo[n - 1] + Cost[seq[n]]
  IN upTo[Len(seq)]

\* reclaimLeastRecentlyUsedEntriesIfNeeded: how many have to go for s.
Reclaimed(s) ==
  LET fits(n) == /\ Len(cache) - n < MaxEntries
                 /\ cacheCost - CostOf(SubSeq(cache, 1, n)) + Cost[s] <= MaxCost
  IN CHOOSE n \in 0..Len(cache) : fits(n) /\ \A m \in 0..(n - 1) : ~fits(m)

\* Mutant: the cost of the pictures that went is not subtracted.
InsertKeepsCost(s) ==
  /\ cache' = Append(SubSeq(cache, Reclaimed(s) + 1, Len(cache)), s)
  /\ cacheCost' = cacheCost + Cost[s]

\* Mutant: the cost of the new picture is not added.
InsertWithoutCost(s) ==
  LET n == Reclaimed(s) IN
  /\ cache' = Append(SubSeq(cache, n + 1, Len(cache)), s)
  /\ cacheCost' = cacheCost - CostOf(SubSeq(cache, 1, n))

Insert(s) ==
  LET n == Reclaimed(s) IN
  /\ cache' = Append(SubSeq(cache, n + 1, Len(cache)), s)
  /\ cacheCost' = cacheCost - CostOf(SubSeq(cache, 1, n)) + Cost[s]

\* markTerminal, and the update it is published with.
MarkTerminal(s) ==
  LET marked == s \in terminal \/ Cardinality(terminal) < MaxTerminal IN
  /\ terminal' = (IF marked THEN terminal \cup {s} ELSE terminal)
  /\ scheduled' = (scheduled \/ marked)

\* Mutant: a picture that is cached is not published.
RenderedSilently(s) ==
  /\ attempts' = [attempts EXCEPT ![s] = 0]
  /\ Insert(s)
  /\ UNCHANGED <<terminal, delayed, scheduled>>

Rendered(s) ==
  /\ attempts' = [attempts EXCEPT ![s] = 0]
  /\ Insert(s)
  /\ scheduled' = TRUE
  /\ UNCHANGED <<terminal, delayed>>

Unsupported(s) ==
  /\ attempts' = [attempts EXCEPT ![s] = 0]
  /\ MarkTerminal(s)
  /\ UNCHANGED <<cache, cacheCost, delayed>>

TransientFailure(s) ==
  /\ attempts' = [attempts EXCEPT ![s] = @ + 1]
  /\ IF attempts[s] + 1 < MaxAttempts
     THEN /\ delayed' = delayed \cup {[source |-> s, attempt |-> attempts[s] + 1]}
          /\ UNCHANGED <<terminal, scheduled>>
     ELSE MarkTerminal(s) /\ UNCHANGED delayed
  /\ UNCHANGED <<cache, cacheCost>>

Complete(s, outcome) ==
  \/ outcome = "rendered" /\ Rendered(s)
  \/ outcome = "unsupported" /\ Unsupported(s)
  \/ outcome = "transientFailure" /\ TransientFailure(s)

\* The render of s ends: it gives the slot back, if it had it, and its source
\* is completed.
RenderEnds(s) ==
  /\ task[s] \in {"answered", "unloaded", "refused"}
  /\ IF task[s] = "refused" THEN task' = Resumed({s}, "none") /\ UNCHANGED slotVars
     ELSE SlotPassesOn(s)
  /\ Complete(s, IF task[s] = "answered" THEN answer[s].outcome ELSE "transientFailure")
  /\ answer' = [answer EXCEPT ![s] = None]
  /\ UNCHANGED <<hasEntry, disposed, view, loadVars, evaluationVars, shown, changes,
                 resets>>

\* The sleep before another attempt is over; a later attempt replaced it if the
\* count has moved on.
DelayedUpdate(d) ==
  /\ d \in delayed
  /\ delayed' = delayed \ {d}
  /\ scheduled' = (scheduled \/ (attempts[d.source] = d.attempt
                                 /\ d.source \notin terminal))
  /\ UNCHANGED <<sessionVars, slotVars, cache, cacheCost, terminal, attempts, shown,
                 changes, resets>>

------------------------------------------------------------------------------
Elsewhere == UNCHANGED <<slotVars, providerVars, paneVars>>

\* The main actor goes on with a render.
RenderGoesOn(s) ==
  \/ AcquireRenderSlot(s)
  \/ (WaitUntilReady(s) \/ Evaluate(s) \/ EvaluationIsCancelled(s))
       /\ Elsewhere /\ UNCHANGED resets
  \/ RenderEnds(s)

Timers == (LoadTimesOut \/ EvaluationTimesOut) /\ Elsewhere /\ UNCHANGED resets

\* Outcomes as decode reads them from what the page answers.
Callbacks ==
  /\ \/ \E n \in navigations : NavigationFinishes(n) \/ NavigationFails(n)
     \/ \E c \in calls, o \in {"rendered", "unsupported", "transientFailure"} :
          CallEnds(c, o)
  /\ Elsewhere /\ UNCHANGED resets

\* The web content process ends, or the owner of the renderer resets the session.
Resets ==
  /\ resets < MaxResets
  /\ resets' = resets + 1
  /\ ProcessTerminates \/ Reload \/ Dispose
  /\ Elsewhere

Next ==
  \/ Apply
  \/ Show
  \/ \E s \in Sources : RenderGoesOn(s)
  \/ \E d \in delayed : DelayedUpdate(d)
  \/ Timers \/ Callbacks \/ Resets

Spec == Init /\ [][Next]_vars

\* The main actor runs what is ready and the sleeps end.  WebKit owes nothing.
Fairness ==
  /\ WF_vars(Apply)
  /\ \A s \in Sources : WF_vars(RenderGoesOn(s))
  /\ WF_vars(\E d \in delayed : DelayedUpdate(d))
  /\ WF_vars(Timers)

FairSpec == Spec /\ Fairness

------------------------------------------------------------------------------
(* Properties.                                                              *)

Stages == {"none", "starting", "queued", "refused", "holding", "waiting", "loaded",
           "unloaded", "evaluating", "answered"}
Outcomes == {"rendered", "unsupported", "transientFailure"}

\* Types.
TypeOK ==
  /\ {hasEntry, disposed, view, ready, loaded, rendering, scheduled} \subseteq BOOLEAN
  /\ {load, loadTimer, evaluationTimer} \subseteq Nat \cup {None}
  /\ waiters \subseteq Sources
  /\ active \in [id : Nat, caller : Sources] \cup {None}
  /\ navigations \subseteq [attempt : Nat, present : BOOLEAN]
  /\ calls \subseteq [id : Nat, caller : Sources]
  /\ task \in [Sources -> Stages]
  /\ answer \in [Sources -> [source : Sources, outcome : Outcomes] \cup {None}]
  /\ queue \in Seq(Sources)
  /\ cache \in Seq(Sources) /\ cacheCost \in Nat
  /\ terminal \subseteq Sources /\ attempts \in [Sources -> Nat]
  /\ delayed \subseteq [source : Sources, attempt : Nat]

\* A suspended render is held in exactly one place that will resume it: the
\* queue of the slot, the waiters of the load or the active evaluation.
EveryAwaitIsHeldOnce ==
  /\ \A s \in Sources :
       /\ task[s] = "queued" <=> \E n \in DOMAIN queue : queue[n] = s
       /\ task[s] = "waiting" <=> s \in waiters
       /\ task[s] = "evaluating" <=> active # None /\ active.caller = s
  /\ \A m, n \in DOMAIN queue : queue[m] = queue[n] => m = n

\* Nothing waits on WebKit alone: a timeout is armed for the load or the
\* evaluation that is waited for, and for nothing else.
NobodyWaitsUntimed ==
  /\ waiters # {} => load # None
  /\ load = loadTimer
  /\ active = None <=> evaluationTimer = None
  /\ active # None => active.id = evaluationTimer

\* The session is ready only while the page of the present view is loaded: the
\* end of a load that was given up does not count for the view after it.
ReadyMeansLoaded == ready => view /\ loaded

\* A completion handler of an earlier evaluation, of this view or one that was
\* replaced, never answers a later one: a picture belongs to its source.
AnswersAreOwn == \A s \in Sources : answer[s] # None => answer[s].source = s

InSlot == {"holding", "waiting", "loaded", "unloaded", "evaluating", "answered"}

\* One render at a time uses the session, and none is turned away: the queue has
\* room for every pending source and no evaluation meets another.
NoRenderIsTurnedAway ==
  /\ \A s, t \in Sources : task[s] \in InSlot /\ task[t] \in InSlot => s = t
  /\ rendering <=> \E s \in Sources : task[s] \in InSlot
  /\ \A s \in Sources : task[s] # "refused"

\* The running cost is that of the cached pictures, within both limits.
CacheIsBounded ==
  /\ cacheCost = CostOf(cache) /\ cacheCost <= MaxCost
  /\ Len(cache) <= MaxEntries
  /\ Cardinality(Cached) = Len(cache)

Decided(s) == s \in Cached \cup terminal

\* A diagram that stays in view is drawn or given up, also when it was refused
\* while others were pending, unless no more failures can be recorded.
ShownIsDecided ==
  \A s \in Sources :
    s \in shown ~> Decided(s) \/ s \notin shown \/ Cardinality(terminal) >= MaxTerminal

\* When the document rests and its diagrams fit the cache, rendering rests too:
\* cached pictures do not displace each other for ever, and nothing is tried for
\* ever unless no more failures can be recorded.
RenderingSettles ==
  \/ <>[](Pending = {} /\ ~scheduled)
  \/ <>(Cardinality(terminal) >= MaxTerminal)
=============================================================================
