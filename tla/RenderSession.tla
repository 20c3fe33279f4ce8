----------------------------- MODULE RenderSession -----------------------------
(* LocalWebRenderSession: one web view, the load of its page, one JavaScript *)
(* evaluation, their timeouts, and the callbacks of WebKit, which may come    *)
(* late, from a view already replaced, or never.                              *)
EXTENDS Naturals, FiniteSets

CONSTANTS
  Sources,    \* sources of diagrams; each has at most one render under way
  None,
  Ids,        \* numbers of load attempts and evaluations
  MaxLate     \* bound: callbacks of earlier loads or evaluations still to come

ASSUME BoundsAssumption == Ids \subseteq Nat /\ MaxLate \in Nat
ASSUME SourcesAssumption ==
  /\ IsFiniteSet(Sources)
  /\ None \notin Ids \cup Sources \cup [id : Ids, caller : Sources]

VARIABLES
  hasEntry,         \* resourcePolicy # nil: the page is in the bundle
  disposed,         \* isDisposed
  view,             \* webViewStorage # nil
  ready,            \* isReady
  load,             \* activeLoadAttempt, which also names its navigation
  loadTimer,        \* loadTimeoutTask, by the attempt it was scheduled for
  waiters,          \* loadWaiters
  active,           \* activeJavaScriptEvaluation
  evaluationTimer,  \* javaScriptTimeoutTask, by the evaluation
  navigations,      \* WebKit: navigations that have not called back
  loaded,           \* WebKit: the page of the present view is loaded
  calls,            \* WebKit: scripts that have not called back
  task,             \* where the render of each source is suspended
  answer            \* what its evaluation was answered, and for which source

loadVars == <<ready, load, loadTimer, waiters, navigations, loaded>>
evaluationVars == <<active, evaluationTimer, calls>>
sessionVars == <<hasEntry, disposed, view, loadVars, evaluationVars, task, answer>>

InitSession ==
  /\ hasEntry \in BOOLEAN /\ disposed = FALSE /\ view = FALSE
  /\ ready = FALSE /\ load = None /\ loadTimer = None
  /\ waiters = {} /\ navigations = {} /\ loaded = FALSE
  /\ active = None /\ evaluationTimer = None /\ calls = {}
  /\ task = [s \in Sources |-> "none"]
  /\ answer = [s \in Sources |-> None]

\* The counters are 64 bits wide and no callback outlives them: a new number is
\* any that nothing in use carries, here the least.
Fresh(used) == {n \in Ids \ used : \A m \in Ids \ used : n <= m}

\* A navigation knows its load attempt and whether its view is the present one.
OfReplacedView(set) == {[n EXCEPT !.present = FALSE] : n \in set}

\* The callbacks of set that may still come once there is another load or
\* evaluation, when those of others may come too.
Late(set, others) ==
  LET room == IF Cardinality(others) < MaxLate THEN MaxLate - Cardinality(others) ELSE 0 IN
  IF Cardinality(set) <= room THEN {set}
  ELSE {late \in SUBSET set : Cardinality(late) = room}

Answer(source, outcome) == [source |-> source, outcome |-> outcome]

\* The continuations of set are resumed: their renders go on at stage.
Resumed(set, stage) == [s \in Sources |-> IF s \in set THEN stage ELSE task[s]]

------------------------------------------------------------------------------
(* The pieces the operations are made of.                                   *)

\* Mutant: the continuations that were resumed are kept.
LoadEndsOnly(succeeded) ==
  load' = None /\ loadTimer' = None /\ ready' = succeeded /\ UNCHANGED waiters

\* finishLoading(succeeded:), but for the waiters it resumes.
LoadEnds(succeeded) ==
  /\ load' = None /\ loadTimer' = None
  /\ ready' = succeeded
  /\ waiters' = {}

Loaded(succeeded) == IF succeeded THEN "loaded" ELSE "unloaded"

\* Mutant: the timer of the evaluation is not cancelled.
EvaluationEndsUntimed == active' = None /\ UNCHANGED evaluationTimer

\* finishJavaScriptEvaluation(id:outcome:) for the active evaluation.
EvaluationEnds == active' = None /\ evaluationTimer' = None

\* Renders resumed when the load fails and the active evaluation is answered.
ResumedByReset ==
  [s \in Sources |-> IF active # None /\ active.caller = s THEN "answered"
                     ELSE IF s \in waiters THEN "unloaded" ELSE task[s]]

ActiveAnswered(source, outcome) ==
  IF active = None THEN answer
  ELSE [answer EXCEPT ![active.caller] = Answer(source, outcome)]

ActiveFails ==
  IF active = None THEN answer ELSE ActiveAnswered(active.caller, "transientFailure")

\* replaceWebView, after which the callbacks in pending may still come.
ReplaceWebView(pending) ==
  view' = TRUE /\ loaded' = FALSE /\ navigations' = OfReplacedView(pending)

\* finishLoading(succeeded: false), then replaceWebView.
Reset(pending) ==
  /\ LoadEnds(FALSE)
  /\ EvaluationEnds
  /\ task' = ResumedByReset /\ answer' = ActiveFails
  /\ ReplaceWebView(pending)

\* The part of beginLoadAttemptIfNeeded that starts a navigation, in the present
\* view or a new one, while those in pending may still call back.
NavigationBegins(pending) ==
  /\ hasEntry
  /\ view' = TRUE /\ loaded' = FALSE
  /\ load' \in Fresh({n.attempt : n \in pending})
  /\ loadTimer' = load'
  /\ ready' = FALSE
  /\ \E late \in Late(pending, calls) :
       navigations' = late \cup {[attempt |-> load', present |-> TRUE]}

\* The part that fails: no page in the bundle, or no navigation for it.
NavigationIsRefused ==
  /\ LoadEnds(FALSE)
  /\ IF hasEntry THEN ReplaceWebView(navigations)
     ELSE UNCHANGED <<view, loaded, navigations>>

------------------------------------------------------------------------------
(* waitUntilReady(), evaluateJavaScript(), reload() and dispose().          *)

NotWaiting(s) ==
  /\ task[s] = "holding"
  /\ disposed \/ ready
  /\ task' = Resumed({s}, Loaded(~disposed))
  /\ UNCHANGED <<hasEntry, disposed, view, loadVars, evaluationVars, answer>>

JoinsLoad(s) ==
  /\ task[s] = "holding"
  /\ ~disposed /\ ~ready /\ load # None
  /\ waiters' = waiters \cup {s}
  /\ task' = Resumed({s}, "waiting")
  /\ UNCHANGED <<hasEntry, disposed, view, ready, load, loadTimer,
                 navigations, loaded, evaluationVars, answer>>

BeginsLoad(s) ==
  /\ task[s] = "holding"
  /\ ~disposed /\ ~ready /\ load = None
  /\ NavigationBegins(navigations)
  /\ waiters' = waiters \cup {s}
  /\ task' = Resumed({s}, "waiting")
  /\ UNCHANGED <<hasEntry, disposed, evaluationVars, answer>>

LoadIsRefused(s) ==
  /\ task[s] = "holding"
  /\ ~disposed /\ ~ready /\ load = None
  /\ NavigationIsRefused
  /\ task' = Resumed(waiters \cup {s}, "unloaded")
  /\ UNCHANGED <<hasEntry, disposed, evaluationVars, answer>>

WaitUntilReady(s) ==
  NotWaiting(s) \/ JoinsLoad(s) \/ BeginsLoad(s) \/ LoadIsRefused(s)

Evaluate(s) ==
  /\ task[s] = "loaded"
  /\ ready /\ ~disposed /\ active = None
  /\ \E id \in Fresh({c.id : c \in calls}), late \in Late(calls, navigations) :
       /\ active' = [id |-> id, caller |-> s]
       /\ evaluationTimer' = id
       /\ calls' = late \cup {[id |-> id, caller |-> s]}
  /\ task' = Resumed({s}, "evaluating")
  /\ UNCHANGED <<hasEntry, disposed, view, loadVars, answer>>

\* The session is no longer ready, or another evaluation is active: cancelled.
EvaluationIsCancelled(s) ==
  /\ task[s] = "loaded"
  /\ ~ready \/ disposed \/ active # None
  /\ task' = Resumed({s}, "answered")
  /\ answer' = [answer EXCEPT ![s] = Answer(s, "transientFailure")]
  /\ UNCHANGED <<hasEntry, disposed, view, loadVars, active, evaluationTimer, calls>>

\* reload(): finishLoading, replaceWebView and beginLoadAttemptIfNeeded.
Reload ==
  /\ ~disposed
  /\ EvaluationEnds
  /\ task' = ResumedByReset /\ answer' = ActiveFails
  /\ waiters' = {}
  /\ \/ NavigationBegins(OfReplacedView(navigations))
     \/ LoadEnds(FALSE) /\ ReplaceWebView(navigations)
  /\ UNCHANGED <<hasEntry, disposed, calls>>

Dispose ==
  /\ ~disposed
  /\ disposed' = TRUE
  /\ LoadEnds(FALSE)
  /\ EvaluationEnds
  /\ task' = ResumedByReset /\ answer' = ActiveFails
  /\ view' = FALSE /\ loaded' = FALSE
  /\ navigations' = OfReplacedView(navigations)
  /\ UNCHANGED <<hasEntry, calls>>

------------------------------------------------------------------------------
(* Timers and callbacks.                                                    *)

LoadTimesOut ==
  /\ loadTimer # None /\ load = loadTimer
  /\ Reset(navigations)
  /\ UNCHANGED <<hasEntry, disposed, calls>>

EvaluationTimesOut ==
  /\ evaluationTimer # None /\ active # None /\ active.id = evaluationTimer
  /\ EvaluationEnds
  /\ task' = Resumed({active.caller}, "answered") /\ answer' = ActiveFails
  /\ ReplaceWebView(navigations) /\ ready' = FALSE
  /\ UNCHANGED <<hasEntry, disposed, load, loadTimer, waiters, calls>>

\* Mutant: a navigation ends whatever load is under way.
IsAnyLoad(n) == load # None

\* webView === webViewStorage and isActiveLoad(navigation).
IsActiveLoad(n) == n.present /\ n.attempt = load

NavigationFinishes(n) ==
  /\ n \in navigations
  /\ navigations' = navigations \ {n}
  /\ loaded' = (loaded \/ n.present)
  /\ IF IsActiveLoad(n)
     THEN LoadEnds(TRUE) /\ task' = Resumed(waiters, "loaded")
     ELSE UNCHANGED <<ready, load, loadTimer, waiters, task>>
  /\ UNCHANGED <<hasEntry, disposed, view, evaluationVars, answer>>

NavigationFails(n) ==
  /\ n \in navigations
  /\ IF IsActiveLoad(n) THEN Reset(navigations \ {n})
     ELSE /\ navigations' = navigations \ {n}
          /\ UNCHANGED <<view, loaded, ready, load, loadTimer, waiters, active,
                         evaluationTimer, task, answer>>
  /\ UNCHANGED <<hasEntry, disposed, calls>>

ProcessTerminates ==
  /\ view
  /\ Reset(navigations)
  /\ UNCHANGED <<hasEntry, disposed, calls>>

\* Mutant: the completion handler does not compare the evaluation.
CallEndsAnyEvaluation(c, outcome) ==
  /\ c \in calls
  /\ calls' = calls \ {c}
  /\ IF active # None
     THEN /\ EvaluationEnds
          /\ task' = Resumed({active.caller}, "answered")
          /\ answer' = ActiveAnswered(c.caller, outcome)
     ELSE UNCHANGED <<active, evaluationTimer, task, answer>>
  /\ UNCHANGED <<hasEntry, disposed, view, loadVars>>

\* The completion handler of a script: only the id of the evaluation decides.
CallEnds(c, outcome) ==
  /\ c \in calls
  /\ calls' = calls \ {c}
  /\ IF active # None /\ active.id = c.id
     THEN /\ EvaluationEnds
          /\ task' = Resumed({active.caller}, "answered")
          /\ answer' = ActiveAnswered(c.caller, outcome)
     ELSE UNCHANGED <<active, evaluationTimer, task, answer>>
  /\ UNCHANGED <<hasEntry, disposed, view, loadVars>>
=============================================================================
