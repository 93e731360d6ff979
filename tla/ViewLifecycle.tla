--------------------------- MODULE ViewLifecycle ---------------------------
(* The PrismaUI view: created by the toggle hotkey, opened once its DOM is *)
(* ready, focused by a delayed worker, closed by a worker that retries     *)
(* until the focus is gone, and torn down before a game load.  Four kinds  *)
(* of threads meet in a handful of atomics: the UI thread, which runs the  *)
(* queued tasks in order; the thread of SKSE's messages; PrismaUI's own,   *)
(* which calls OnDomReady; and the workers, told apart by generations.     *)
(* The task of a press and the steps before a load take several actions,   *)
(* so that either may come between two steps of the other.                 *)
(* PrismaUI's handles, focus and visibility are modelled from the calls    *)
(* the code makes: a handle is never reused and Unfocus may be ignored.    *)
EXTENDS Integers, Sequences, FiniteSets

CONSTANTS
    MaxViews,         \* CreateView fails once this many views were created
    MaxToggles,       \* bound on presses of the hotkey
    MaxLoads,         \* bound on game loads
    MaxCloseAttempts, \* kMaxAttempts of a close worker (20)
    MaxFocusAttempts, \* tries of Focus() per opening (5)
    MaxRefusals,      \* bound on tasks the task interface refuses
    MaxIgnored,       \* bound on calls of Unfocus() without effect
    DestroyChoices    \* values the setting uiDestroyOnClose may have

ASSUME ViewBounds ==
    /\ {MaxViews, MaxCloseAttempts, MaxFocusAttempts} \subseteq Nat \ {0}
    /\ {MaxToggles, MaxLoads, MaxRefusals, MaxIgnored} \subseteq Nat
    /\ DestroyChoices \subseteq BOOLEAN

Views == 1..MaxViews

VARIABLES
    alive, shown, focus, dom,                   \* PrismaUI's side
    view, domReady, openRequested, viewHidden, viewFocused,
    focusDelayArmed, focusAttemptCount, focusDelayGeneration,
    closeRetryGeneration, shuttingDown,         \* the atomics of State
    uiTasks, closeWorkers, focusWorkers,        \* tasks and threads
    toggle, made,     \* how far the running press is, its handle in flight
    togglePolicy, session, captured,           \* policy, message thread
    toggles, loads, refusals, ignored,          \* bounds
    abandoned,      \* history: views a refused clean-up left behind
    crossed         \* history: loads whose clean-up met a press let through

prisma == <<alive, shown, focus, dom>>
flags == <<view, domReady, openRequested, viewHidden, viewFocused>>
focusDelay == <<focusDelayArmed, focusAttemptCount, focusDelayGeneration>>
workers == <<closeWorkers, focusWorkers>>
press == <<toggle, made, crossed>>
game == <<shuttingDown, togglePolicy, session, captured, toggles, loads>>
vars == <<prisma, flags, focusDelay, closeRetryGeneration, uiTasks, workers,
          game, press, refusals, ignored, abandoned>>

\* A task of the UI queue and what it captures.
Job(k, v) == [kind |-> k, view |-> v, generation |-> 0, attempt |-> 0,
              destroy |-> FALSE]

Init ==
    /\ alive = {} /\ shown = {} /\ focus = 0
    /\ dom = [v \in Views |-> "none"]
    /\ view = 0 /\ domReady = FALSE /\ openRequested = FALSE
    /\ viewHidden = TRUE /\ viewFocused = FALSE
    /\ focusDelayArmed = FALSE /\ focusAttemptCount = 0
    /\ focusDelayGeneration = 0 /\ closeRetryGeneration = 0
    /\ shuttingDown = FALSE /\ togglePolicy = "off"
    /\ session = "menu" /\ captured = 0
    /\ toggle = "idle" /\ made = 0
    /\ uiTasks = <<>> /\ closeWorkers = {} /\ focusWorkers = {}
    /\ toggles = 0 /\ loads = 0 /\ refusals = 0 /\ ignored = 0
    /\ abandoned = {} /\ crossed = {}

-----------------------------------------------------------------------------
(* Queues and small helpers of the state. *)

IsReady == view \in alive

\* QueueUITask from a thread other than the UI thread: taken or refused.
Accept(t) == uiTasks' = Append(uiTasks, t) /\ UNCHANGED refusals
Refuse == refusals < MaxRefusals /\ refusals' = refusals + 1 /\ UNCHANGED uiTasks

\* The UI thread ends the task it runs, having queued the tasks ts.
Finish(ts) ==
    \/ uiTasks' = Tail(uiTasks) \o ts /\ UNCHANGED refusals
    \/ /\ ts # <<>> /\ refusals < MaxRefusals
       /\ refusals' = refusals + 1
       /\ uiTasks' = Tail(uiTasks)

Running(k) == uiTasks # <<>> /\ Head(uiTasks).kind = k

\* workerMutex is held for as long as JoinLifecycleWorkers waits.
WorkerMutexFree == session # "joining"

Unfocus(v) ==
    \/ focus' = (IF focus = v THEN 0 ELSE focus) /\ UNCHANGED ignored
    \/ /\ focus = v /\ ignored < MaxIgnored
       /\ ignored' = ignored + 1
       /\ UNCHANGED focus

ResetViewState ==
    /\ openRequested' = FALSE /\ viewHidden' = TRUE /\ viewFocused' = FALSE
    /\ focusDelayArmed' = FALSE /\ focusAttemptCount' = 0
    /\ domReady' = FALSE /\ view' = 0
    /\ UNCHANGED focusDelayGeneration

\* Mutant: the task of the delayed focus leaves the flag set.
KeepArmed(g) == focusDelayArmed

ClearArmedIfCurrent(g) ==
    IF g = focusDelayGeneration THEN FALSE ELSE focusDelayArmed

\* QueueDelayedFocusAndState, armed being the flag as the caller finds it.
QueueDelayedFocus(armed) ==
    IF armed
    THEN /\ focusDelayArmed' = TRUE
         /\ UNCHANGED <<focusDelayGeneration, focusWorkers>>
    ELSE /\ WorkerMutexFree
         /\ focusDelayArmed' = TRUE
         /\ focusDelayGeneration' = focusDelayGeneration + 1
         /\ focusWorkers' = focusWorkers \cup
                {[generation |-> focusDelayGeneration + 1, pc |-> "sleeping"]}

-----------------------------------------------------------------------------
(* The hotkey, and what PrismaUI does on its own thread. *)

\* ToggleUI: a press without a task interface changes nothing.
ToggleUI ==
    /\ session # "menu" /\ toggles < MaxToggles
    /\ toggles' = toggles + 1
    /\ \/ Accept(Job("toggle", 0))
       \/ Refuse
    /\ UNCHANGED <<prisma, flags, focusDelay, closeRetryGeneration, workers,
                   shuttingDown, togglePolicy, session, captured, loads, press,
                   ignored, abandoned>>

\* OnDomReady looks at the current view, which may not be stored yet; a call
\* for any other view is ignored ...
DomReadyCalled(v) ==
    /\ dom[v] = "loading"
    /\ dom' = [dom EXCEPT ![v] =
                    IF v = view /\ IsReady THEN "checked" ELSE "ignored"]
    /\ UNCHANGED <<alive, shown, focus, flags, focusDelay, closeRetryGeneration,
                   uiTasks, workers, game, press, refusals, ignored, abandoned>>

\* ... and then sets the flag and leaves the rest to a UI task.
DomReadyStored(v) ==
    /\ dom[v] = "checked"
    /\ dom' = [dom EXCEPT ![v] = "over"]
    /\ domReady' = TRUE
    /\ \/ Accept(Job("domReady", v))
       \/ Refuse
    /\ UNCHANGED <<alive, shown, focus, view, openRequested, viewHidden,
                   viewFocused, focusDelay, closeRetryGeneration, workers,
                   game, press, ignored, abandoned>>

-----------------------------------------------------------------------------
(* Tasks of the UI thread. *)

\* CanToggleNow: refused until a game is loaded, and otherwise also by the
\* grace period, the debounce and the game's own menus.
ToggleIgnored ==
    /\ Running("toggle") /\ toggle = "idle"
    /\ Finish(<<>>)
    /\ UNCHANGED <<prisma, flags, focusDelay, closeRetryGeneration, workers,
                   game, press, ignored, abandoned>>

\* The clean-up of a load has looked at the view and has not run.
CleanupUnderWay ==
    \/ session \in {"captured", "cleaned"}
    \/ \E i \in DOMAIN uiTasks : uiTasks[i].kind = "cleanup"

ToggleAllowed ==
    /\ Running("toggle") /\ toggle = "idle" /\ togglePolicy = "on"
    /\ toggle' = "allowed"
    /\ crossed' = crossed \cup (IF CleanupUnderWay THEN {loads} ELSE {})
    /\ UNCHANGED <<prisma, flags, focusDelay, closeRetryGeneration, uiTasks,
                   workers, game, made, refusals, ignored, abandoned>>

\* ExecuteToggleTransition: readyBefore, and the request armed without a view.
ToggleBegins ==
    /\ toggle = "allowed"
    /\ \/ /\ IsReady /\ toggle' = "ready"
          /\ UNCHANGED <<openRequested, focusAttemptCount>>
       \/ /\ ~IsReady /\ toggle' = "armed"
          /\ openRequested' = TRUE /\ focusAttemptCount' = 0
    /\ UNCHANGED <<prisma, view, domReady, viewHidden, viewFocused,
                   focusDelayArmed, focusDelayGeneration, closeRetryGeneration,
                   uiTasks, workers, game, made, crossed, refusals, ignored,
                   abandoned>>

\* EnsureCreatedOnUIThread finds a valid view ...
ToggleFinds ==
    /\ toggle = "ready" /\ IsReady
    /\ toggle' = "deciding"
    /\ UNCHANGED <<prisma, flags, focusDelay, closeRetryGeneration, uiTasks,
                   workers, game, made, crossed, refusals, ignored, abandoned>>

\* ... or calls CreateView, which may fail.  From here on the page may call
\* OnDomReady, on a thread of PrismaUI's.
CreateView ==
    /\ toggle \in {"armed", "ready"} /\ ~IsReady
    /\ domReady' = FALSE
    /\ toggle' = IF toggle = "armed" THEN "creating" ELSE "recreating"
    /\ \/ UNCHANGED <<made, alive, dom>>
       \/ \E v \in Views :
             /\ dom[v] = "none" /\ \A w \in 1..(v - 1) : dom[w] # "none"
             /\ made' = v
             /\ alive' = alive \cup {v}
             /\ dom' = [dom EXCEPT ![v] = "loading"]
    /\ UNCHANGED <<shown, focus, view, openRequested, viewHidden, viewFocused,
                   focusDelay, closeRetryGeneration, uiTasks, workers, game,
                   crossed, refusals, ignored, abandoned>>

\* The handle is stored.  A press that created the view for its own request
\* ends here, the page opens it; without a view the request is withdrawn.
StoreHandle ==
    LET failed == made = 0
        over == failed \/ toggle = "creating" IN
    /\ toggle \in {"creating", "recreating"}
    /\ view' = made /\ made' = 0
    /\ viewHidden' = (failed => viewHidden)
    /\ viewFocused' = (failed /\ viewFocused)
    /\ openRequested' = (~failed /\ openRequested)
    /\ toggle' = IF over THEN "idle" ELSE "deciding"
    /\ IF over THEN Finish(<<>>) ELSE UNCHANGED <<uiTasks, refusals>>
    /\ UNCHANGED <<prisma, domReady, focusDelay, closeRetryGeneration, workers,
                   game, crossed, ignored, abandoned>>

\* The view was there a moment ago: a refused clean-up reset it meanwhile.
ToggleGivesUp ==
    /\ toggle = "deciding" /\ ~IsReady
    /\ openRequested' = FALSE
    /\ toggle' = "idle"
    /\ Finish(<<>>)
    /\ UNCHANGED <<prisma, view, domReady, viewHidden, viewFocused, focusDelay,
                   closeRetryGeneration, workers, game, made, crossed, ignored,
                   abandoned>>

ToggleOpens ==
    /\ toggle = "deciding" /\ IsReady /\ viewHidden
    /\ openRequested' = TRUE /\ viewHidden' = FALSE
    /\ focusAttemptCount' = 0
    /\ toggle' = "idle"
    /\ Finish(<<Job("open", 0)>>)
    /\ UNCHANGED <<prisma, view, domReady, viewFocused, focusDelayArmed,
                   focusDelayGeneration, closeRetryGeneration, workers, game,
                   made, crossed, ignored, abandoned>>

\* QueueCloseTransition, BeginCloseOnUIThread and QueueCloseRetry.
ToggleCloses ==
    /\ toggle = "deciding" /\ IsReady /\ ~viewHidden
    /\ WorkerMutexFree
    /\ openRequested' = FALSE /\ viewHidden' = TRUE /\ viewFocused' = FALSE
    /\ Unfocus(view)
    /\ shown' = shown \ {view}
    /\ closeRetryGeneration' = closeRetryGeneration + 1
    /\ \E d \in DestroyChoices :
           closeWorkers' = closeWorkers \cup
               {[view |-> view, destroy |-> d, attempt |-> 1,
                 generation |-> closeRetryGeneration + 1, pc |-> "sleeping"]}
    /\ toggle' = "idle"
    /\ Finish(<<>>)
    /\ UNCHANGED <<alive, dom, view, domReady, focusDelay, focusWorkers, game,
                   made, crossed, abandoned>>

\* The task of OnDomReady: open when asked to, else make sure it is hidden.
RunDomReady ==
    LET v == Head(uiTasks).view IN
    /\ Running("domReady")
    /\ \/ /\ ~(v = view /\ IsReady)
          /\ Finish(<<>>)
          /\ UNCHANGED <<shown, viewHidden, viewFocused>>
       \/ /\ v = view /\ IsReady /\ openRequested
          /\ Finish(<<Job("open", 0)>>)
          /\ UNCHANGED <<shown, viewHidden, viewFocused>>
       \/ /\ v = view /\ IsReady /\ ~openRequested
          /\ shown' = shown \ {v}
          /\ viewHidden' = TRUE /\ viewFocused' = FALSE
          /\ Finish(<<>>)
    /\ UNCHANGED <<alive, focus, dom, view, domReady, openRequested,
                   focusDelay, closeRetryGeneration, workers, game, press, ignored,
                   abandoned>>

\* Mutant: the task opens what nobody asks for any more.
ShowAnyway == IsReady /\ domReady

MayShow == IsReady /\ domReady /\ openRequested

\* The task of QueueOpenIfRequested.
RunOpen ==
    /\ Running("open")
    /\ \/ /\ ~MayShow
          /\ UNCHANGED <<shown, viewHidden, focusDelayArmed,
                         focusDelayGeneration, focusWorkers>>
       \/ /\ MayShow
          /\ shown' = shown \cup {view} /\ viewHidden' = FALSE
          /\ QueueDelayedFocus(focusDelayArmed)
    /\ Finish(<<>>)
    /\ UNCHANGED <<alive, focus, dom, view, domReady, openRequested,
                   viewFocused, focusAttemptCount, closeRetryGeneration,
                   closeWorkers, game, press, ignored, abandoned>>

\* The task of the delayed focus; a failing Focus() arms another delay.
\* The count of attempts matters up to the last one only.
RunFocus ==
    LET g == Head(uiTasks).generation
        armed == ClearArmedIfCurrent(g)
        stale == g # focusDelayGeneration
        attempt == focusAttemptCount + 1 IN
    /\ Running("focus")
    /\ \/ /\ stale \/ ~MayShow
          /\ focusDelayArmed' = armed
          /\ UNCHANGED <<shown, focus, viewHidden, viewFocused,
                         focusAttemptCount, focusDelayGeneration, focusWorkers>>
       \/ /\ ~stale /\ MayShow
          /\ shown' = shown \cup {view} /\ viewHidden' = FALSE
          /\ \/ /\ focus' = view /\ viewFocused' = TRUE
                /\ focusAttemptCount' = 0
                /\ focusDelayArmed' = armed
                /\ UNCHANGED <<focusDelayGeneration, focusWorkers>>
             \/ /\ UNCHANGED focus /\ viewFocused' = FALSE
                /\ focusAttemptCount' = IF attempt < MaxFocusAttempts
                                        THEN attempt ELSE MaxFocusAttempts
                /\ IF attempt < MaxFocusAttempts
                   THEN QueueDelayedFocus(armed)
                   ELSE /\ focusDelayArmed' = armed
                        /\ UNCHANGED <<focusDelayGeneration, focusWorkers>>
    /\ Finish(<<>>)
    /\ UNCHANGED <<alive, dom, view, domReady, openRequested,
                   closeRetryGeneration, closeWorkers, game, press, ignored, abandoned>>

-----------------------------------------------------------------------------
(* The close worker and its tasks. *)

\* The next round of the worker's loop, if it has one left.
Continue(w) ==
    closeWorkers' = (closeWorkers \ {w}) \cup
        IF w.attempt < MaxCloseAttempts
        THEN {[w EXCEPT !.attempt = @ + 1, !.pc = "sleeping"]}
        ELSE {}

CloseWorkerWakes(w) ==
    /\ w.pc = "sleeping"
    /\ \/ /\ shuttingDown \/ w.generation # closeRetryGeneration
          /\ closeWorkers' = closeWorkers \ {w}
          /\ UNCHANGED <<uiTasks, refusals>>
       \/ /\ ~shuttingDown /\ w.generation = closeRetryGeneration
          /\ \/ /\ Accept([kind |-> "closeRetry", view |-> w.view,
                           generation |-> w.generation, attempt |-> w.attempt,
                           destroy |-> w.destroy])
                /\ closeWorkers' = (closeWorkers \ {w}) \cup
                                       {[w EXCEPT !.pc = "waiting"]}
             \/ Refuse /\ Continue(w)
    /\ UNCHANGED <<prisma, flags, focusDelay, closeRetryGeneration,
                   focusWorkers, game, press, ignored, abandoned>>

\* Mutant: the worker waits for its task without a timeout.
NeverTimesOut(w) == FALSE

\* wait_for gives up on a task; the task stays in the queue.
CloseTaskTimesOut(w) ==
    /\ w.pc = "waiting"
    /\ Continue(w)
    /\ UNCHANGED <<prisma, flags, focusDelay, closeRetryGeneration, uiTasks,
                   focusWorkers, game, press, refusals, ignored, abandoned>>

\* Who waits for the task that runs: nobody once its wait was given up.
Waiting(t) == {w \in closeWorkers : /\ w.pc = "waiting"
                                    /\ w.generation = t.generation
                                    /\ w.attempt = t.attempt}
ReportDone(t) == closeWorkers' = closeWorkers \ Waiting(t)
ReportRetry(t) ==
    IF Waiting(t) = {} THEN UNCHANGED closeWorkers
                       ELSE \E w \in Waiting(t) : Continue(w)

\* Mutant: a view that is hidden already needs no closing.
HiddenIsMoot(t) == t.view \notin shown

CloseIsMoot(t) ==
    \/ t.generation # closeRetryGeneration
    \/ openRequested
    \/ t.view # view
    \/ ~IsReady

RunCloseRetry ==
    LET t == Head(uiTasks) IN
    /\ Running("closeRetry")
    /\ \/ /\ CloseIsMoot(t) \/ (focus # t.view /\ ~t.destroy)
          /\ ReportDone(t)
          /\ UNCHANGED <<alive, shown, focus, flags, focusDelay, ignored>>
       \/ /\ ~CloseIsMoot(t) /\ focus = t.view
          /\ Unfocus(t.view)
          /\ shown' = shown \ {t.view}
          /\ ReportRetry(t)
          /\ UNCHANGED <<alive, flags, focusDelay>>
       \/ /\ ~CloseIsMoot(t) /\ focus # t.view /\ t.destroy
          /\ alive' = alive \ {t.view} /\ shown' = shown \ {t.view}
          /\ ResetViewState
          /\ ReportDone(t)
          /\ UNCHANGED <<focus, ignored>>
    /\ Finish(<<>>)
    /\ UNCHANGED <<dom, closeRetryGeneration, focusWorkers, game, press, abandoned>>

-----------------------------------------------------------------------------
(* The worker that delays the focus. *)

\* Mutant: a worker whose task is refused ends with the flag set.
FocusWorkerGivesUp(w) ==
    /\ w.pc = "sleeping"
    /\ focusWorkers' = focusWorkers \ {w}
    /\ \/ w.generation # focusDelayGeneration /\ UNCHANGED <<uiTasks, refusals>>
       \/ /\ w.generation = focusDelayGeneration
          /\ \/ Accept([Job("focus", 0) EXCEPT !.generation = w.generation])
             \/ Refuse
    /\ UNCHANGED <<prisma, flags, focusDelay, closeRetryGeneration,
                   closeWorkers, game, press, ignored, abandoned>>

FocusWorkerWakes(w) ==
    LET current == w.generation = focusDelayGeneration
        clearing == (focusWorkers \ {w}) \cup {[w EXCEPT !.pc = "clearing"]}
    IN
    /\ w.pc = "sleeping"
    /\ \/ /\ ~current
          /\ focusWorkers' = focusWorkers \ {w}
          /\ UNCHANGED <<uiTasks, refusals>>
       \/ /\ current /\ shuttingDown
          /\ focusWorkers' = clearing
          /\ UNCHANGED <<uiTasks, refusals>>
       \/ /\ current /\ ~shuttingDown
          /\ \/ /\ Accept([Job("focus", 0) EXCEPT !.generation = w.generation])
                /\ focusWorkers' = focusWorkers \ {w}
             \/ Refuse /\ focusWorkers' = clearing
    /\ UNCHANGED <<prisma, flags, focusDelay, closeRetryGeneration,
                   closeWorkers, game, press, ignored, abandoned>>

\* The store of ClearFocusDelayArmedIfCurrent, after its look at the
\* generation.
FocusWorkerClears(w) ==
    /\ w.pc = "clearing"
    /\ focusDelayArmed' = FALSE
    /\ focusWorkers' = focusWorkers \ {w}
    /\ UNCHANGED <<prisma, flags, focusAttemptCount, focusDelayGeneration,
                   closeRetryGeneration, uiTasks, closeWorkers, game, press, refusals,
                   ignored, abandoned>>

-----------------------------------------------------------------------------
(* A game load, on the thread of SKSE's messages. *)

\* OnPreLoadGame, Shutdown: stop the workers ...
SetShuttingDown ==
    /\ session = "playing" /\ loads < MaxLoads
    /\ session' = "joining"
    /\ loads' = loads + 1
    /\ shuttingDown' = TRUE
    /\ closeRetryGeneration' = closeRetryGeneration + 1
    /\ focusDelayGeneration' = focusDelayGeneration + 1
    /\ focusDelayArmed' = FALSE
    /\ UNCHANGED <<prisma, flags, focusAttemptCount, uiTasks, workers, press,
                   togglePolicy, captured, toggles, refusals, ignored, abandoned>>

\* ... wait for them (JoinLifecycleWorkers) ...
JoinWorkers ==
    /\ session = "joining"
    /\ closeWorkers = {} /\ focusWorkers = {}
    /\ session' = "joined"
    /\ UNCHANGED <<prisma, flags, focusDelay, closeRetryGeneration, uiTasks,
                   workers, press, shuttingDown, togglePolicy, captured,
                   toggles, loads, refusals, ignored, abandoned>>

\* ... ForceCleanupForLoadBoundary: withdraw the request ...
WithdrawRequest ==
    /\ session = "joined"
    /\ session' = "withdrawn"
    /\ openRequested' = FALSE
    /\ UNCHANGED <<prisma, view, domReady, viewHidden, viewFocused, focusDelay,
                   closeRetryGeneration, uiTasks, workers, press, shuttingDown,
                   togglePolicy, captured, toggles, loads, refusals, ignored,
                   abandoned>>

\* ... look at the view ...
CaptureView ==
    /\ session = "withdrawn"
    /\ session' = "captured"
    /\ captured' = view
    /\ crossed' = crossed \cup (IF toggle # "idle" THEN {loads} ELSE {})
    /\ UNCHANGED <<prisma, flags, focusDelay, closeRetryGeneration, uiTasks,
                   workers, toggle, made, shuttingDown, togglePolicy, toggles,
                   loads, refusals, ignored, abandoned>>

\* ... and queue its clean-up, or only forget it ...
QueueCleanup ==
    /\ session = "captured"
    /\ session' = "cleaned" /\ captured' = 0
    /\ \/ /\ Accept(Job("cleanup", captured))
          /\ UNCHANGED <<flags, focusDelay, abandoned>>
       \/ /\ Refuse
          /\ ResetViewState
          /\ abandoned' = abandoned \cup (alive \cap {view})
    /\ UNCHANGED <<prisma, closeRetryGeneration, workers, press, shuttingDown,
                   togglePolicy, toggles, loads, ignored>>

\* Mutant: the hotkey stays allowed across the load.
HotkeyStaysOn ==
    /\ session = "cleaned"
    /\ session' = "loading"
    /\ UNCHANGED <<prisma, flags, focusDelay, closeRetryGeneration, uiTasks,
                   workers, press, shuttingDown, togglePolicy, captured,
                   toggles, loads, refusals, ignored, abandoned>>

\* ... ResetTogglePolicyForPreLoad.
ResetTogglePolicy ==
    /\ session = "cleaned"
    /\ session' = "loading"
    /\ togglePolicy' = "off"
    /\ UNCHANGED <<prisma, flags, focusDelay, closeRetryGeneration, uiTasks,
                   workers, press, shuttingDown, captured, toggles, loads,
                   refusals, ignored, abandoned>>

\* Mutant: the clean-up forgets the view without taking it down.
CleanupForgetsView ==
    /\ Running("cleanup")
    /\ ResetViewState
    /\ Finish(<<>>)
    /\ UNCHANGED <<prisma, closeRetryGeneration, workers, game, press, ignored,
                   abandoned>>

RunCleanup ==
    LET v == Head(uiTasks).view IN
    /\ Running("cleanup")
    /\ alive' = alive \ {v} /\ shown' = shown \ {v}
    /\ focus' = (IF focus = v THEN 0 ELSE focus)
    /\ ResetViewState
    /\ Finish(<<>>)
    /\ UNCHANGED <<dom, closeRetryGeneration, workers, game, press, ignored, abandoned>>

\* OnGameLoaded, after a load or for a new game.
OnGameLoaded ==
    /\ session \in {"menu", "loading"}
    /\ session' = "playing"
    /\ shuttingDown' = FALSE
    /\ togglePolicy' = "grace"
    /\ UNCHANGED <<prisma, flags, focusDelay, closeRetryGeneration, uiTasks,
                   workers, press, captured, toggles, loads, refusals, ignored,
                   abandoned>>

\* The two seconds of grace after a load.
GraceEnds ==
    /\ togglePolicy = "grace"
    /\ togglePolicy' = "on"
    /\ UNCHANGED <<prisma, flags, focusDelay, closeRetryGeneration, uiTasks,
                   workers, press, shuttingDown, session, captured, toggles,
                   loads, refusals, ignored, abandoned>>

RunUiTask ==
    \/ ToggleIgnored \/ ToggleAllowed \/ ToggleBegins \/ ToggleFinds
    \/ CreateView \/ StoreHandle \/ ToggleGivesUp \/ ToggleOpens \/ ToggleCloses
    \/ RunDomReady \/ RunOpen \/ RunFocus \/ RunCloseRetry \/ RunCleanup

CloseWorkers == \E w \in closeWorkers : CloseWorkerWakes(w) \/ CloseTaskTimesOut(w)
FocusWorkers == \E w \in focusWorkers : FocusWorkerWakes(w) \/ FocusWorkerClears(w)

LoadBoundary ==
    \/ JoinWorkers \/ WithdrawRequest \/ CaptureView \/ QueueCleanup
    \/ ResetTogglePolicy

Next ==
    \/ ToggleUI
    \/ \E v \in Views : DomReadyCalled(v) \/ DomReadyStored(v)
    \/ RunUiTask
    \/ CloseWorkers \/ FocusWorkers
    \/ SetShuttingDown \/ LoadBoundary \/ OnGameLoaded \/ GraceEnds

\* Queued tasks run, threads that started go on, a load that began ends.
\* A press of the hotkey, a load, and PrismaUI's loading of a page need not
\* come.
ViewFairness ==
    /\ WF_vars(RunUiTask)
    /\ WF_vars(CloseWorkers)
    /\ WF_vars(FocusWorkers)
    /\ WF_vars(\E v \in Views : DomReadyStored(v))
    /\ WF_vars(LoadBoundary \/ (session = "loading" /\ OnGameLoaded))

Spec == Init /\ [][Next]_vars /\ ViewFairness
-----------------------------------------------------------------------------
(* Properties *)

\* A load loses at most one view, and none unless its clean-up was refused or
\* a press was let through while it was under way: the clean-up destroys the
\* view it looked at and forgets the one that is there when it runs, and the
\* hotkey is refused only once it is queued
\* (PrismaUIViewWorkers.cpp:229-254, PrismaUIManager.cpp:52-57).
NoViewIsLost ==
    /\ Cardinality(alive \ {view, made}) <= loads
    /\ crossed = {} => alive \subseteq {view, made} \cup abandoned
    /\ view # 0 => IsReady

\* The delayed focus cannot get stuck: while the flag that keeps a second
\* delay from starting is set, a worker or a task of this generation is
\* there that will clear it (PrismaUIViewWorkers.cpp:45-50, 256-328).
ArmedFocusIsPending ==
    focusDelayArmed =>
        \/ \E w \in focusWorkers :
               w.generation = focusDelayGeneration \/ w.pc = "clearing"
        \/ \E i \in DOMAIN uiTasks :
               /\ uiTasks[i].kind = "focus"
               /\ uiTasks[i].generation = focusDelayGeneration

\* Once a load's clean-up has run, no view is in the plug-in's hands and
\* nothing left in the queue makes or shows one before the game is loaded,
\* unless a press met the clean-up; if none ever did, nothing of the UI is on
\* the screen (PrismaUIManager.cpp:52-57).
LoadingShowsNoUi ==
    (/\ session = "loading" /\ loads \notin crossed
     /\ \A i \in DOMAIN uiTasks : uiTasks[i].kind # "cleanup")
    => /\ view = 0 /\ made = 0 /\ ~openRequested
       /\ crossed = {} => shown \cup ({focus} \ {0}) \subseteq abandoned

\* When nothing is under way, the next press of the hotkey does the opposite
\* of what is on the screen: the flags it looks at are those of the view.
\* A task that was refused may leave them apart until the next press.
QuietFlagsAreTrue ==
    (/\ uiTasks = <<>> /\ closeWorkers = {} /\ focusWorkers = {}
     /\ session = "playing" /\ IsReady /\ domReady /\ dom[view] = "over"
     /\ refusals = 0)
    => /\ viewHidden <=> view \notin shown
       /\ openRequested <=> view \in shown
       /\ viewFocused => focus = view

\* A load boundary cannot hang: the workers it joins end even when the task
\* they wait for is stuck behind one that waits for workerMutex
\* (PrismaUIViewWorkers.cpp:163-174, 218-227).
JoinEnds == session = "joining" ~> session = "loading"

\* Closing gives the keyboard back: once the UI is not asked for, the view
\* loses the focus, by a retry, a late task or the clean-up of a load,
\* however many threads meet (PrismaUIViewWorkers.cpp:87-205).
ClosedUiLosesFocus ==
    (~openRequested /\ focus \notin abandoned \cup {0})
        ~> (openRequested \/ focus \in abandoned \cup {0})

\* Opening gets the keyboard: a view asked for gets the focus once OnDomReady
\* was taken for it, runs out of tries or is no longer asked for.  A task that
\* is refused or a press that met a load may leave it without
\* (PrismaUIViewLifecycle.cpp:57-101, 186-213, PrismaUIViewWorkers.cpp:256-328).
\* An OnDomReady that comes before the handle is stored is ignored, and such a
\* view stays closed until it is destroyed.
OpenedUiGetsFocus ==
    (openRequested /\ IsReady /\ dom[view] = "over")
        ~> \/ ~openRequested \/ ~IsReady
           \/ viewFocused
           \/ focusAttemptCount = MaxFocusAttempts
           \/ refusals > 0 \/ crossed # {}
=============================================================================
