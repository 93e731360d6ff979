----------------------------- MODULE UiRequests -----------------------------
(***************************************************************************)
(* The requests of the UI and the lists it shows.  Listeners run on the UI *)
(* thread and queue tasks for the main thread; those change the game (the  *)
(* operations of Progression) or read a list, and queue a task back to the *)
(* UI thread, which shows the list or asks for every list a change may     *)
(* have touched.  A list of what can be registered is cached for a moment. *)
(*                                                                         *)
(* Both queues are first in, first out.  When the task interface is not    *)
(* available nothing can be queued: a refused main task leaves a mark, and *)
(* the next request that reads something asks for everything anew.         *)
(***************************************************************************)
EXTENDS QuickList

CONSTANTS
    NoList,         \* nothing cached
    RequestedSlots, \* model bound: slots a build request may name
    MaxRequests,    \* model bound: requests in a behaviour
    MaxOutages      \* model bound: times the task interface goes away

ASSUME RequestAssumption ==
    RequestedSlots \subseteq Slots /\ {MaxRequests, MaxOutages} \subseteq Nat

VARIABLES
    mainQueue,      \* tasks for the main thread
    uiQueue,        \* tasks for the UI thread
    refreshPending, \* g_refreshPending
    cache,          \* the cached list of what can be registered
    shown,          \* what each panel of the UI shows
    available,      \* is there a task interface?
    lost,           \* history: was a task for the UI thread refused?
    requests, outages

gameVars  == vars
queueVars == <<mainQueue, uiQueue, refreshPending, lost>>
worldVars == <<available, requests, outages>>
uiVars    == <<queueVars, cache, shown, worldVars>>
allVars   == <<gameVars, uiVars>>

----------------------------------------------------------------------------
(* The lists.                                                               *)

BuildQuickRegisterList ==
    {[item |-> i, key |-> RegisterKey(i)] : i \in {j \in Items : IsListed(normalize, j)}}

UndoList == [n \in 1..Len(history) |->
                LET r == history[Len(history) + 1 - n] IN [actionId |-> r.actionId, key |-> r.key]]

RuntimeState == [count |-> Cardinality(RegisteredKeys), score |-> score, points |-> points,
                 migration |-> migration]

\* A panel as it should be now.
Current(panel) ==
    CASE panel = "inventory"  -> BuildQuickRegisterList
      [] panel = "registered" -> registered
      [] panel = "build"      -> [slots |-> slots, points |-> points]
      [] panel = "undo"       -> UndoList
      [] panel = "state"      -> RuntimeState

Lists == {"inventory", "registered", "build", "undo"}
Panels == Lists \union {"state"}

----------------------------------------------------------------------------
(* Tasks.                                                                   *)

Send(panel)  == [do |-> "send", panel |-> panel]
SendAll == <<Send("inventory"), Send("registered"), Send("build"), Send("undo")>>

\* After a change: everything, or only what a build change can touch.
AfterChange(what) == IF what = "registry" THEN SendAll ELSE <<Send("build")>>

\* Mutant: a refused task leaves no mark.
QueueUnmarked(tasks, marked) ==
    /\ mainQueue' = IF available THEN mainQueue \o tasks ELSE mainQueue
    /\ refreshPending' = marked

QueueMainTasks(tasks, marked) ==
    /\ mainQueue' = IF available THEN mainQueue \o tasks ELSE mainQueue
    /\ refreshPending' = (marked \/ (tasks # <<>> /\ ~ available))

\* From a main task, which is then done.
QueueUITask(task) ==
    /\ uiQueue' = IF available THEN Append(uiQueue, task) ELSE uiQueue
    /\ lost' = (lost \/ ~ available)
    /\ UNCHANGED refreshPending
TaskDone == mainQueue' = Tail(mainQueue)

----------------------------------------------------------------------------
UiInit ==
    /\ Init
    /\ mainQueue = <<>> /\ uiQueue = <<>>
    /\ refreshPending = FALSE
    /\ lost = FALSE
    /\ cache = NoList
    /\ shown = [p \in Panels |-> Current(p)]
    /\ available = TRUE
    /\ requests = 0 /\ outages = 0

(***************************************************************************)
(* Listeners, on the UI thread.                                            *)
(***************************************************************************)
NewRequest ==
    /\ requests < MaxRequests
    /\ requests' = requests + 1
    /\ UNCHANGED <<gameVars, uiQueue, lost, cache, available, outages>>

\* FlushPendingUIRefresh: what was missed, with the list asked for behind it.
FlushAndQueue(tasks) ==
    QueueMainTasks((IF refreshPending THEN SendAll ELSE <<>>) \o tasks, FALSE)

RequestList(panel) ==
    /\ NewRequest
    /\ FlushAndQueue(<<Send(panel)>>)
    /\ shown' = IF refreshPending THEN [shown EXCEPT !["state"] = RuntimeState] ELSE shown

RequestState ==
    /\ NewRequest
    /\ FlushAndQueue(<<>>)
    /\ shown' = [shown EXCEPT !["state"] = RuntimeState]

RequestChange(task) ==
    /\ NewRequest
    /\ QueueMainTasks(<<task>>, refreshPending)
    /\ UNCHANGED shown

\* One row of the list, or several in the order they were chosen.
RequestRegister ==
    LET rows  == {row.item : row \in shown["inventory"]}
        pairs == {p \in rows \X rows : p[1] # p[2]}
    IN
    \E chosen \in {<<i>> : i \in rows} \union pairs :
        RequestChange([do |-> "register", items |-> chosen])

\* The newest entry of the undo list is the only one that can be chosen; the
\* registration it stands for is remembered to check what the undo hits.
RequestUndo ==
    /\ shown["undo"] # <<>>
    /\ LET entry == Head(shown["undo"]) IN
       RequestChange([do |-> "undo", actionId |-> entry.actionId, key |-> entry.key])

\* In combat the request is no more than a message, and no step; the player may
\* enter and leave it at any time, and nothing else looks at it.
RequestBuildChange ==
    \/ \E s \in RequestedSlots, o \in Options :
          RequestChange([do |-> "activate", slot |-> s, option |-> o])
    \/ \E s \in RequestedSlots : shown["build"].slots[s] # NoOption /\
          \/ RequestChange([do |-> "deactivate", slot |-> s])
          \/ \E to \in RequestedSlots \ {s} :
                RequestChange([do |-> "swap", from |-> s, slot |-> to,
                               option |-> shown["build"].slots[s]])

----------------------------------------------------------------------------
(* The main thread.                                                         *)

MainTask == Head(mainQueue)
NextIs(what) == mainQueue # <<>> /\ MainTask.do = what
mainRest == <<shown, worldVars>>

Present(what) == QueueUITask([do |-> "present", what |-> what])

\* Mutant: the list stays in the cache.
RegisterKeepsCache ==
    /\ NextIs("register")
    /\ MainTask.items # <<>>
    /\ LET i == Head(MainTask.items) IN RegisterItem(i) \/ BlockItem(i) \/ UNCHANGED gameVars
    /\ mainQueue' = <<[MainTask EXCEPT !.items = Tail(@)]>> \o Tail(mainQueue)
    /\ UNCHANGED <<cache, uiQueue, refreshPending, lost, mainRest>>

\* The next row is registered, found impossible, or refused.
RunRegister ==
    /\ NextIs("register")
    /\ MainTask.items # <<>>
    /\ LET i == Head(MainTask.items) IN
       \/ RegisterItem(i) /\ cache' = NoList
       \/ BlockItem(i) /\ cache' = cache
       \/ UNCHANGED <<gameVars, cache>>
    /\ mainQueue' = <<[MainTask EXCEPT !.items = Tail(@)]>> \o Tail(mainQueue)
    /\ UNCHANGED <<uiQueue, refreshPending, lost, mainRest>>

FinishRegister ==
    /\ NextIs("register")
    /\ MainTask.items = <<>>
    /\ TaskDone /\ Present("registry")
    /\ UNCHANGED <<gameVars, cache, mainRest>>

\* Mutant: whatever is latest is undone.
IsThereALatest(actionId) == history # <<>>

IsLatest(actionId) == history # <<>> /\ Latest.actionId = actionId

RunUndo ==
    /\ NextIs("undo")
    /\ IF IsLatest(MainTask.actionId)
       THEN \/ UndoRegistration /\ cache' = NoList
            \/ UndoCannotGiveBack /\ cache' = cache
       ELSE UNCHANGED <<gameVars, cache>>
    /\ TaskDone /\ Present("registry")
    /\ UNCHANGED mainRest

RunBuildChange ==
    /\ NextIs("activate") \/ NextIs("deactivate") \/ NextIs("swap")
    /\ LET t == MainTask IN
       CASE t.do = "activate" ->
              IF CanSetActiveSlot(t.slot, t.option) THEN ActivateBuildOption(t.slot, t.option)
                                                    ELSE UNCHANGED gameVars
         [] t.do = "deactivate" -> DeactivateBuildOption(t.slot)
         [] t.do = "swap" ->
              IF slots[t.from] = t.option THEN SwapBuildOption(t.from, t.slot, t.option)
                                          ELSE UNCHANGED gameVars
    /\ TaskDone /\ Present("build")
    /\ UNCHANGED <<cache, mainRest>>

RunSend ==
    /\ NextIs("send")
    /\ LET list == IF MainTask.panel = "inventory" /\ cache # NoList
                   THEN cache ELSE Current(MainTask.panel) IN
       /\ QueueUITask([do |-> "show", panel |-> MainTask.panel, data |-> list])
       /\ cache' = IF MainTask.panel = "inventory" THEN list ELSE cache
    /\ TaskDone
    /\ UNCHANGED <<gameVars, mainRest>>

----------------------------------------------------------------------------
(* Tasks back on the UI thread.                                             *)

RunUITask ==
    /\ uiQueue # <<>>
    /\ uiQueue' = Tail(uiQueue)
    /\ LET t == Head(uiQueue) IN
       IF t.do = "show"
       THEN /\ shown' = [shown EXCEPT ![t.panel] = t.data]
            /\ UNCHANGED <<mainQueue, refreshPending>>
       ELSE /\ shown' = [shown EXCEPT !["state"] = RuntimeState]
            /\ QueueMainTasks(AfterChange(t.what), refreshPending)
    /\ UNCHANGED <<gameVars, lost, cache, worldVars>>

----------------------------------------------------------------------------
(* The world around.                                                        *)

\* 750 ms have passed since the list was cached.
CacheExpires ==
    /\ cache # NoList
    /\ cache' = NoList
    /\ UNCHANGED <<gameVars, queueVars, shown, worldVars>>

InterfaceGoes ==
    /\ available /\ outages < MaxOutages
    /\ available' = FALSE /\ outages' = outages + 1
    /\ UNCHANGED <<gameVars, queueVars, cache, shown, requests>>

InterfaceReturns ==
    /\ ~ available
    /\ available' = TRUE
    /\ UNCHANGED <<gameVars, queueVars, cache, shown, requests, outages>>

MainStep == RunRegister \/ FinishRegister \/ RunUndo \/ RunBuildChange \/ RunSend

UiNext ==
    \/ \E panel \in Lists : RequestList(panel)
    \/ RequestState \/ RequestRegister \/ RequestUndo \/ RequestBuildChange
    \/ MainStep \/ RunUITask
    \/ CacheExpires \/ InterfaceGoes \/ InterfaceReturns

UiSpec == UiInit /\ [][UiNext]_allVars

----------------------------------------------------------------------------
(* Properties.                                                              *)

\* Nothing queued, nothing to be asked for anew, and no answer lost.
Quiet == mainQueue = <<>> /\ uiQueue = <<>> /\ ~ refreshPending /\ ~ lost

\* When everything is handled the UI shows the game as it is: every list a
\* registration, an undo or a build change touched was asked for after it, and
\* an older answer never arrives last; a change the task interface refused is
\* made good by the next request that reads something.
QuietUiIsCurrent ==
    Quiet => \A p \in {"registered", "build", "undo", "state"} : shown[p] = Current(p)

\* When everything is handled the UI offers nothing that is registered already,
\* though the list may come from the cache.
NothingRegisteredIsOffered ==
    Quiet => \A row \in shown["inventory"] : ~ IsRegisteredEither(row.key, row.item)

\* An undo hits the registration the UI showed when it was asked for, however
\* many registrations and undos are queued before it.
UndoHitsWhatWasShown ==
    [][RegisteredKeys' # RegisteredKeys /\ NextIs("undo")
         => RegisteredKeys' = RegisteredKeys \ {MainTask.key}]_allVars
=============================================================================
