--------------------------- MODULE SettingsStore ---------------------------
(***************************************************************************)
(* The settings between memory and settings.user.json.  A save request of  *)
(* the UI changes them in memory at once and leaves a job for a background *)
(* worker, the newest job replacing one not yet taken.  The worker writes  *)
(* the file by way of a temporary file and a backup, takes the change back *)
(* when that fails, and queues a task that tells the UI.  A game load stops *)
(* the worker.  The process may die at any time; the next start repairs    *)
(* the three files and reads the settings from them.                       *)
(*                                                                         *)
(* Three threads take turns: the UI thread (requests and the feedback      *)
(* tasks), the worker, and the main thread, which announces a load.        *)
(***************************************************************************)
EXTENDS Naturals, FiniteSets

CONSTANTS
    Values,         \* settings that can be chosen
    Default,        \* settings without settings.user.json
    None,           \* no job, nothing recorded
    Missing, Torn,  \* no such file, a file written in part
    MaxRequests,    \* model bound: save requests in a behaviour
    MaxFailures,    \* model bound: file operations that fail ...
    MaxStuckTmps,   \* ... and how many of them may be removals of "tmp"
    MaxLoads,       \* model bound: game loads
    MaxCrashes      \* model bound: crashes

ASSUME ValueAssumption ==
    /\ Default \in Values
    /\ {None, Missing, Torn} \intersect Values = {}
    /\ Missing # Torn
    /\ None \notin [settings : Values, revertTo : Values]
    /\ {MaxRequests, MaxFailures, MaxStuckTmps, MaxLoads, MaxCrashes} \subseteq Nat

VARIABLES
    memory,         \* the settings in use
    shown,          \* the settings the UI shows
    persisted,      \* the last settings known to be on disk
    pending,        \* the job waiting for the worker
    running,        \* g_settingsSaveWorkerRunning
    stopping,       \* g_settingsSaveWorkerStopping
    ui, uiJob,      \* the request being handled
    main,           \* the shutdown of the worker before a load
    worker, job,    \* the worker and the job it took
    saved,          \* did the save of the job succeed?
    files,          \* "final", "tmp" and "bak"
    boot,           \* "up", or the step of the start
    feedback,       \* feedback tasks queued for the UI thread
    undecided,      \* history: values the write under way may leave on disk
    used            \* what is used up of the bounds

memoryVars == <<memory, shown, persisted>>
queueVars  == <<pending, running, stopping>>
vars == <<memoryVars, queueVars, ui, uiJob, main, worker, job, saved, files, boot,
          feedback, undecided, used>>

Jobs == [settings : Values, revertTo : Values]

Whole(f) == files[f] \in Values
Exists(f) == files[f] # Missing

\* What the next start would make of the files.
OnDisk == IF Exists("final") THEN files["final"]
          ELSE IF Whole("tmp") THEN files["tmp"]
          ELSE IF Whole("bak") THEN files["bak"] ELSE Default

Use(what) == used' = [used EXCEPT ![what] = @ + 1]
MayFail == used.failures < MaxFailures /\ Use("failures")
MayFailToRemove ==
    /\ used.failures < MaxFailures /\ used.stuckTmps < MaxStuckTmps
    /\ used' = [used EXCEPT !.failures = @ + 1, !.stuckTmps = @ + 1]

Rename(a, b) == files' = [files EXCEPT ![b] = files[a], ![a] = Missing]
Remove(a) == files' = [files EXCEPT ![a] = Missing]

Init ==
    /\ \E f, b \in {Default, Missing} :
          files = [final |-> f, tmp |-> Missing, bak |-> b]
    /\ memory = OnDisk /\ shown = OnDisk
    /\ persisted = None
    /\ pending = None /\ running = FALSE /\ stopping = FALSE
    /\ ui = "idle" /\ uiJob = None
    /\ main = "idle"
    /\ worker = "none" /\ job = None /\ saved = FALSE
    /\ boot = "up"
    /\ feedback = 0
    /\ undecided = {}
    /\ used = [requests |-> 0, failures |-> 0, stuckTmps |-> 0, loads |-> 0,
               crashes |-> 0]

Up == boot = "up"

----------------------------------------------------------------------------
(* The UI thread: HandleSaveSettingsRequest, QueueSaveSettingsToDisk.       *)

uiRest == <<main, worker, job, saved, files, boot, undecided>>

\* A request for other settings than those in use.
Request(v) ==
    /\ Up /\ ui = "idle"
    /\ v # memory
    /\ used.requests < MaxRequests /\ Use("requests")
    /\ persisted' = IF persisted = None THEN memory ELSE persisted
    /\ uiJob' = [settings |-> v, revertTo |-> persisted']
    /\ ui' = "apply"
    /\ UNCHANGED <<memory, shown, queueVars, feedback, uiRest>>

\* A request for the settings in use: the UI is only shown them again.
RequestUnchanged ==
    /\ Up /\ ui = "idle"
    /\ shown' = memory
    /\ UNCHANGED <<memory, persisted, queueVars, ui, uiJob, feedback, used, uiRest>>

ApplyToMemory ==
    /\ Up /\ ui = "apply"
    /\ memory' = uiJob.settings
    /\ ui' = "show"
    /\ UNCHANGED <<shown, persisted, queueVars, uiJob, feedback, used, uiRest>>

ShowNew ==
    /\ Up /\ ui = "show"
    /\ shown' = memory
    /\ ui' = "unstop"
    /\ UNCHANGED <<memory, persisted, queueVars, uiJob, feedback, used, uiRest>>

ClearStopping ==
    /\ Up /\ ui = "unstop"
    /\ stopping' = FALSE
    /\ ui' = "put"
    /\ UNCHANGED <<memoryVars, pending, running, uiJob, feedback, used, uiRest>>

\* Mutant: an older job is not replaced by the newer one.
PutFirstJob ==
    /\ Up /\ ui = "put"
    /\ pending' = IF pending = None THEN uiJob ELSE pending
    /\ ui' = "claim"
    /\ UNCHANGED <<memoryVars, running, stopping, uiJob, feedback, used, uiRest>>

PutJob ==
    /\ Up /\ ui = "put"
    /\ pending' = uiJob
    /\ ui' = "claim"
    /\ UNCHANGED <<memoryVars, running, stopping, uiJob, feedback, used, uiRest>>

\* compare_exchange_strong: whoever turns running on starts the thread.
ClaimWorker ==
    /\ Up /\ ui = "claim"
    /\ running' = TRUE
    /\ ui' = IF running THEN "idle" ELSE "start"
    /\ uiJob' = None
    /\ UNCHANGED <<memoryVars, pending, stopping, feedback, used, uiRest>>

\* Under the worker mutex: join the last thread, start a new one.
StartWorker ==
    /\ Up /\ ui = "start"
    /\ worker = "none"
    /\ worker' = "check"
    /\ ui' = "idle"
    /\ UNCHANGED <<memoryVars, queueVars, uiJob, feedback, used,
                   main, job, saved, files, boot, undecided>>

ShowFeedback ==
    /\ Up /\ ui = "idle"
    /\ feedback > 0
    /\ feedback' = feedback - 1
    /\ shown' = memory
    /\ UNCHANGED <<memory, persisted, queueVars, ui, uiJob, used, uiRest>>

----------------------------------------------------------------------------
(* The main thread: ShutdownSettingsWorker before a game is loaded.         *)

mainRest == <<memoryVars, ui, uiJob, worker, job, saved, files, boot, feedback, undecided>>

AnnounceLoad ==
    /\ Up /\ main = "idle"
    /\ used.loads < MaxLoads /\ Use("loads")
    /\ stopping' = TRUE
    /\ main' = "drop"
    /\ UNCHANGED <<pending, running, mainRest>>

DropPending ==
    /\ Up /\ main = "drop"
    /\ pending' = None
    /\ main' = "join"
    /\ UNCHANGED <<running, stopping, used, mainRest>>

JoinWorker ==
    /\ Up /\ main = "join"
    /\ worker = "none"
    /\ main' = "finish"
    /\ UNCHANGED <<queueVars, used, mainRest>>

FinishShutdown ==
    /\ Up /\ main = "finish"
    /\ running' = FALSE
    /\ main' = "idle"
    /\ UNCHANGED <<pending, stopping, used, mainRest>>

----------------------------------------------------------------------------
(* The worker: RunSettingsSaveWorkerLoop and SaveToDisk.                    *)

workerRest == <<ui, uiJob, main, boot>>
writeRest  == <<memoryVars, queueVars, job, feedback, undecided, workerRest>>

CheckStopping ==
    /\ Up /\ worker = "check"
    /\ worker' = IF stopping THEN "stop" ELSE "take"
    /\ UNCHANGED <<saved, files, used, writeRest>>

StopWorker ==
    /\ Up /\ worker = "stop"
    /\ running' = FALSE
    /\ worker' = "none"
    /\ UNCHANGED <<memoryVars, pending, stopping, job, saved, files, feedback,
                   undecided, used, workerRest>>

TakePending ==
    /\ Up /\ worker = "take"
    /\ pending # None
    /\ job' = pending
    /\ pending' = None
    /\ undecided' = {OnDisk, pending.settings}
    /\ worker' = "write"
    /\ UNCHANGED <<memoryVars, running, stopping, saved, files, feedback, used, workerRest>>

\* Mutant: the worker ends without saying so.
EndUnnoticed ==
    /\ Up /\ worker = "take" /\ pending = None
    /\ worker' = "none"
    /\ UNCHANGED <<memoryVars, queueVars, job, saved, files, feedback, undecided, used,
                   workerRest>>

NothingPending ==
    /\ Up /\ worker = "take"
    /\ pending = None
    /\ running' = FALSE
    /\ worker' = "none"
    /\ UNCHANGED <<memoryVars, pending, stopping, job, saved, files, feedback,
                   undecided, used, workerRest>>

\* Opening truncates the temporary file ...
OpenTmp ==
    /\ Up /\ worker = "write"
    /\ \/ /\ files' = [files EXCEPT !["tmp"] = Torn]
          /\ worker' = "flush"
          /\ UNCHANGED <<saved, used>>
       \/ /\ MayFail
          /\ worker' = "settle" /\ saved' = FALSE
          /\ UNCHANGED files
    /\ UNCHANGED writeRest

\* ... and it is whole once everything is written.
FlushTmp ==
    /\ Up /\ worker = "flush"
    /\ \/ /\ files' = [files EXCEPT !["tmp"] = job.settings]
          /\ worker' = "rotate"
          /\ UNCHANGED <<saved, used>>
       \/ /\ MayFail
          /\ files' \in {files, [files EXCEPT !["tmp"] = Missing]}
          /\ worker' = "settle" /\ saved' = FALSE
    /\ UNCHANGED writeRest

\* The old backup makes room for the file that is about to be replaced.
RemoveBackup ==
    /\ Up /\ worker = "rotate"
    /\ \/ ~ Exists("final") /\ worker' = "commit" /\ UNCHANGED <<files, used>>
       \/ Exists("final") /\ Remove("bak") /\ worker' = "keep" /\ UNCHANGED used
       \/ Exists("final") /\ MayFail /\ worker' = "keep" /\ UNCHANGED files
    /\ UNCHANGED <<saved, writeRest>>

KeepBackup ==
    /\ Up /\ worker = "keep"
    /\ worker' = "commit"
    /\ \/ Rename("final", "bak") /\ UNCHANGED used
       \/ MayFail /\ UNCHANGED files
    /\ UNCHANGED <<saved, writeRest>>

Commit ==
    /\ Up /\ worker = "commit"
    /\ \/ /\ Rename("tmp", "final")
          /\ worker' = "settle" /\ saved' = TRUE
          /\ UNCHANGED used
       \/ /\ MayFail
          /\ worker' = "discard" /\ saved' = FALSE
          /\ UNCHANGED files
    /\ UNCHANGED writeRest

DiscardTmp ==
    /\ Up /\ worker = "discard"
    /\ worker' = "restore"
    /\ \/ Remove("tmp") /\ UNCHANGED used
       \/ MayFailToRemove /\ UNCHANGED files
    /\ UNCHANGED <<saved, writeRest>>

RestoreBackup ==
    /\ Up /\ worker = "restore"
    /\ worker' = "settle"
    /\ \/ Exists("final") /\ UNCHANGED <<files, used>>
       \/ ~ Exists("final") /\ ~ Exists("bak") /\ UNCHANGED <<files, used>>
       \/ ~ Exists("final") /\ Exists("bak") /\ Rename("bak", "final") /\ UNCHANGED used
       \/ ~ Exists("final") /\ Exists("bak") /\ MayFail /\ UNCHANGED files
    /\ UNCHANGED <<saved, writeRest>>

\* Mutant: the UI does not hear of a change taken back.
SettleSilently ==
    /\ Up /\ worker = "settle"
    /\ IF saved THEN persisted' = job.settings /\ memory' = memory
                ELSE memory' = job.revertTo /\ persisted' = persisted
    /\ job' = None /\ undecided' = {} /\ worker' = "check"
    /\ feedback' = IF saved THEN feedback + 1 ELSE feedback
    /\ UNCHANGED <<shown, queueVars, saved, files, used, workerRest>>

\* RecordPersistedSettings, or RevertSettingsAfterSaveFailure.
Settle ==
    /\ Up /\ worker = "settle"
    /\ IF saved THEN persisted' = job.settings /\ memory' = memory
                ELSE memory' = job.revertTo /\ persisted' = persisted
    /\ job' = None
    /\ undecided' = {}
    /\ feedback' = feedback + 1
    /\ worker' = "check"
    /\ UNCHANGED <<shown, queueVars, saved, files, used, workerRest>>

----------------------------------------------------------------------------
(* A crash, and the next start: RepairUserSettingsFiles, LoadFromDisk.      *)

bootRest == <<memoryVars, queueVars, ui, uiJob, main, worker, job, saved, feedback, undecided>>

Crash ==
    /\ used.crashes < MaxCrashes /\ Use("crashes")
    /\ boot' = "recover"
    /\ memory' = Default /\ shown' = Default /\ persisted' = None
    /\ pending' = None /\ running' = FALSE /\ stopping' = FALSE
    /\ ui' = "idle" /\ uiJob' = None /\ main' = "idle"
    /\ worker' = "none" /\ job' = None /\ saved' = FALSE /\ feedback' = 0
    /\ UNCHANGED <<files, undecided>>

\* Mutant: a temporary file is recovered without being parsed.
RecoverAnyTmp ==
    /\ boot = "recover"
    /\ boot' = "clean"
    /\ \/ (Exists("final") \/ ~ Exists("tmp")) /\ UNCHANGED files
       \/ ~ Exists("final") /\ Exists("tmp") /\ Rename("tmp", "final")
    /\ UNCHANGED <<used, bootRest>>

RecoverTmp ==
    /\ boot = "recover"
    /\ boot' = "clean"
    /\ \/ (Exists("final") \/ ~ Whole("tmp")) /\ UNCHANGED <<files, used>>
       \/ ~ Exists("final") /\ Whole("tmp") /\ Rename("tmp", "final") /\ UNCHANGED used
       \/ ~ Exists("final") /\ Whole("tmp") /\ MayFail /\ UNCHANGED files
    /\ UNCHANGED bootRest

CleanTmp ==
    /\ boot = "clean"
    /\ boot' = "restore"
    /\ \/ Remove("tmp") /\ UNCHANGED used
       \/ Exists("tmp") /\ MayFailToRemove /\ UNCHANGED files
    /\ UNCHANGED bootRest

RestoreAtStart ==
    /\ boot = "restore"
    /\ boot' = "load"
    /\ \/ (Exists("final") \/ ~ Exists("bak")) /\ UNCHANGED <<files, used>>
       \/ ~ Exists("final") /\ Exists("bak") /\ Rename("bak", "final") /\ UNCHANGED used
       \/ ~ Exists("final") /\ Exists("bak") /\ MayFail /\ UNCHANGED files
    /\ UNCHANGED bootRest

LoadSettings ==
    /\ boot = "load"
    /\ boot' = "up"
    /\ memory' = IF Exists("final") THEN files["final"] ELSE Default
    /\ shown' = memory'
    /\ undecided' = {}
    /\ UNCHANGED <<persisted, queueVars, ui, uiJob, main, worker, job, saved, files,
                   feedback, used>>

----------------------------------------------------------------------------
UiStep == ApplyToMemory \/ ShowNew \/ ClearStopping \/ PutJob \/ ClaimWorker \/ StartWorker
            \/ ShowFeedback
MainStep == DropPending \/ JoinWorker \/ FinishShutdown
WorkerStep == CheckStopping \/ StopWorker \/ TakePending \/ NothingPending \/ OpenTmp
                \/ FlushTmp \/ RemoveBackup \/ KeepBackup \/ Commit \/ DiscardTmp
                \/ RestoreBackup \/ Settle
BootStep == RecoverTmp \/ CleanTmp \/ RestoreAtStart \/ LoadSettings

Next == (\E v \in Values : Request(v)) \/ RequestUnchanged \/ UiStep
          \/ AnnounceLoad \/ MainStep \/ WorkerStep \/ Crash \/ BootStep

\* Threads that can go on do; requests, loads and crashes need not come.
Fairness == WF_vars(UiStep) /\ WF_vars(MainStep) /\ WF_vars(WorkerStep) /\ WF_vars(BootStep)

Spec == Init /\ [][Next]_vars /\ Fairness

----------------------------------------------------------------------------
(* Properties.                                                              *)

\* The file is crash-safe: at every point of a save, of a failing save and of
\* the repair at a start, a start would read the settings of the last save or,
\* during one, those from before it, never a file written in part.
Durable == INSTANCE DurableFile WITH content <- OnDisk
FileIsDurable == Durable!Spec

Settled == /\ Up /\ ui = "idle" /\ main = "idle" /\ worker = "none" /\ pending = None
           /\ feedback = 0

\* When all is done and nothing failed, the settings in use are those the next
\* start will read, whatever requests overtook each other and the worker.
SettledSettingsAgree ==
    Settled /\ used.failures = 0 /\ used.loads = 0 => memory = OnDisk

\* When all is done the UI shows the settings in use, also when a failed save
\* took them back while a newer request was handled.
SettledUiShowsMemory == Settled => shown = memory

\* Every change asked for is eventually dealt with: no job is left behind by a
\* worker that ends just as the request finds it running, as long as no game load
\* stops the worker (PrismaUISettings.cpp:114-151).
SettledUnlessLoading == []<>(Settled \/ used.loads > 0)
=============================================================================
