------------------------ MODULE SettingsStoreProofs ------------------------
(***************************************************************************)
(* The settings file is crash-safe, and memory, file and UI agree when all *)
(* is done: for any settings and any number of requests, loads, crashes    *)
(* and, where stated, failing file operations.                             *)
(***************************************************************************)
EXTENDS SettingsStore, TLAPS

Names == {"final", "tmp", "bak"}

\* The worker has taken a job and not yet settled it.
Writing == worker \in {"write", "flush", "rotate", "keep", "commit", "discard",
                       "restore", "settle"}

TypeInv ==
    /\ memory \in Values /\ persisted \in Values \cup {None}
    /\ feedback \in Nat /\ saved \in BOOLEAN
    /\ {pending, uiJob, job} \subseteq Jobs \cup {None}
    /\ used \in [requests : Nat, failures : Nat, stuckTmps : Nat, loads : Nat,
                 crashes : Nat]
    /\ ui \in {"apply", "show", "unstop", "put"} => uiJob \in Jobs
    /\ Writing => job \in Jobs
    /\ ui \in {"idle", "apply", "show", "unstop", "put", "claim", "start"}
    /\ boot # "up" => ui = "idle" /\ worker = "none" /\ pending = None

\* No file but the temporary one is ever written in part, and that one is
\* whole before it may replace the settings.
FilesInv ==
    /\ files \in [Names -> Values \cup {Missing, Torn}]
    /\ files["final"] # Torn /\ files["bak"] # Torn
    /\ worker = "flush" => files["tmp"] = Torn
    /\ worker \in {"rotate", "keep", "commit"} => files["tmp"] = job.settings
    /\ worker = "keep" => Exists("final")

----------------------------------------------------------------------------
(* Types.                                                                   *)

LEMMA InitTypes == Init => TypeInv /\ FilesInv
<1> SUFFICES ASSUME Init PROVE TypeInv /\ FilesInv
  OBVIOUS
<1>1. PICK f, b \in {Default, Missing} :
         files = [final |-> f, tmp |-> Missing, bak |-> b]
  BY DEF Init
<1>2. FilesInv
  BY <1>1, ValueAssumption DEF Init, FilesInv, Names, Exists, ValueAssumption
<1>3. OnDisk \in Values
  BY <1>1, ValueAssumption DEF OnDisk, Exists, Whole, ValueAssumption
<1> QED BY <1>2, <1>3 DEF Init, TypeInv, Writing

\* Where used changes it stays well-formed and no count goes down.
Counted ==
    /\ used' \in [requests : Nat, failures : Nat, stuckTmps : Nat, loads : Nat,
                  crashes : Nat]
    /\ used'.failures >= used.failures /\ used'.loads >= used.loads

LEMMA UsesCount ==
    ASSUME TypeInv,
           \/ Use("requests") \/ Use("loads") \/ Use("crashes") \/ MayFail
           \/ MayFailToRemove \/ UNCHANGED used
    PROVE  Counted
<1> DEFINE U == [requests : Nat, failures : Nat, stuckTmps : Nat, loads : Nat,
                 crashes : Nat]
<1>1. used \in U
  BY DEF TypeInv
<1>2. CASE Use("requests")
  BY <1>1, <1>2 DEF Use, Counted
<1>3. CASE Use("loads")
  BY <1>1, <1>3 DEF Use, Counted
<1>4. CASE Use("crashes")
  BY <1>1, <1>4 DEF Use, Counted
<1>5. CASE Use("failures")
  BY <1>1, <1>5 DEF Use, Counted
<1>6. CASE MayFailToRemove
  <2>1. PICK r : r = [used EXCEPT !.failures = @ + 1]
    OBVIOUS
  <2>2. r \in U /\ r.failures = used.failures + 1 /\ r.loads = used.loads
    BY <1>1, <2>1
  <2>3. r.stuckTmps = used.stuckTmps
    BY <1>1, <2>1
  <2>4. used' = [r EXCEPT !.stuckTmps = @ + 1]
    BY <1>6, <2>1, <2>3 DEF MayFailToRemove
  <2> QED BY <1>1, <2>2, <2>4 DEF Counted
<1>7. CASE UNCHANGED used
  BY <1>1, <1>7 DEF Counted
<1> QED BY <1>2, <1>3, <1>4, <1>5, <1>6, <1>7 DEF MayFail

LEMMA UiTypes ==
    ASSUME TypeInv, (\E v \in Values : Request(v)) \/ RequestUnchanged \/ UiStep
    PROVE  TypeInv' /\ Counted
<1>1. ASSUME NEW v \in Values, Request(v) PROVE TypeInv' /\ Counted
  <2>1. uiJob' \in Jobs
    BY <1>1 DEF Request, TypeInv, Jobs
  <2> QED BY <1>1, <2>1, UsesCount DEF Request, TypeInv, queueVars, uiRest, Counted,
                                       Writing, Up
<1>2. ASSUME RequestUnchanged \/ UiStep PROVE TypeInv'
  BY <1>2 DEF RequestUnchanged, UiStep, ApplyToMemory, ShowNew, ClearStopping, PutJob,
              ClaimWorker, StartWorker, ShowFeedback, TypeInv, queueVars, memoryVars,
              uiRest, Writing, Jobs, Up
<1>3. ASSUME RequestUnchanged \/ UiStep PROVE Counted
  <2>1. UNCHANGED used
    BY <1>3 DEF RequestUnchanged, UiStep, ApplyToMemory, ShowNew, ClearStopping, PutJob,
              ClaimWorker, StartWorker, ShowFeedback
  <2> QED BY <2>1, UsesCount
<1> QED BY <1>1, <1>2, <1>3

LEMMA MainTypes ==
    ASSUME TypeInv, AnnounceLoad \/ MainStep
    PROVE  TypeInv' /\ Counted
<1>1. Counted
  BY UsesCount DEF AnnounceLoad, MainStep, DropPending, JoinWorker, FinishShutdown
<1> QED BY <1>1 DEF AnnounceLoad, MainStep, DropPending, JoinWorker, FinishShutdown,
                    TypeInv, queueVars, memoryVars, mainRest, Writing, Counted, Up

LEMMA WorkerTypes ==
    ASSUME TypeInv, WorkerStep
    PROVE  TypeInv' /\ Counted
<1>1. Counted
  BY UsesCount DEF WorkerStep, CheckStopping, StopWorker, TakePending, NothingPending,
     OpenTmp, FlushTmp, RemoveBackup, KeepBackup, Commit, DiscardTmp, RestoreBackup, Settle
<1> USE DEF TypeInv, queueVars, memoryVars, workerRest, writeRest, Writing, Counted, Up
<1>2. CASE CheckStopping \/ StopWorker \/ NothingPending
  BY <1>1, <1>2 DEF CheckStopping, StopWorker, NothingPending
<1>3. CASE TakePending
  BY <1>1, <1>3 DEF TakePending
<1>4. CASE OpenTmp \/ FlushTmp \/ RemoveBackup \/ KeepBackup
  BY <1>1, <1>4 DEF OpenTmp, FlushTmp, RemoveBackup, KeepBackup
<1>5. CASE Commit \/ DiscardTmp \/ RestoreBackup
  BY <1>1, <1>5 DEF Commit, DiscardTmp, RestoreBackup
<1>6. CASE Settle
  BY <1>1, <1>6 DEF Settle, Jobs
<1> QED BY <1>2, <1>3, <1>4, <1>5, <1>6 DEF WorkerStep

LEMMA BootTypes ==
    ASSUME TypeInv, FilesInv, Crash \/ BootStep
    PROVE  TypeInv' /\ Counted
<1>1. Counted
  BY UsesCount DEF Crash, BootStep, RecoverTmp, CleanTmp, RestoreAtStart, LoadSettings
<1>2. CASE Crash
  BY <1>1, <1>2, ValueAssumption DEF Crash, TypeInv, Writing, Counted, ValueAssumption
<1>4. CASE RecoverTmp \/ CleanTmp \/ RestoreAtStart
  BY <1>1, <1>4 DEF RecoverTmp, CleanTmp, RestoreAtStart, TypeInv, bootRest, memoryVars,
                    queueVars, Writing, Counted
<1>3. CASE LoadSettings
  <2>1. memory' \in Values
    BY <1>3, ValueAssumption DEF LoadSettings, Exists, FilesInv, Names, ValueAssumption
  <2> QED BY <1>1, <1>3, <2>1 DEF LoadSettings, TypeInv, queueVars, Writing, Counted
<1> QED BY <1>2, <1>3, <1>4 DEF BootStep

----------------------------------------------------------------------------
(* The files.                                                               *)

\* Steps that touch neither the files nor the worker's place in a save.
LEMMA FilesRest ==
    ASSUME FilesInv, UNCHANGED files,
           UNCHANGED <<worker, job>> \/ ~ Writing'
    PROVE  FilesInv'
  BY DEF FilesInv, Exists, Writing

LEMMA WriteFiles ==
    ASSUME TypeInv, FilesInv, WorkerStep
    PROVE  FilesInv'
<1> USE DEF writeRest, Rename, Remove, Exists, Whole, Names
<1>1. CASE CheckStopping \/ StopWorker \/ NothingPending \/ Settle
  BY <1>1, FilesRest DEF CheckStopping, StopWorker, NothingPending, Settle, Writing
<1>2. CASE TakePending \/ OpenTmp
  BY <1>2, ValueAssumption DEF TakePending, OpenTmp, FilesInv, ValueAssumption
<1>3. CASE FlushTmp
  <2>1. job.settings \in Values
    BY <1>3 DEF FlushTmp, TypeInv, Writing, Jobs
  <2> QED BY <1>3, <2>1 DEF FlushTmp, FilesInv
<1>4. CASE RemoveBackup
  BY <1>4, ValueAssumption DEF RemoveBackup, FilesInv, ValueAssumption
<1>5. CASE KeepBackup
  BY <1>5, ValueAssumption DEF KeepBackup, FilesInv, ValueAssumption
<1>6. CASE Commit
  <2>1. job.settings \in Values
    BY <1>6 DEF Commit, TypeInv, Writing, Jobs
  <2> QED BY <1>6, <2>1, ValueAssumption DEF Commit, FilesInv, ValueAssumption
<1>7. CASE DiscardTmp
  BY <1>7, ValueAssumption DEF DiscardTmp, FilesInv, ValueAssumption
<1>8. CASE RestoreBackup
  BY <1>8, ValueAssumption DEF RestoreBackup, FilesInv, ValueAssumption
<1> QED BY <1>1, <1>2, <1>3, <1>4, <1>5, <1>6, <1>7, <1>8 DEF WorkerStep

LEMMA BootFiles ==
    ASSUME TypeInv, FilesInv, Crash \/ BootStep
    PROVE  FilesInv'
<1> USE DEF bootRest, Rename, Remove, Exists, Whole, Names
<1>1. CASE Crash \/ LoadSettings
  BY <1>1, FilesRest DEF Crash, LoadSettings, Writing
<1>2. CASE RecoverTmp
  BY <1>2, ValueAssumption DEF RecoverTmp, FilesInv, TypeInv, ValueAssumption
<1>3. CASE CleanTmp
  BY <1>3, ValueAssumption DEF CleanTmp, FilesInv, TypeInv, ValueAssumption
<1>4. CASE RestoreAtStart
  BY <1>4, ValueAssumption DEF RestoreAtStart, FilesInv, TypeInv, ValueAssumption
<1> QED BY <1>1, <1>2, <1>3, <1>4 DEF BootStep

LEMMA UiAndMainFiles ==
    ASSUME FilesInv,
           \/ \E v \in Values : Request(v)
           \/ RequestUnchanged \/ UiStep \/ AnnounceLoad \/ MainStep
    PROVE  FilesInv' /\ UNCHANGED files
<1>1. UNCHANGED files
  BY DEF Request, RequestUnchanged, UiStep, ApplyToMemory, ShowNew, ClearStopping,
         PutJob, ClaimWorker, StartWorker, ShowFeedback, uiRest, AnnounceLoad, MainStep,
         DropPending, JoinWorker, FinishShutdown, mainRest
<1>2. UNCHANGED <<worker, job>> \/ ~ Writing'
  BY DEF Request, RequestUnchanged, UiStep, ApplyToMemory, ShowNew, ClearStopping,
         PutJob, ClaimWorker, StartWorker, ShowFeedback, uiRest, AnnounceLoad, MainStep,
         DropPending, JoinWorker, FinishShutdown, mainRest, Writing
<1> QED BY <1>1, <1>2, FilesRest

----------------------------------------------------------------------------
(* Crash safety.  What a start would read is OnDisk at every step; what it  *)
(* would read without the temporary file is Fallback.  Both must be among   *)
(* the values the write under way may leave, and when none is, a whole      *)
(* temporary file must not be what the settings depend on.                  *)

Fallback == IF Whole("bak") THEN files["bak"] ELSE Default

\* The next save may tear the temporary file.
Calm == Exists("final") \/ ~ Whole("tmp")

\* Either one operation fails at most, or every removal of "tmp" succeeds.
RemovableTmp == MaxFailures <= 1 \/ MaxStuckTmps = 0

DurableInv ==
    /\ undecided # {} => /\ OnDisk \in undecided
                         /\ ~ Exists("final") => Fallback \in undecided
    /\ Writing => job.settings \in undecided
    /\ boot = "up" /\ ~ Writing => undecided = {}
    /\ undecided = {} \/ worker \in {"write", "restore", "settle"}
          \/ boot \in {"restore", "load"} => Calm
    /\ worker = "discard" \/ (boot = "clean" /\ ~ Calm) => used.failures >= 1
    /\ used.stuckTmps \in 0..MaxStuckTmps

AllInv == TypeInv /\ FilesInv /\ DurableInv

\* What the files of names final, tmp and bak hold, by cases.
LEMMA DiskCases ==
    ASSUME FilesInv
    PROVE  /\ Exists("final") => OnDisk = files["final"]
           /\ ~ Exists("final") /\ Whole("tmp") => OnDisk = files["tmp"]
           /\ ~ Exists("final") /\ ~ Whole("tmp") => OnDisk = Fallback
           /\ Exists("final") => files["final"] \in Values
           /\ Exists("bak") => files["bak"] \in Values
           /\ ~ Exists("bak") => ~ Whole("bak")
           /\ Whole("tmp") => Exists("tmp")
           /\ OnDisk \in Values /\ Fallback \in Values
  BY ValueAssumption DEF OnDisk, Fallback, Exists, Whole, FilesInv, Names, ValueAssumption

LEMMA StuckBound ==
    ASSUME DurableInv,
           \/ \E what \in {"requests", "loads", "crashes", "failures"} : Use(what)
           \/ MayFailToRemove \/ UNCHANGED used,
           TypeInv
    PROVE  used'.stuckTmps \in 0..MaxStuckTmps
<1> USE DEF DurableInv, TypeInv
<1>1. CASE Use("requests") \/ Use("loads")
  BY <1>1 DEF Use
<1>2. CASE Use("crashes") \/ Use("failures")
  BY <1>2 DEF Use
<1>3. CASE MayFailToRemove
  BY <1>3, ValueAssumption DEF MayFailToRemove, ValueAssumption
<1> QED BY <1>1, <1>2, <1>3

\* The step of the abstract file that a step of the program is.
FileStep == Durable!Next \/ UNCHANGED <<OnDisk, undecided>>

LEMMA OnDiskSame ==
    ASSUME UNCHANGED files
    PROVE  UNCHANGED <<OnDisk, Fallback, Calm, Exists("final"), Exists("bak"), Whole("tmp")>>
  BY DEF OnDisk, Fallback, Calm, Exists, Whole

\* Requests and the main thread leave the file and the worker's save alone.
LEMMA UiAndMainDurable ==
    ASSUME AllInv,
           \/ \E v \in Values : Request(v)
           \/ RequestUnchanged \/ UiStep \/ AnnounceLoad \/ MainStep
    PROVE  DurableInv' /\ FileStep
<1>1. /\ UNCHANGED <<files, undecided, boot, job>>
      /\ worker' = worker \/ (worker = "none" /\ worker' = "check")
      /\ Use("requests") \/ Use("loads") \/ UNCHANGED used
  BY DEF Request, RequestUnchanged, UiStep, ApplyToMemory, ShowNew, ClearStopping,
         PutJob, ClaimWorker, StartWorker, ShowFeedback, uiRest, AnnounceLoad, MainStep,
         DropPending, JoinWorker, FinishShutdown, mainRest
<1>2. used'.stuckTmps \in 0..MaxStuckTmps /\ used'.failures >= used.failures
  BY <1>1, StuckBound, UsesCount DEF AllInv, Counted
<1>3. used.failures \in Nat /\ used'.failures \in Nat
  BY <1>1, UsesCount DEF AllInv, TypeInv, Counted
<1>4. UNCHANGED <<OnDisk, Fallback, Calm, Exists("final")>>
  BY <1>1, OnDiskSame
<1>5. UNCHANGED Writing
  BY <1>1 DEF Writing
<1> QED BY <1>1, <1>2, <1>3, <1>4, <1>5 DEF AllInv, DurableInv, FileStep

\* Taking a job begins the abstract write, settling it ends it.
LEMMA TakeDurable ==
    ASSUME AllInv, CheckStopping \/ StopWorker \/ TakePending \/ NothingPending \/ Settle
    PROVE  DurableInv' /\ FileStep
<1>1. /\ UNCHANGED <<files, boot, used>> /\ boot = "up"
      /\ UNCHANGED <<OnDisk, Fallback, Calm, Exists("final")>>
  BY OnDiskSame DEF CheckStopping, StopWorker, TakePending, NothingPending, Settle, Up,
                    workerRest, writeRest
<1>2. CASE CheckStopping \/ StopWorker \/ NothingPending
  <2>1. ~ Writing /\ ~ Writing' /\ UNCHANGED undecided
    BY <1>2 DEF CheckStopping, StopWorker, NothingPending, Writing, writeRest
  <2> QED BY <1>1, <2>1 DEF AllInv, DurableInv, FileStep, Writing
<1>3. CASE TakePending
  <2>1. /\ ~ Writing /\ Writing' /\ worker' = "write" /\ job' = pending
        /\ undecided' = {OnDisk, pending.settings} /\ pending \in Jobs
    BY <1>3 DEF TakePending, Writing, AllInv, TypeInv
  <2>2. undecided = {} /\ pending.settings \in Values
    BY <1>1, <2>1 DEF AllInv, DurableInv, Jobs
  <2>3. ~ Exists("final") => Fallback = OnDisk
    BY <2>2, DiskCases DEF AllInv, DurableInv, Calm
  <2>4. Durable!Begin(pending.settings)
    BY <1>1, <2>1, <2>2 DEF Durable!Begin
  <2> QED BY <1>1, <2>1, <2>2, <2>3, <2>4
          DEF AllInv, DurableInv, FileStep, Durable!Next
<1>4. CASE Settle
  <2>1. Writing /\ ~ Writing' /\ undecided' = {} /\ worker = "settle" /\ worker' = "check"
    BY <1>4 DEF Settle, Writing
  <2>2. undecided # {} /\ Calm
    BY <2>1 DEF AllInv, DurableInv
  <2>3. Durable!End
    BY <1>1, <2>1, <2>2 DEF Durable!End
  <2> QED BY <1>1, <2>1, <2>2, <2>3 DEF AllInv, DurableInv, FileStep, Durable!Next
<1> QED BY <1>2, <1>3, <1>4

\* A step within a save keeps its promise if it leaves on disk, with and
\* without the temporary file, what the save may leave.
LEMMA WithinSave ==
    ASSUME AllInv, Writing, Writing', worker' # "write", FilesInv',
           UNCHANGED <<undecided, job, boot>>, Counted,
           used'.stuckTmps \in 0..MaxStuckTmps,
           OnDisk' \in undecided,
           ~ Exists("final")' => Fallback' \in undecided,
           worker' \in {"restore", "settle"} => Calm',
           worker' = "discard" => used'.failures >= 1
    PROVE  DurableInv' /\ FileStep
<1>1. boot = "up" /\ undecided # {}
  BY DEF AllInv, DurableInv, TypeInv, Writing
<1>2. Durable!Progress
  BY DEF Durable!Progress
<1> QED BY <1>1, <1>2 DEF AllInv, DurableInv, FileStep, Durable!Next, Writing

\* Before the file is replaced only the temporary file is written.
LEMMA WriteTmpDurable ==
    ASSUME AllInv, FilesInv', OpenTmp \/ FlushTmp
    PROVE  DurableInv' /\ FileStep
<1>1. /\ Writing /\ Writing' /\ worker' # "write" /\ worker' \notin {"restore", "discard"}
      /\ UNCHANGED <<undecided, job, boot>>
      /\ MayFail \/ UNCHANGED used
  BY DEF OpenTmp, FlushTmp, Writing, writeRest, workerRest
<1>2. Counted /\ used'.stuckTmps \in 0..MaxStuckTmps
  BY <1>1, UsesCount, StuckBound DEF MayFail, AllInv
<1>3. /\ undecided # {} /\ OnDisk \in undecided /\ job.settings \in undecided
      /\ ~ Exists("final") => Fallback \in undecided
  BY <1>1 DEF AllInv, DurableInv
<1>4. UNCHANGED <<files["final"], files["bak"], Exists("final"), Fallback>>
  BY DEF OpenTmp, FlushTmp, Exists, Fallback, Whole, AllInv, FilesInv, Names
<1>5. OnDisk' \in undecided /\ (worker' = "settle" => Calm')
  <2>1. CASE Exists("final")
    <3>1. OnDisk' = OnDisk
      BY <1>4, <2>1 DEF OnDisk
    <3> QED BY <1>3, <1>4, <2>1, <3>1 DEF Calm
  <2>2. CASE ~ Exists("final") /\ ~ Whole("tmp")'
    <3>1. OnDisk' = Fallback
      BY <1>4, <2>2 DEF OnDisk, Fallback
    <3> QED BY <1>3, <2>2, <3>1 DEF Calm
  <2>3. CASE ~ Exists("final") /\ Whole("tmp")'
    <3>1. ~ Whole("tmp")
      BY <2>3, ValueAssumption
         DEF OpenTmp, FlushTmp, AllInv, FilesInv, DurableInv, Calm, Whole, ValueAssumption
    <3>2. files'["tmp"] = job.settings /\ worker' = "rotate"
      BY <2>3, <3>1, ValueAssumption
         DEF OpenTmp, FlushTmp, Whole, AllInv, FilesInv, Names, ValueAssumption
    <3>3. OnDisk' = files'["tmp"]
      BY <1>4, <2>3 DEF OnDisk
    <3> QED BY <1>3, <3>2, <3>3
  <2> QED BY <2>1, <2>2, <2>3
<1> QED BY <1>1, <1>2, <1>3, <1>4, <1>5, WithinSave

\* The settings become the backup, and the temporary file the settings.
LEMMA ReplaceDurable ==
    ASSUME AllInv, FilesInv', RemoveBackup \/ KeepBackup \/ Commit
    PROVE  DurableInv' /\ FileStep
<1>1. /\ Writing /\ Writing' /\ worker' \notin {"write", "restore"}
      /\ UNCHANGED <<undecided, job, boot>>
      /\ MayFail \/ UNCHANGED used
  BY DEF RemoveBackup, KeepBackup, Commit, Writing, writeRest, workerRest
<1>2. Counted /\ used'.stuckTmps \in 0..MaxStuckTmps
  BY <1>1, UsesCount, StuckBound DEF MayFail, AllInv
<1>3. /\ undecided # {} /\ OnDisk \in undecided /\ job.settings \in undecided
      /\ ~ Exists("final") => Fallback \in undecided
  BY <1>1 DEF AllInv, DurableInv
<1>4. files["tmp"] = job.settings /\ files["tmp"] \in Values
  BY <1>1 DEF RemoveBackup, KeepBackup, Commit, AllInv, FilesInv, TypeInv, Jobs
<1> USE DEF Rename, Remove, Names
<1>5. CASE RemoveBackup
  <2>1. UNCHANGED <<files["final"], files["tmp"], Exists("final")>>
    BY <1>5 DEF RemoveBackup, Exists, AllInv, FilesInv
  <2>2. Exists("final") => OnDisk' = OnDisk
    BY <2>1 DEF OnDisk
  <2>3. ~ Exists("final") => UNCHANGED files
    BY <1>5 DEF RemoveBackup
  <2>4. OnDisk' \in undecided /\ (~ Exists("final")' => Fallback' \in undecided)
    BY <1>3, <2>1, <2>2, <2>3, OnDiskSame
  <2>5. worker' \notin {"discard", "settle"}
    BY <1>5 DEF RemoveBackup
  <2> QED BY <1>1, <1>2, <2>4, <2>5, WithinSave
<1>6. CASE KeepBackup
  <2>1. worker' \notin {"discard", "settle"}
    BY <1>6 DEF KeepBackup
  <2>2. CASE UNCHANGED files
    BY <1>1, <1>2, <1>3, <2>1, <2>2, OnDiskSame, WithinSave
  <2>3. CASE files' = [files EXCEPT !["bak"] = files["final"], !["final"] = Missing]
    <3>1. /\ files'["bak"] = files["final"] /\ files'["final"] = Missing
          /\ files'["tmp"] = files["tmp"]
      BY <2>3 DEF AllInv, FilesInv
    <3>2. Exists("final") /\ files["final"] \in Values /\ OnDisk = files["final"]
      BY <1>6, DiskCases DEF KeepBackup, AllInv, FilesInv
    <3>3. Fallback' = OnDisk /\ OnDisk' = files["tmp"]
      BY <1>4, <3>1, <3>2, ValueAssumption DEF Fallback, OnDisk, Exists, Whole, ValueAssumption
    <3> QED BY <1>1, <1>2, <1>3, <1>4, <2>1, <3>3, WithinSave
  <2> QED BY <1>6, <2>2, <2>3 DEF KeepBackup
<1>7. CASE Commit
  <2>1. CASE UNCHANGED files /\ MayFail
    <3>1. used'.failures >= 1
      BY <2>1 DEF MayFail, Use, AllInv, TypeInv
    <3>2. worker' = "discard"
      BY <1>4, <1>7, <2>1, ValueAssumption
         DEF Commit, MayFail, Use, AllInv, FilesInv, TypeInv, ValueAssumption
    <3> QED BY <1>1, <1>2, <1>3, <2>1, <3>1, <3>2, OnDiskSame, WithinSave
  <2>2. CASE /\ files' = [files EXCEPT !["final"] = files["tmp"], !["tmp"] = Missing]
             /\ worker' = "settle"
    <3>1. files'["final"] = files["tmp"]
      BY <2>2 DEF AllInv, FilesInv
    <3>2. Exists("final")' /\ OnDisk' = files["tmp"]
      BY <1>4, <3>1, ValueAssumption DEF OnDisk, Exists, ValueAssumption
    <3> QED BY <1>1, <1>2, <1>3, <1>4, <2>2, <3>2, WithinSave DEF Calm
  <2> QED BY <1>7, <2>1, <2>2 DEF Commit
<1> QED BY <1>5, <1>6, <1>7

\* After a commit that failed: here it matters that "tmp" can be removed.
LEMMA GiveUpDurable ==
    ASSUME AllInv, FilesInv', RemovableTmp, DiscardTmp \/ RestoreBackup
    PROVE  DurableInv' /\ FileStep
<1>1. /\ Writing /\ Writing' /\ worker' \in {"restore", "settle"}
      /\ UNCHANGED <<undecided, job, boot>>
      /\ MayFail \/ MayFailToRemove \/ UNCHANGED used
  BY DEF DiscardTmp, RestoreBackup, Writing, writeRest, workerRest
<1>2. Counted /\ used'.stuckTmps \in 0..MaxStuckTmps
  BY <1>1, UsesCount, StuckBound DEF MayFail, AllInv
<1>3. /\ undecided # {} /\ OnDisk \in undecided /\ job.settings \in undecided
      /\ ~ Exists("final") => Fallback \in undecided
  BY <1>1 DEF AllInv, DurableInv
<1> USE DEF Rename, Remove, Names
<1>4. CASE DiscardTmp
  <2>1. ~ MayFailToRemove
    BY <1>4, ValueAssumption
       DEF DiscardTmp, AllInv, DurableInv, TypeInv, RemovableTmp, MayFailToRemove,
           ValueAssumption
  <2>2. files' = [files EXCEPT !["tmp"] = Missing]
    BY <1>4, <2>1 DEF DiscardTmp
  <2>3. /\ UNCHANGED <<files["final"], files["bak"], Exists("final"), Fallback>>
        /\ ~ Whole("tmp")'
    BY <2>2, ValueAssumption
       DEF AllInv, FilesInv, Exists, Whole, Fallback, ValueAssumption
  <2>4. OnDisk' = IF Exists("final") THEN OnDisk ELSE Fallback
    BY <2>3 DEF OnDisk, Fallback
  <2>5. Calm'
    BY <2>3 DEF Calm
  <2> QED BY <1>1, <1>2, <1>3, <2>3, <2>4, <2>5, WithinSave
<1>5. CASE RestoreBackup
  <2>1. Calm
    BY <1>5 DEF RestoreBackup, AllInv, DurableInv
  <2>2. CASE UNCHANGED files
    BY <1>1, <1>2, <1>3, <2>1, <2>2, OnDiskSame, WithinSave
  <2>3. CASE ~ Exists("final") /\ Exists("bak")
             /\ files' = [files EXCEPT !["final"] = files["bak"], !["bak"] = Missing]
    <3>1. files'["final"] = files["bak"] /\ files["bak"] \in Values
      BY <2>3, DiskCases DEF AllInv, FilesInv
    <3>2. Exists("final")' /\ OnDisk' = Fallback
      BY <3>1, ValueAssumption DEF OnDisk, Fallback, Exists, Whole, ValueAssumption
    <3> QED BY <1>1, <1>2, <1>3, <2>3, <3>2, WithinSave DEF Calm
  <2> QED BY <1>5, <2>2, <2>3 DEF RestoreBackup
<1> QED BY <1>4, <1>5

\* A crash leaves the files alone, and so does reading them.
LEMMA CrashDurable ==
    ASSUME AllInv, Crash \/ LoadSettings
    PROVE  DurableInv' /\ FileStep
<1>1. Counted /\ used'.stuckTmps \in 0..MaxStuckTmps
  BY UsesCount, StuckBound DEF AllInv, Crash, LoadSettings
<1>2. UNCHANGED <<OnDisk, Fallback, Calm, Exists("final")>>
  BY OnDiskSame DEF Crash, LoadSettings
<1>3. CASE Crash
  <2>1. ~ Writing' /\ boot' = "recover" /\ worker' = "none" /\ UNCHANGED undecided
    BY <1>3 DEF Crash, Writing
  <2> QED BY <1>1, <1>2, <2>1 DEF AllInv, DurableInv, FileStep
<1>4. CASE LoadSettings
  <2>1. /\ ~ Writing /\ ~ Writing' /\ undecided' = {} /\ boot = "load" /\ boot' = "up"
        /\ UNCHANGED worker
    BY <1>4 DEF LoadSettings, Writing, AllInv, TypeInv
  <2>2. Calm
    BY <2>1 DEF AllInv, DurableInv
  <2>3. Durable!End \/ UNCHANGED <<OnDisk, undecided>>
    BY <1>2, <2>1 DEF Durable!End
  <2>4. worker \notin {"discard", "write", "restore", "settle"}
    BY <2>1 DEF Writing
  <2> QED BY <1>1, <1>2, <2>1, <2>2, <2>3, <2>4
          DEF AllInv, DurableInv, FileStep, Durable!Next
<1> QED BY <1>3, <1>4

\* A step of the repair keeps what a start would read, or takes it from the
\* backup that the interrupted save had made.
LEMMA RepairStep ==
    ASSUME AllInv, boot # "up", UNCHANGED <<undecided, worker>>,
           boot' \in {"clean", "restore", "load"}, Counted,
           used'.stuckTmps \in 0..MaxStuckTmps,
           OnDisk' = OnDisk \/ (undecided # {} /\ OnDisk' = Fallback /\ ~ Exists("final")),
           ~ Exists("final")' => UNCHANGED <<Fallback, Exists("final")>>,
           boot' # "clean" \/ Calm => Calm',
           boot' = "clean" /\ ~ Calm' => used'.failures >= 1
    PROVE  DurableInv' /\ FileStep
<1>1. ~ Writing /\ ~ Writing' /\ worker' = "none"
  BY DEF AllInv, TypeInv, Writing
<1>2. undecided # {} => OnDisk' \in undecided
  BY DEF AllInv, DurableInv
<1>3. FileStep
  BY <1>2 DEF FileStep, Durable!Next, Durable!Progress
<1>4. undecided = {} => Calm'
  BY DEF AllInv, DurableInv
<1> QED BY <1>1, <1>2, <1>3, <1>4 DEF AllInv, DurableInv

LEMMA RecoverDurable ==
    ASSUME AllInv, FilesInv', RecoverTmp
    PROVE  DurableInv' /\ FileStep
<1>1. /\ boot # "up" /\ boot' = "clean" /\ UNCHANGED <<undecided, worker>>
      /\ MayFail \/ UNCHANGED used
  BY DEF RecoverTmp, bootRest
<1>2. Counted /\ used'.stuckTmps \in 0..MaxStuckTmps
  BY <1>1, UsesCount, StuckBound DEF MayFail, AllInv
<1>3. CASE UNCHANGED files
  <2>1. ~ Calm => used'.failures >= 1
    BY <1>3, ValueAssumption
       DEF RecoverTmp, MayFail, Use, Calm, Rename, AllInv, TypeInv, FilesInv, Names,
           Exists, Whole, ValueAssumption
  <2> QED BY <1>1, <1>2, <1>3, <2>1, OnDiskSame, RepairStep
<1>4. CASE ~ Exists("final") /\ Whole("tmp")
           /\ files' = [files EXCEPT !["final"] = files["tmp"], !["tmp"] = Missing]
  <2>1. files'["final"] = files["tmp"] /\ files["tmp"] \in Values
    BY <1>4 DEF AllInv, FilesInv, Names, Whole
  <2>2. Exists("final")' /\ OnDisk' = OnDisk
    BY <1>4, <2>1, ValueAssumption DEF OnDisk, Exists, ValueAssumption
  <2> QED BY <1>1, <1>2, <2>2, RepairStep DEF Calm
<1> QED BY <1>3, <1>4 DEF RecoverTmp, Rename

LEMMA CleanDurable ==
    ASSUME AllInv, FilesInv', RemovableTmp, CleanTmp
    PROVE  DurableInv' /\ FileStep
<1>1. /\ boot = "clean" /\ boot' = "restore" /\ UNCHANGED <<undecided, worker>>
      /\ MayFailToRemove \/ UNCHANGED used
  BY DEF CleanTmp, bootRest
<1>2. Counted /\ used'.stuckTmps \in 0..MaxStuckTmps
  BY <1>1, UsesCount, StuckBound DEF AllInv
<1>3. CASE MayFailToRemove /\ UNCHANGED files
  <2>1. Calm
    BY <1>1, <1>3, ValueAssumption
       DEF AllInv, DurableInv, TypeInv, RemovableTmp, MayFailToRemove, ValueAssumption
  <2> QED BY <1>1, <1>2, <1>3, <2>1, OnDiskSame, RepairStep
<1>4. CASE files' = [files EXCEPT !["tmp"] = Missing]
  <2>1. /\ UNCHANGED <<files["final"], files["bak"], Exists("final"), Fallback>>
        /\ ~ Whole("tmp")'
    BY <1>4, ValueAssumption
       DEF AllInv, FilesInv, Names, Exists, Whole, Fallback, ValueAssumption
  <2>2. OnDisk' = IF Exists("final") THEN OnDisk ELSE Fallback
    BY <2>1 DEF OnDisk, Fallback
  <2>3. OnDisk' = OnDisk \/ (undecided # {} /\ OnDisk' = Fallback /\ ~ Exists("final"))
    BY <2>2, DiskCases DEF AllInv, DurableInv, Calm
  <2>4. Calm'
    BY <2>1 DEF Calm
  <2> QED BY <1>1, <1>2, <2>1, <2>3, <2>4, RepairStep
<1> QED BY <1>3, <1>4 DEF CleanTmp, Remove

LEMMA RestoreDurable ==
    ASSUME AllInv, FilesInv', RestoreAtStart
    PROVE  DurableInv' /\ FileStep
<1>1. /\ boot = "restore" /\ boot' = "load" /\ UNCHANGED <<undecided, worker>>
      /\ MayFail \/ UNCHANGED used
  BY DEF RestoreAtStart, bootRest
<1>2. Counted /\ used'.stuckTmps \in 0..MaxStuckTmps
  BY <1>1, UsesCount, StuckBound DEF MayFail, AllInv
<1>3. Calm
  BY <1>1 DEF AllInv, DurableInv
<1>4. CASE UNCHANGED files
  BY <1>1, <1>2, <1>3, <1>4, OnDiskSame, RepairStep
<1>5. CASE ~ Exists("final") /\ Exists("bak")
           /\ files' = [files EXCEPT !["final"] = files["bak"], !["bak"] = Missing]
  <2>1. files'["final"] = files["bak"] /\ files["bak"] \in Values
    BY <1>5, DiskCases DEF AllInv, FilesInv, Names
  <2>2. OnDisk = files["bak"]
    BY <1>3, <1>5, <2>1, DiskCases DEF Calm, AllInv, Fallback, Whole
  <2>3. Exists("final")' /\ OnDisk' = OnDisk
    BY <2>1, <2>2, ValueAssumption DEF OnDisk, Exists, ValueAssumption
  <2> QED BY <1>1, <1>2, <2>3, RepairStep DEF Calm
<1> QED BY <1>4, <1>5 DEF RestoreAtStart, Rename

LEMMA InitDurable == Init => AllInv /\ Durable!Init
<1> SUFFICES ASSUME Init PROVE AllInv /\ Durable!Init
  OBVIOUS
<1>1. TypeInv /\ FilesInv
  BY InitTypes
<1>2. ~ Whole("tmp") /\ ~ Writing
  BY ValueAssumption DEF Init, Whole, Writing, ValueAssumption
<1>3. DurableInv
  BY <1>2, ValueAssumption DEF Init, DurableInv, Calm, ValueAssumption
<1>4. Durable!Init
  BY <1>1, DiskCases DEF Init, Durable!Init
<1> QED BY <1>1, <1>3, <1>4 DEF AllInv

\* The types hold of every step, whatever fails.
LEMMA NextTypes == TypeInv /\ FilesInv /\ [Next]_vars => TypeInv' /\ FilesInv'
<1> SUFFICES ASSUME TypeInv, FilesInv, [Next]_vars PROVE TypeInv' /\ FilesInv'
  OBVIOUS
<1>1. CASE UNCHANGED vars
  BY <1>1 DEF vars, memoryVars, queueVars, TypeInv, FilesInv, Writing, Exists
<1>2. CASE (\E v \in Values : Request(v)) \/ RequestUnchanged \/ UiStep
  BY <1>2, UiTypes, UiAndMainFiles
<1>3. CASE AnnounceLoad \/ MainStep
  BY <1>3, MainTypes, UiAndMainFiles
<1>4. CASE WorkerStep
  BY <1>4, WorkerTypes, WriteFiles
<1>5. CASE Crash \/ BootStep
  BY <1>5, BootTypes, BootFiles
<1> QED BY <1>1, <1>2, <1>3, <1>4, <1>5 DEF Next

LEMMA NextDurable ==
    ASSUME RemovableTmp, AllInv, [Next]_vars
    PROVE  AllInv' /\ FileStep
<1>1. TypeInv' /\ FilesInv'
  BY NextTypes DEF AllInv
<1>2. CASE UNCHANGED vars
  <2>1. UNCHANGED <<files, undecided, worker, boot, job, used>>
    BY <1>2 DEF vars
  <2>2. UNCHANGED <<OnDisk, Fallback, Calm, Exists("final"), Writing>>
    BY <2>1, OnDiskSame DEF Writing
  <2> QED BY <1>1, <2>1, <2>2 DEF AllInv, DurableInv, FileStep
<1>3. CASE \/ \E v \in Values : Request(v)
           \/ RequestUnchanged \/ UiStep \/ AnnounceLoad \/ MainStep
  BY <1>1, <1>3, UiAndMainDurable DEF AllInv
<1>4. CASE WorkerStep
  BY <1>1, <1>4, TakeDurable, WriteTmpDurable, ReplaceDurable, GiveUpDurable
     DEF WorkerStep, AllInv
<1>5. CASE Crash \/ BootStep
  BY <1>1, <1>5, CrashDurable, RecoverDurable, CleanDurable, RestoreDurable
     DEF BootStep, AllInv
<1> QED BY <1>2, <1>3, <1>4, <1>5 DEF Next

----------------------------------------------------------------------------
\* The settings file is crash-safe: whatever is asked for, however often the
\* process dies in a save or in the repair at a start, the next start reads
\* the settings of the last save or, of an interrupted one, those from before
\* it (Config.cpp:52-96, 247-352).  It needs that a temporary file in the way
\* can be removed, or that one operation fails at most: a whole one that stays
\* behind without a settings file is what a start would read, and the next save
\* tears it.
THEOREM FileSurvives ==
    ASSUME RemovableTmp
    PROVE  Spec => FileIsDurable
<1>1. Init => AllInv /\ Durable!Init
  BY InitDurable
<1>2. AllInv /\ [Next]_vars => AllInv' /\ FileStep
  BY NextDurable
<1>3. FileStep => [Durable!Next]_<<OnDisk, undecided>>
  BY DEF FileStep
<1> QED BY <1>1, <1>2, <1>3, PTL DEF Spec, FileIsDurable, Durable!Spec

----------------------------------------------------------------------------
(* What the UI shows.                                                       *)

ShownInv == Up => shown = memory \/ ui = "show" \/ feedback > 0

LEMMA NextShown == TypeInv /\ ShownInv /\ [Next]_vars => ShownInv'
<1> SUFFICES ASSUME TypeInv, ShownInv, [Next]_vars PROVE ShownInv'
  OBVIOUS
<1> USE DEF ShownInv, Up
<1>1. CASE UNCHANGED vars
  BY <1>1 DEF vars, memoryVars
<1>2. CASE (\E v \in Values : Request(v)) \/ RequestUnchanged \/ UiStep
  BY <1>2 DEF Request, RequestUnchanged, UiStep, ApplyToMemory, ShowNew, ClearStopping,
     PutJob, ClaimWorker, StartWorker, ShowFeedback, memoryVars, uiRest
<1>3. CASE AnnounceLoad \/ MainStep
  BY <1>3 DEF AnnounceLoad, MainStep, DropPending, JoinWorker, FinishShutdown, mainRest,
              memoryVars
<1>4. CASE Settle
  BY <1>4 DEF Settle, TypeInv
<1>5. CASE WorkerStep /\ ~ Settle
  BY <1>5 DEF WorkerStep, CheckStopping, StopWorker, TakePending, NothingPending, OpenTmp,
     FlushTmp, RemoveBackup, KeepBackup, Commit, DiscardTmp, RestoreBackup, workerRest,
     writeRest, memoryVars
<1>6. CASE Crash \/ BootStep
  BY <1>6 DEF Crash, BootStep, RecoverTmp, CleanTmp, RestoreAtStart, LoadSettings, bootRest
<1> QED BY <1>1, <1>2, <1>3, <1>4, <1>5, <1>6 DEF Next

\* Nothing that changes the settings in use leaves the UI with the old ones for
\* good, be it a newer request or a failed save that takes a change back while
\* a request is handled (PrismaUISettings.cpp:86-100, 181-223): whatever fails.
THEOREM UiShowsMemory == Spec => []SettledUiShowsMemory
<1>1. Init => TypeInv /\ FilesInv /\ ShownInv
  BY InitTypes DEF Init, ShownInv
<1>2. TypeInv /\ FilesInv /\ ShownInv /\ [Next]_vars => (TypeInv /\ FilesInv /\ ShownInv)'
  BY NextTypes, NextShown
<1>3. TypeInv /\ ShownInv => SettledUiShowsMemory
  BY DEF TypeInv, ShownInv, SettledUiShowsMemory, Settled
<1> QED BY <1>1, <1>2, <1>3, PTL DEF Spec

----------------------------------------------------------------------------
(* Memory and file, when no operation fails and no load drops a job.        *)

\* The settings the file is on its way to hold.
Latest == IF pending # None THEN pending.settings
          ELSE IF Writing THEN job.settings ELSE OnDisk

AgreeInv ==
    /\ used.loads = 0 => main = "idle"
    /\ worker = "settle" /\ saved => files["final"] = job.settings
    /\ worker \in {"discard", "restore"} => ~ saved
    /\ used.failures = 0 =>
          /\ worker \notin {"discard", "restore"}
          /\ worker = "settle" => saved
          /\ boot \in {"restore", "load"} => files["tmp"] = Missing
          /\ boot = "load" => Exists("final") \/ ~ Exists("bak")
          /\ Up /\ used.loads = 0 =>
                /\ ui \in {"show", "unstop", "put"} => memory = uiJob.settings
                /\ ui \in {"idle", "claim", "start"} => memory = Latest

AgreeAll == TypeInv /\ FilesInv /\ AgreeInv

\* No step makes the counts go down.
LEMMA NextCounts == TypeInv /\ FilesInv /\ [Next]_vars => Counted
<1> SUFFICES ASSUME TypeInv, FilesInv, [Next]_vars PROVE Counted
  OBVIOUS
<1>1. CASE UNCHANGED vars
  BY <1>1, UsesCount DEF vars
<1> QED BY <1>1, UiTypes, MainTypes, WorkerTypes, BootTypes DEF Next

\* A count that is zero after a step was zero before it.
LEMMA StillNone ==
    ASSUME TypeInv, Counted
    PROVE  /\ used'.failures = 0 => used.failures = 0
           /\ used'.loads = 0 => used.loads = 0
  BY DEF TypeInv, Counted

LEMMA LatestSame ==
    ASSUME UNCHANGED <<pending, files, job, Writing>>
    PROVE  Latest' = Latest
  BY DEF Latest, OnDisk, Exists, Whole

LEMMA UiAgrees ==
    ASSUME AgreeAll, Counted,
           (\E v \in Values : Request(v)) \/ RequestUnchanged \/ UiStep
    PROVE  AgreeInv'
<1>1. /\ UNCHANGED <<main, job, saved, files, boot>>
      /\ worker' = worker \/ (worker = "none" /\ worker' = "check")
  BY DEF Request, RequestUnchanged, UiStep, ApplyToMemory, ShowNew, ClearStopping,
         PutJob, ClaimWorker, StartWorker, ShowFeedback, uiRest
<1>2. UNCHANGED Writing
  BY <1>1 DEF Writing
<1>3. pending' = pending => Latest' = Latest
  BY <1>1, <1>2, LatestSame
<1>4. boot = "up" /\ boot' = "up"
  BY DEF Request, RequestUnchanged, UiStep, ApplyToMemory, ShowNew, ClearStopping,
         PutJob, ClaimWorker, StartWorker, ShowFeedback, uiRest, Up
<1>5. ASSUME used.failures = 0, used.loads = 0
      PROVE  /\ ui' \in {"show", "unstop", "put"} => memory' = uiJob'.settings
             /\ ui' \in {"idle", "claim", "start"} => memory' = Latest'
  <2> USE <1>4, <1>5 DEF AgreeAll, AgreeInv, Up, memoryVars, queueVars
  <2>1. ASSUME NEW v \in Values, Request(v)
        PROVE  ui' = "apply"
    BY <2>1 DEF Request
  <2>2. CASE ApplyToMemory \/ ShowNew \/ ClearStopping
    BY <2>2 DEF ApplyToMemory, ShowNew, ClearStopping
  <2>3. CASE PutJob
    <3>1. ui' = "claim" /\ memory' = uiJob.settings /\ pending' = uiJob
      BY <2>3 DEF PutJob
    <3>2. pending' # None
      BY <2>3, <3>1, ValueAssumption DEF PutJob, TypeInv, Jobs, ValueAssumption
    <3> QED BY <3>1, <3>2 DEF Latest
  <2>4. CASE ClaimWorker \/ StartWorker \/ ShowFeedback \/ RequestUnchanged
    BY <1>3, <2>4 DEF ClaimWorker, StartWorker, ShowFeedback, RequestUnchanged
  <2> QED BY <2>1, <2>2, <2>3, <2>4 DEF UiStep
<1> QED BY <1>1, <1>4, <1>5, StillNone DEF AgreeAll, AgreeInv

LEMMA MainAgrees ==
    ASSUME AgreeAll, Counted, AnnounceLoad \/ MainStep
    PROVE  AgreeInv'
<1>1. /\ UNCHANGED <<memory, ui, uiJob, worker, job, saved, files, boot>>
      /\ boot = "up"
  BY DEF AnnounceLoad, MainStep, DropPending, JoinWorker, FinishShutdown, mainRest,
         memoryVars, Up
<1>2. used'.loads # 0
  BY DEF AnnounceLoad, MainStep, DropPending, JoinWorker, FinishShutdown, Use, AgreeAll,
         AgreeInv, TypeInv
<1> QED BY <1>1, <1>2, StillNone DEF AgreeAll, AgreeInv

\* Steps of the worker that move a job on: what it was is what the file gets.
LEMMA WorkerAgrees ==
    ASSUME AgreeAll, FilesInv', Counted, WorkerStep
    PROVE  AgreeInv'
<1>1. UNCHANGED <<main, ui, uiJob, boot>> /\ boot = "up"
  BY DEF WorkerStep, CheckStopping, StopWorker, TakePending, NothingPending, OpenTmp,
     FlushTmp, RemoveBackup, KeepBackup, Commit, DiscardTmp, RestoreBackup, Settle,
     workerRest, writeRest, Up
<1>2. ASSUME used'.failures = 0
      PROVE  used.failures = 0 /\ ~ MayFail /\ ~ MayFailToRemove
  <2>1. used.failures = 0
    BY <1>2, StillNone DEF AgreeAll
  <2>2. used' = [used EXCEPT !.failures = @ + 1] => used'.failures = 1
    BY <2>1 DEF AgreeAll, TypeInv
  <2>3. used' = [used EXCEPT !.failures = @ + 1, !.stuckTmps = @ + 1]
          => used'.failures = 1
    BY <2>1 DEF AgreeAll, TypeInv
  <2> QED BY <1>2, <2>1, <2>2, <2>3 DEF MayFail, Use, MayFailToRemove
<1>3. /\ worker' = "settle" /\ saved' => files'["final"] = job'.settings
      /\ worker' \in {"discard", "restore"} => ~ saved'
  BY DEF WorkerStep, CheckStopping, StopWorker, TakePending, NothingPending, OpenTmp,
     FlushTmp, RemoveBackup, KeepBackup, Commit, DiscardTmp, RestoreBackup, Settle,
     writeRest, Rename, AgreeAll, AgreeInv, FilesInv, Names
<1>4. ASSUME used'.failures = 0
      PROVE  worker' \notin {"discard", "restore"} /\ (worker' = "settle" => saved')
  BY <1>2, <1>4
     DEF WorkerStep, CheckStopping, StopWorker, TakePending, NothingPending, OpenTmp,
     FlushTmp, RemoveBackup, KeepBackup, Commit, DiscardTmp, RestoreBackup, Settle,
     AgreeAll, AgreeInv
<1>5. ASSUME used'.failures = 0
      PROVE  UNCHANGED <<memory, Latest>>
  <2> USE <1>2, <1>5
  <2>1. CASE CheckStopping \/ StopWorker \/ NothingPending
    BY <2>1, LatestSame
       DEF CheckStopping, StopWorker, NothingPending, Writing, writeRest, memoryVars,
           queueVars
  <2>2. CASE TakePending
    BY <2>2 DEF TakePending, Latest, Writing, memoryVars
  <2>3. CASE OpenTmp \/ FlushTmp \/ RemoveBackup \/ KeepBackup \/ Commit
    <3>1. UNCHANGED <<memory, pending, job>> /\ Writing /\ Writing'
      BY <2>3 DEF OpenTmp, FlushTmp, RemoveBackup, KeepBackup, Commit, Writing, writeRest,
                  memoryVars, queueVars
    <3> QED BY <3>1 DEF Latest
  <2>4. CASE DiscardTmp \/ RestoreBackup
    BY <2>4 DEF DiscardTmp, RestoreBackup, AgreeAll, AgreeInv
  <2>5. CASE Settle
    <3>1. saved /\ files["final"] = job.settings /\ job.settings \in Values
      BY <2>5 DEF Settle, AgreeAll, AgreeInv, TypeInv, Writing, Jobs
    <3>2. OnDisk = job.settings
      BY <3>1, ValueAssumption DEF OnDisk, Exists, ValueAssumption
    <3>3. /\ UNCHANGED <<memory, pending, files, OnDisk>>
          /\ Writing /\ ~ Writing'
      BY <2>5, <3>1 DEF Settle, Writing, queueVars, OnDisk, Exists, Whole
    <3> QED BY <3>2, <3>3 DEF Latest
  <2> QED BY <2>1, <2>2, <2>3, <2>4, <2>5 DEF WorkerStep
<1>6. used'.loads = 0 => used.loads = 0 /\ main' = "idle"
  BY <1>1, StillNone DEF AgreeAll, AgreeInv
<1>7. ASSUME used'.failures = 0, used'.loads = 0
      PROVE  /\ ui' \in {"show", "unstop", "put"} => memory' = uiJob'.settings
             /\ ui' \in {"idle", "claim", "start"} => memory' = Latest'
  BY <1>1, <1>2, <1>5, <1>6, <1>7 DEF AgreeAll, AgreeInv, Up
<1>8. boot' \notin {"restore", "load"}
  BY <1>1
<1> QED BY <1>3, <1>4, <1>6, <1>7, <1>8 DEF AgreeInv

\* A crash, and the start: it reads what the repair left, and nothing is queued.
LEMMA BootAgrees ==
    ASSUME AgreeAll, FilesInv', TypeInv', Counted, Crash \/ BootStep
    PROVE  AgreeInv'
<1>1. worker' = "none" /\ ui' = "idle" /\ pending' = None /\ ~ Writing'
  BY DEF Crash, BootStep, RecoverTmp, CleanTmp, RestoreAtStart, LoadSettings, bootRest,
         queueVars, AgreeAll, TypeInv, Writing
<1>2. used'.loads = 0 => main' = "idle"
  BY StillNone DEF Crash, BootStep, RecoverTmp, CleanTmp, RestoreAtStart, LoadSettings,
     bootRest, AgreeAll, AgreeInv
<1>3. ASSUME used'.failures = 0
      PROVE  used.failures = 0 /\ ~ MayFail /\ ~ MayFailToRemove
  <2>1. used.failures = 0
    BY <1>3, StillNone DEF AgreeAll
  <2>2. used' = [used EXCEPT !.failures = @ + 1] => used'.failures = 1
    BY <2>1 DEF AgreeAll, TypeInv
  <2>3. used' = [used EXCEPT !.failures = @ + 1, !.stuckTmps = @ + 1]
          => used'.failures = 1
    BY <2>1 DEF AgreeAll, TypeInv
  <2> QED BY <1>3, <2>1, <2>2, <2>3 DEF MayFail, Use, MayFailToRemove
<1>4. ASSUME used'.failures = 0
      PROVE  /\ boot' \in {"restore", "load"} => files'["tmp"] = Missing
             /\ boot' = "load" => Exists("final")' \/ ~ Exists("bak")'
  <2> USE <1>3, <1>4 DEF AgreeAll, AgreeInv, FilesInv, Names, Rename, Remove, Exists
  <2>1. CASE Crash \/ RecoverTmp \/ LoadSettings
    BY <2>1 DEF Crash, RecoverTmp, LoadSettings
  <2>2. CASE CleanTmp
    BY <2>2 DEF CleanTmp
  <2>3. CASE RestoreAtStart
    BY <2>3, ValueAssumption DEF RestoreAtStart, ValueAssumption
  <2> QED BY <2>1, <2>2, <2>3 DEF BootStep
<1>5. ASSUME used'.failures = 0, Up'
      PROVE  memory' = Latest'
  <2>1. LoadSettings
    BY <1>5 DEF Crash, BootStep, RecoverTmp, CleanTmp, RestoreAtStart, Up
  <2>2. /\ files["tmp"] = Missing /\ UNCHANGED files
        /\ Exists("final") \/ ~ Exists("bak")
    BY <1>3, <1>5, <2>1 DEF AgreeAll, AgreeInv, LoadSettings
  <2>3. ~ Whole("tmp") /\ (~ Exists("bak") => ~ Whole("bak"))
    BY <2>2, ValueAssumption DEF Whole, Exists, ValueAssumption
  <2>4. memory' = OnDisk
    BY <2>1, <2>2, <2>3 DEF LoadSettings, OnDisk
  <2>5. OnDisk' = OnDisk
    BY <2>2 DEF OnDisk, Exists, Whole
  <2> QED BY <1>1, <2>4, <2>5 DEF Latest
<1> QED BY <1>1, <1>2, <1>4, <1>5 DEF AgreeInv

LEMMA NextAgrees == AgreeAll /\ [Next]_vars => AgreeAll'
<1> SUFFICES ASSUME AgreeAll, [Next]_vars PROVE AgreeAll'
  OBVIOUS
<1>1. TypeInv' /\ FilesInv' /\ Counted
  BY NextTypes, NextCounts DEF AgreeAll
<1>2. CASE UNCHANGED vars
  <2>1. UNCHANGED <<memory, pending, ui, uiJob, main, worker, job, saved, files, boot, used>>
    BY <1>2 DEF vars, memoryVars, queueVars
  <2>2. UNCHANGED <<Latest, Exists("final"), Exists("bak")>>
    BY <2>1, LatestSame DEF Writing, Exists
  <2> QED BY <1>1, <2>1, <2>2 DEF AgreeAll, AgreeInv, Up
<1> QED BY <1>1, <1>2, UiAgrees, MainAgrees, WorkerAgrees, BootAgrees
        DEF Next, AgreeAll

\* Whatever requests overtake each other and the worker, and however often the
\* process dies, the settings in use when all is done are those that the next
\* start reads, if no file operation failed and no load dropped a job
\* (PrismaUISettings.cpp:114-173, 226-253; Config.cpp:247-352).
THEOREM SettingsAgree == Spec => []SettledSettingsAgree
<1>1. Init => AgreeAll
  <2> SUFFICES ASSUME Init PROVE AgreeAll
    OBVIOUS
  <2>1. ~ Writing /\ pending = None
    BY DEF Init, Writing
  <2>2. memory = Latest
    BY <2>1 DEF Init, Latest
  <2> QED BY <2>2, InitTypes DEF Init, AgreeAll, AgreeInv
<1>2. AgreeAll /\ [Next]_vars => AgreeAll'
  BY NextAgrees
<1>3. AgreeAll => SettledSettingsAgree
  BY DEF AgreeAll, AgreeInv, SettledSettingsAgree, Settled, Latest, Writing
<1> QED BY <1>1, <1>2, <1>3, PTL DEF Spec
=============================================================================
